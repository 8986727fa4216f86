------------------------------ MODULE Settings ------------------------------
(* settings.json and its advisory lockfile (src/src/settings.rs).            *)
(*                                                                           *)
(* Every gitc process shares one document and one lockfile next to it.  A    *)
(* process runs one operation, system call by system call:                   *)
(*   a Mutator  calls mutate:        lock, load, apply f, save, unlock       *)
(*   a Reader   calls with_lock:     lock, load, unlock                      *)
(*   an Initer  calls load_or_init:  load, and save a default if there is no *)
(*                                   document, all of it without the lock    *)
(* The document is abstracted to the set of Mutators whose f it contains;    *)
(* default() is the empty set.  The lockfile is abstracted to the process    *)
(* that created it (the file itself is empty, so no code reads this) and its *)
(* modification time.                                                        *)
EXTENDS Integers

CONSTANTS
    Mutators, Readers, Initers,   \* the processes, by the operation they run
    Stale,         \* LOCK_STALE: an older lockfile may be removed by a waiter
    AcquireMax,    \* LOCK_ACQUIRE_MAX: a waiter gives up after this long
    MaxClock,      \* bound of the model: the last instant
    LastStart,     \* bound of the model: the last instant a wait starts
    ReadOnlyDir,   \* TRUE: the directory refuses to create and to remove files
    NoLock, Abandoned  \* lock values that are not processes

Procs == Mutators \cup Readers \cup Initers

ASSUME ProcsAssumption ==
    /\ Mutators \cap (Readers \cup Initers) = {}
    /\ Readers \cap Initers = {}
    /\ NoLock \notin Procs /\ Abandoned \notin Procs /\ NoLock # Abandoned

ASSUME TimeAssumption ==
    /\ Stale \in Nat /\ AcquireMax \in Nat
    /\ MaxClock \in Nat /\ LastStart \in Nat
    /\ ReadOnlyDir \in BOOLEAN

VARIABLES
    now,      \* the clock
    lock,     \* NoLock, or whose lockfile is there (Abandoned: a dead process')
    mtime,    \* its modification time
    file,     \* what a load of settings.json finds
    doc,      \* the updates in it
    pc,       \* where each process is
    since,    \* when its wait for the lock began (0: it is not waiting)
    local,    \* the document it is going to save ({}: it is not saving)
    temp,     \* its temporary file
    outcome,  \* what its operation returned
    aged,     \* history: "never", or whose lockfile has outlived Stale: only a
              \* "dead" process', or also that of a "live" holder
    defaulted \* history: a load_or_init has saved a default

vars == <<now, lock, mtime, file, doc, pc, since, local, temp, outcome,
          aged, defaulted>>

FileStates == {"absent", "corrupt", "whole", "torn"}
Waiting  == {"create", "stat", "reclaim"}
Critical == {"load", "mktemp", "write", "rename", "release"}
PCs == {"idle", "ended", "crashed"} \cup Waiting \cup Critical

\* The processes that run between acquire_lock and the drop of its guard.
Holders == {p \in Mutators \cup Readers : pc[p] \in Critical}

Init ==
    /\ now = 0 /\ mtime = 0
    /\ lock \in {NoLock, Abandoned}
    /\ file \in {"absent", "corrupt", "whole"}
    /\ doc = {}
    /\ pc = [p \in Procs |-> "idle"]
    /\ since = [p \in Procs |-> 0]
    /\ local = [p \in Procs |-> {}]
    /\ temp = [p \in Procs |-> "none"]
    /\ outcome = [p \in Procs |-> "none"]
    /\ aged = "never" /\ defaulted = FALSE

Goto(p, label) == pc' = [pc EXCEPT ![p] = label]
Return(p, result) == outcome' = [outcome EXCEPT ![p] = result]

-----------------------------------------------------------------------------
(* acquire_lock and LockGuard.                                               *)

\* Entry of mutate or with_lock: the wait starts.
Begin(p) ==
    /\ p \in Mutators \cup Readers /\ pc[p] = "idle"
    /\ now <= LastStart
    /\ since' = [since EXCEPT ![p] = now]
    /\ Goto(p, "create")
    /\ UNCHANGED <<now, lock, mtime, file, doc, local, temp, outcome, aged, defaulted>>

\* Mutant: the guard is dropped as soon as it is made (let _ = acquire_lock).
CreateLockDropsGuard(p) ==
    /\ pc[p] = "create"
    /\ IF lock = NoLock /\ ~ReadOnlyDir
       THEN since' = [since EXCEPT ![p] = 0] /\ Goto(p, "load")
       ELSE Goto(p, "stat") /\ UNCHANGED since
    /\ UNCHANGED <<now, lock, mtime, file, doc, local, temp, outcome, aged, defaulted>>

\* open(create_new): the lockfile is this process' own, or the call fails
\* whatever the reason (it exists, or nothing can be created here).
CreateLock(p) ==
    /\ pc[p] = "create"
    /\ IF lock = NoLock /\ ~ReadOnlyDir
       THEN /\ lock' = p /\ mtime' = now
            /\ since' = [since EXCEPT ![p] = 0]
            /\ Goto(p, "load")
       ELSE Goto(p, "stat") /\ UNCHANGED <<lock, mtime, since>>
    /\ UNCHANGED <<now, file, doc, local, temp, outcome, aged, defaulted>>

LockIsStale == lock # NoLock /\ now - mtime > Stale

\* metadata(lockfile) after a failed create.  A stale lock is reclaimed with
\* no look at the time waited; otherwise give up, or sleep and try again.
StatLock(p) ==
    /\ pc[p] = "stat"
    /\ \/ /\ LockIsStale
          /\ Goto(p, "reclaim") /\ UNCHANGED <<since, outcome>>
       \/ /\ ~LockIsStale /\ now - since[p] > AcquireMax
          /\ since' = [since EXCEPT ![p] = 0]
          /\ Goto(p, "ended") /\ Return(p, "error")
       \/ /\ ~LockIsStale /\ now - since[p] <= AcquireMax
          /\ Goto(p, "create") /\ UNCHANGED <<since, outcome>>
    /\ UNCHANGED <<now, lock, mtime, file, doc, local, temp, aged, defaulted>>

RemoveLockfile == lock' = IF ReadOnlyDir THEN lock ELSE NoLock

\* Mutant: the reclaim leaves the stale lockfile in place.
ReclaimForgetsRemove(p) ==
    /\ pc[p] = "reclaim"
    /\ Goto(p, "create")
    /\ UNCHANGED <<now, lock, mtime, file, doc, since, local, temp, outcome, aged, defaulted>>

\* remove_file(lockfile): whatever lockfile is there by now, not the one the
\* metadata call looked at.  An error is ignored.
ReclaimLock(p) ==
    /\ pc[p] = "reclaim"
    /\ RemoveLockfile
    /\ Goto(p, "create")
    /\ UNCHANGED <<now, mtime, file, doc, since, local, temp, outcome, aged, defaulted>>

\* LockGuard::drop: removes the lockfile by its path, whoever created it.
Release(p) ==
    /\ pc[p] = "release"
    /\ RemoveLockfile
    /\ Goto(p, "ended")
    /\ UNCHANGED <<now, mtime, file, doc, since, local, temp, outcome, aged, defaulted>>

-----------------------------------------------------------------------------
(* The critical sections, and load_or_init outside of any.                   *)

\* Where an operation goes when it has returned from its body.
Leave(p) == Goto(p, IF p \in Initers THEN "ended" ELSE "release")

\* load inside the lock.  A Mutator applies f to what it read, or to default()
\* when there is no document; a parse error ends the operation.
Load(p) ==
    /\ pc[p] = "load"
    /\ IF p \in Mutators /\ file # "corrupt"
       THEN /\ local' = [local EXCEPT ![p] =
                            (IF file = "absent" THEN {} ELSE doc) \cup {p}]
            /\ Goto(p, "mktemp")
            /\ UNCHANGED outcome
       ELSE /\ Leave(p)
            /\ Return(p, IF p \in Mutators THEN "error" ELSE "ok")
            /\ UNCHANGED local
    /\ UNCHANGED <<now, lock, mtime, file, doc, since, temp, aged, defaulted>>

\* load_or_init's load.  Only a missing document makes it save a default.
Peek(p) ==
    /\ p \in Initers /\ pc[p] = "idle"
    /\ IF file = "absent"
       THEN /\ local' = [local EXCEPT ![p] = {}]
            /\ Goto(p, "mktemp") /\ UNCHANGED outcome
       ELSE /\ Goto(p, "ended")
            /\ Return(p, IF file = "corrupt" THEN "error" ELSE "ok")
            /\ UNCHANGED local
    /\ UNCHANGED <<now, lock, mtime, file, doc, since, temp, aged, defaulted>>

-----------------------------------------------------------------------------
(* save: create_temp, write_all + sync_all, rename.                          *)

CreateTemp(p) ==
    /\ pc[p] = "mktemp" /\ ~ReadOnlyDir
    /\ temp' = [temp EXCEPT ![p] = "torn"]
    /\ Goto(p, "write")
    /\ UNCHANGED <<now, lock, mtime, file, doc, since, local, outcome, aged, defaulted>>

\* Mutant: the new content reaches the document before the save can still fail.
WriteThrough(p) ==
    /\ pc[p] = "write"
    /\ temp' = [temp EXCEPT ![p] = "whole"]
    /\ file' = "whole" /\ doc' = local[p]
    /\ Goto(p, "rename")
    /\ UNCHANGED <<now, lock, mtime, since, local, outcome, aged, defaulted>>

WriteTemp(p) ==
    /\ pc[p] = "write"
    /\ temp' = [temp EXCEPT ![p] = "whole"]
    /\ Goto(p, "rename")
    /\ UNCHANGED <<now, lock, mtime, file, doc, since, local, outcome, aged, defaulted>>

\* The rename replaces the document in one step.
Rename(p) ==
    /\ pc[p] = "rename"
    /\ file' = temp[p] /\ doc' = local[p]
    /\ temp' = [temp EXCEPT ![p] = "none"]
    /\ local' = [local EXCEPT ![p] = {}]
    /\ defaulted' = (defaulted \/ p \in Initers)
    /\ Leave(p) /\ Return(p, "ok")
    /\ UNCHANGED <<now, lock, mtime, since, aged>>

\* Any call of save may fail; the temporary file, if there is one, is removed.
SaveFails(p) ==
    /\ pc[p] \in {"mktemp", "write", "rename"}
    /\ temp' = [temp EXCEPT ![p] = "none"]
    /\ local' = [local EXCEPT ![p] = {}]
    /\ Leave(p) /\ Return(p, "error")
    /\ UNCHANGED <<now, lock, mtime, file, doc, since, aged, defaulted>>

-----------------------------------------------------------------------------
(* The environment: processes die anywhere, and pause for as long as time    *)
(* passes between two of their steps.                                        *)

\* What the process had in memory is gone, and its temporary file is one that
\* no other process ever opens; a lockfile it created stays.
Crash(p) ==
    /\ pc[p] \notin {"idle", "ended", "crashed"}
    /\ Goto(p, "crashed")
    /\ since' = [since EXCEPT ![p] = 0]
    /\ local' = [local EXCEPT ![p] = {}]
    /\ temp' = [temp EXCEPT ![p] = "none"]
    /\ UNCHANGED <<now, lock, mtime, file, doc, outcome, aged, defaulted>>

Tick ==
    /\ now < MaxClock
    /\ now' = now + 1
    /\ aged' = IF lock = NoLock \/ now' - mtime <= Stale THEN aged
               ELSE IF lock \in Holders \/ aged = "live" THEN "live"
               ELSE "dead"
    /\ UNCHANGED <<lock, mtime, file, doc, pc, since, local, temp, outcome, defaulted>>

Step(p) ==
    \/ CreateLock(p) \/ StatLock(p) \/ ReclaimLock(p) \/ Release(p)
    \/ Load(p) \/ CreateTemp(p) \/ WriteTemp(p) \/ Rename(p)

\* Every operation has ended: nothing is left to do.
Finished ==
    /\ \A p \in Procs : pc[p] \in {"ended", "crashed"} \/ (pc[p] = "idle" /\ now > LastStart)
    /\ UNCHANGED vars

Next ==
    \/ Tick
    \/ \E p \in Procs :
          \/ Begin(p) \/ Peek(p) \/ Step(p) \/ SaveFails(p) \/ Crash(p)
    \/ Finished

Spec == Init /\ [][Next]_vars

\* A process that has started is scheduled again unless it dies, and time
\* passes.  Starting, failing and dying are nobody's duty.
Fairness == WF_vars(Tick) /\ \A p \in Procs : WF_vars(Step(p) \/ SaveFails(p))
FairSpec == Spec /\ Fairness

-----------------------------------------------------------------------------
(* Properties.                                                               *)

\* The range of every variable; a temporary file is there exactly while its
\* process saves: no operation leaves one behind.
TypeOK ==
    /\ now \in 0..MaxClock /\ mtime \in 0..now
    /\ lock \in Procs \cup {NoLock, Abandoned}
    /\ file \in FileStates /\ doc \in SUBSET Mutators
    /\ pc \in [Procs -> PCs]
    /\ since \in [Procs -> 0..MaxClock]
    /\ local \in [Procs -> SUBSET Mutators]
    /\ temp \in [Procs -> {"none", "torn", "whole"}]
    /\ \A p \in Procs : temp[p] # "none" <=> pc[p] \in {"write", "rename"}
    /\ outcome \in [Procs -> {"none", "ok", "error"}]
    /\ aged \in {"never", "dead", "live"} /\ defaulted \in BOOLEAN

\* Until some lockfile outlives Stale, at most one process is inside a critical
\* section, and the lockfile is that process' own (settings.rs: acquire_lock,
\* LockGuard::drop), so a release never frees somebody else's lock.
Exclusive ==
    aged = "never" => \A p \in Holders : lock = p /\ Holders = {p}

\* Until a lockfile outlives Stale or a load_or_init saves a default, an update
\* whose mutate returned Ok is in the document, for good, however the cycles of
\* several processes interleave (mutate's promise).
NoLostUpdate ==
    aged = "never" /\ ~defaulted =>
        \A p \in Mutators : outcome[p] = "ok" => p \in doc

\* settings.json is never found half-written, whoever dies or fails where, and
\* even when the lock is broken (save writes a temporary file and renames it).
NeverTorn == file # "torn"

\* An operation that reports an error has changed nothing in the document.
FailureIsClean ==
    \A p \in Mutators : outcome[p] = "error" => p \notin doc

\* Whatever interleaves, fails or dies, the document is whole, holds the updates that were
\* acknowledged while locks were not broken, and none that was refused.
DocumentHolds == TypeOK /\ Exclusive /\ NoLostUpdate /\ NeverTorn /\ FailureIsClean

\* acquire_lock returns: whoever waits for the lock gets it, times out or dies,
\* also behind a lockfile that its holder never removed.
AcquireEnds ==
    \A p \in Mutators \cup Readers : pc[p] \in Waiting ~> pc[p] \notin Waiting

\* The document behaves as one that is updated atomically, whatever system calls
\* the processes' operations are made of and wherever they die (mutate,
\* with_lock, load_or_init, save).
AtomicDocument ==
    INSTANCE Document WITH Writers <- Mutators, content <- file, updates <- doc,
                           answer <- outcome, trusted <- (aged = "never" /\ ~defaulted)
ImplementsDocument == AtomicDocument!Spec

\* mutate's doc comment, "concurrent read-modify-write cycles from multiple
\* gitc processes cannot clobber one another", where every holder is quick and
\* the only locks to be reclaimed are those of crashed holders.
UpdatesNeverClobbered ==
    aged # "live" => \A p \in Mutators : outcome[p] = "ok" => p \in doc
=============================================================================
