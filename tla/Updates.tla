------------------------------- MODULE Updates --------------------------------
(* How gitc keeps itself current (src/src/backendupdate.rs, selfupdate.rs).     *)
(* Every command sweeps the binaries a swap left behind, prints a pending       *)
(* notice and, when a check is due, starts one worker behind update.lock; the   *)
(* worker leaves a notice when a newer release exists; `git update --apply`     *)
(* downloads, verifies and swaps the binary by two renames.  Any process may    *)
(* die, and any call may fail, at any step.                                     *)
EXTENDS Naturals, FiniteSets

CONSTANTS
    Commands, Appliers, Workers, \* processes; Commands run again and again
    WorkerOf,                    \* the worker a command would start
    Versions,                    \* releases, 1 being the installed one
    MaxFaults,                   \* failing calls and deaths
    Absent, Abandoned

Procs == Commands \cup Appliers \cup Workers
Binary == [version : Versions, good : BOOLEAN]

ASSUME UpdatesAssumption ==
    /\ Versions \subseteq Nat /\ 1 \in Versions /\ MaxFaults \in Nat
    /\ Commands \cap Appliers = {} /\ Workers \cap (Commands \cup Appliers) = {}
    /\ WorkerOf \in [Commands -> Workers]
    /\ Absent \notin Versions \cup Binary \cup Procs /\ Abandoned \notin Procs \cup {Absent}

VARIABLES
    bin, old,     \* the executable and <executable>.old: Binary or Absent
    tmp,          \* the .gitc-update-* file of each applier
    got,          \* what it has downloaded
    release,      \* the latest release
    due,          \* settings.json: updates are enabled, and a check is due
    lock, stale,  \* who created update.lock; whether it is an hour old
    notice,       \* update-notice.txt: Absent or the version it tells of
    pc, running,  \* where each process is; the version a worker is
    faults,
    swept,        \* history: an .old was removed under an applier that needs it
    reclaimed,    \* history: a lockfile was removed as stale
    left          \* history: an applier died between its renames

files == <<bin, old, tmp>>
locks == <<lock, stale, reclaimed>>
vars == <<files, got, release, due, locks, notice, pc, running, faults, swept, left>>

Init ==
    /\ bin = [version |-> 1, good |-> TRUE] /\ old = Absent
    /\ tmp = [a \in Appliers |-> Absent] /\ got = [a \in Appliers |-> Absent]
    /\ release \in Versions /\ due \in BOOLEAN
    /\ lock \in {Absent, Abandoned} /\ stale = FALSE /\ reclaimed = FALSE
    /\ notice = Absent
    /\ pc = [p \in Procs |-> "idle"] /\ running = [w \in Workers |-> 1]
    /\ faults = 0 /\ swept = FALSE /\ left = FALSE

At(p, label) == pc[p] = label
Goto(p, label) == pc' = [pc EXCEPT ![p] = label]

\* A call that fails for a reason outside gitc.
Fault == faults < MaxFaults /\ faults' = faults + 1

\* An applier that has moved the binary aside and not yet put one back.
InWindow == {a \in Appliers : pc[a] \in {"install", "rollback"}}

-----------------------------------------------------------------------------
(* An ordinary command.                                                         *)

\* clean_shim_backups.
Start(p) ==
    /\ p \in Commands /\ At(p, "idle") /\ bin # Absent
    /\ \/ old' = Absent /\ swept' = (swept \/ (old # Absent /\ InWindow # {}))
          /\ UNCHANGED faults
       \/ Fault /\ UNCHANGED <<old, swept>>
    /\ Goto(p, "notice")
    /\ UNCHANGED <<bin, tmp, got, release, due, locks, notice, running, left>>

\* print_and_clear_notice: read and print, then remove.
PrintNotice(p) ==
    /\ At(p, "notice")
    /\ Goto(p, IF notice = Absent THEN "due" ELSE "clear")
    /\ UNCHANGED <<files, got, release, due, locks, notice, running, faults, swept, left>>

ClearNotice(p) ==
    /\ At(p, "clear") /\ notice' = Absent /\ Goto(p, "due")
    /\ UNCHANGED <<files, got, release, due, locks, running, faults, swept, left>>

\* maybe_spawn_background_update, up to the lock.
CheckDue(p) ==
    /\ At(p, "due")
    /\ \/ Goto(p, IF due THEN "stat" ELSE "idle") /\ UNCHANGED faults
       \/ Fault /\ Goto(p, "idle")
    /\ UNCHANGED <<files, got, release, due, locks, notice, running, swept, left>>

\* Mutant: a lock is never too old.
StatLockTrusts(p) ==
    /\ At(p, "stat") /\ Goto(p, "create")
    /\ UNCHANGED <<files, got, release, due, locks, notice, running, faults, swept, left>>

\* try_update_lock: the age, the removal, the exclusive creation.
StatLock(p) ==
    /\ At(p, "stat") /\ Goto(p, IF lock # Absent /\ stale THEN "reclaim" ELSE "create")
    /\ UNCHANGED <<files, got, release, due, locks, notice, running, faults, swept, left>>

ReclaimLock(p) ==
    /\ At(p, "reclaim") /\ Goto(p, "create")
    /\ \/ lock' = Absent /\ stale' = FALSE /\ reclaimed' = TRUE /\ UNCHANGED faults
       \/ Fault /\ UNCHANGED locks
    /\ UNCHANGED <<files, got, release, due, notice, running, swept, left>>

CreateLock(p) ==
    /\ At(p, "create")
    /\ IF lock = Absent THEN lock' = p /\ stale' = FALSE /\ Goto(p, "stamp")
                        ELSE Goto(p, "idle") /\ UNCHANGED <<lock, stale>>
    /\ UNCHANGED <<files, got, release, due, reclaimed, notice, running, faults, swept, left>>

\* Both last checks are set, or the mutate fails and nothing is started.
Stamp(p) ==
    /\ At(p, "stamp")
    /\ \/ due' = FALSE /\ Goto(p, "spawn") /\ UNCHANGED faults
       \/ Fault /\ Goto(p, "release") /\ UNCHANGED due
    /\ UNCHANGED <<files, got, release, locks, notice, running, swept, left>>

\* spawn_detached: what is at the path of the executable by now.
SpawnDetached(p) ==
    /\ At(p, "spawn")
    /\ LET w == WorkerOf[p] IN
       \/ /\ bin # Absent /\ At(w, "idle")
          /\ pc' = [pc EXCEPT ![p] = "release", ![w] = "check"]
          /\ running' = [running EXCEPT ![w] = bin.version] /\ UNCHANGED faults
       \/ /\ bin = Absent /\ Goto(p, "release") /\ UNCHANGED <<running, faults>>
       \/ Fault /\ Goto(p, "release") /\ UNCHANGED running
    /\ UNCHANGED <<files, got, release, due, locks, notice, swept, left>>

\* The guard is dropped: the lockfile goes, whoever created it.
Release(p) ==
    /\ At(p, "release") /\ Goto(p, "idle")
    /\ lock' = Absent /\ stale' = FALSE
    /\ UNCHANGED <<files, got, release, due, reclaimed, notice, running, faults, swept, left>>

-----------------------------------------------------------------------------
(* The worker: run_backend_update, of which Installs models the backend part.   *)

\* record_gitc_notice.
Check(w) ==
    /\ At(w, "check") /\ Goto(w, "idle")
    /\ \/ notice' = (IF release > running[w] THEN release ELSE notice) /\ UNCHANGED faults
       \/ Fault /\ UNCHANGED notice
    /\ UNCHANGED <<files, got, release, due, locks, running, swept, left>>

-----------------------------------------------------------------------------
(* git update --apply.                                                          *)

Fail(a) == Fault /\ Goto(a, "ended") /\ UNCHANGED <<bin, old, got, swept>>

\* check, in the running version; and the download of the asset it names.
Query(a) ==
    /\ a \in Appliers /\ At(a, "idle") /\ bin # Absent
    /\ \/ /\ IF release > bin.version
               THEN \E ok \in BOOLEAN :
                        /\ got' = [got EXCEPT ![a] = [version |-> release, good |-> ok]]
                        /\ Goto(a, "verify")
               ELSE Goto(a, "ended") /\ UNCHANGED got
          /\ UNCHANGED <<bin, old, swept, faults>>
       \/ Fail(a)
    /\ UNCHANGED <<tmp, release, due, locks, notice, running, left>>

\* verify: size, checksums.txt and digest, and what get_body gives up on.
Verify(a) ==
    /\ At(a, "verify")
    /\ \/ Goto(a, IF got[a].good THEN "write" ELSE "ended") /\ UNCHANGED faults
       \/ Fault /\ Goto(a, "ended")
    /\ UNCHANGED <<files, got, release, due, locks, notice, running, swept, left>>

\* swap, up to the chmod: a failure leaves no temporary file.
WriteTemp(a) ==
    /\ At(a, "write")
    /\ \/ tmp' = [tmp EXCEPT ![a] = got[a]] /\ Goto(a, "clear_old")
          /\ UNCHANGED <<bin, old, got, swept, faults>>
       \/ Fail(a) /\ UNCHANGED tmp
    /\ UNCHANGED <<release, due, locks, notice, running, left>>

RemoveOld(a) ==
    /\ At(a, "clear_old") /\ Goto(a, "aside")
    /\ \/ old' = Absent /\ swept' = (swept \/ (old # Absent /\ InWindow # {}))
          /\ UNCHANGED faults
       \/ Fault /\ UNCHANGED <<old, swept>>
    /\ UNCHANGED <<bin, tmp, got, release, due, locks, notice, running, left>>

\* The first rename; it replaces an .old that came back.
MoveAside(a) ==
    /\ At(a, "aside")
    /\ \/ /\ bin # Absent /\ old' = bin /\ bin' = Absent /\ Goto(a, "install")
          /\ UNCHANGED <<tmp, faults>>
       \/ /\ bin = Absent /\ Goto(a, "ended") /\ tmp' = [tmp EXCEPT ![a] = Absent]
          /\ UNCHANGED <<bin, old, faults>>
       \/ /\ Fault /\ Goto(a, "ended") /\ tmp' = [tmp EXCEPT ![a] = Absent]
          /\ UNCHANGED <<bin, old>>
    /\ UNCHANGED <<got, release, due, locks, notice, running, swept, left>>

\* Mutant: a failing second rename is returned at once.
InstallNewOrFail(a) ==
    /\ At(a, "install")
    /\ \/ bin' = tmp[a] /\ tmp' = [tmp EXCEPT ![a] = Absent] /\ Goto(a, "remove_old")
          /\ UNCHANGED faults
       \/ Fault /\ Goto(a, "ended") /\ UNCHANGED <<bin, tmp>>
    /\ UNCHANGED <<old, got, release, due, locks, notice, running, swept, left>>

\* The second rename.
InstallNew(a) ==
    /\ At(a, "install")
    /\ \/ bin' = tmp[a] /\ tmp' = [tmp EXCEPT ![a] = Absent] /\ Goto(a, "remove_old")
          /\ UNCHANGED faults
       \/ Fault /\ Goto(a, "rollback") /\ UNCHANGED <<bin, tmp>>
    /\ UNCHANGED <<old, got, release, due, locks, notice, running, swept, left>>

Rollback(a) ==
    /\ At(a, "rollback") /\ Goto(a, "ended")
    /\ \/ /\ IF old # Absent THEN bin' = old /\ old' = Absent ELSE UNCHANGED <<bin, old>>
          /\ UNCHANGED <<faults, left>>
       \/ Fault /\ left' = TRUE /\ UNCHANGED <<bin, old>>
    /\ tmp' = [tmp EXCEPT ![a] = Absent]
    /\ UNCHANGED <<got, release, due, locks, notice, running, swept>>

RemoveOldAfter(a) ==
    /\ At(a, "remove_old") /\ Goto(a, "ended")
    /\ \/ old' = Absent /\ swept' = (swept \/ (old # Absent /\ InWindow # {}))
          /\ UNCHANGED faults
       \/ Fault /\ UNCHANGED <<old, swept>>
    /\ UNCHANGED <<bin, tmp, got, release, due, locks, notice, running, left>>

-----------------------------------------------------------------------------
Dies(p) ==
    /\ pc[p] \notin {"idle", "ended"} /\ Fault
    /\ Goto(p, IF p \in Appliers THEN "ended" ELSE "idle")
    /\ lock' = IF lock = p THEN Abandoned ELSE lock
    /\ left' = (left \/ p \in InWindow)
    /\ UNCHANGED <<files, got, release, due, stale, reclaimed, notice, running, swept>>

\* A fresh release; an hour; two weeks, in which every worker has ended.
Publish ==
    /\ release + 1 \in Versions /\ release' = release + 1
    /\ UNCHANGED <<files, got, due, locks, notice, pc, running, faults, swept, left>>

HourPasses ==
    /\ lock # Absent /\ ~stale /\ stale' = TRUE
    /\ UNCHANGED <<files, got, release, due, lock, reclaimed, notice, pc, running, faults,
                   swept, left>>

IntervalPasses ==
    /\ ~due /\ due' = TRUE
    /\ \A p \in Workers \cup Commands : At(p, "idle")
    /\ UNCHANGED <<files, got, release, locks, notice, pc, running, faults, swept, left>>

Command(p) ==
    \/ Start(p) \/ PrintNotice(p) \/ ClearNotice(p) \/ CheckDue(p) \/ StatLock(p)
    \/ ReclaimLock(p) \/ CreateLock(p) \/ Stamp(p) \/ SpawnDetached(p) \/ Release(p)
Applier(a) ==
    \/ Query(a) \/ Verify(a) \/ WriteTemp(a) \/ RemoveOld(a) \/ MoveAside(a)
    \/ InstallNew(a) \/ Rollback(a) \/ RemoveOldAfter(a)

Next ==
    \/ \E p \in Commands : Command(p)
    \/ \E w \in Workers : Check(w)
    \/ \E a \in Appliers : Applier(a)
    \/ \E p \in Procs : Dies(p)
    \/ Publish \/ HourPasses \/ IntervalPasses

Spec == Init /\ [][Next]_vars

\* The user goes on typing commands, and an hour passes; nothing is assumed of
\* any single process, which may be starved for ever.
FairSpec == Spec /\ WF_vars(HourPasses) /\ WF_vars(\E p \in Commands : Command(p))

-----------------------------------------------------------------------------
(* Properties.                                                                  *)

Labels == {"idle", "ended", "notice", "clear", "due", "stat", "reclaim", "create",
           "stamp", "spawn", "release", "check", "write", "verify", "clear_old",
           "aside", "install", "rollback", "remove_old"}
Held == {"stamp", "spawn", "release"}

\* Types; and an applier that nothing went wrong for leaves no temporary file.
TypeOK ==
    /\ {bin, old} \subseteq Binary \cup {Absent}
    /\ tmp \in [Appliers -> Binary \cup {Absent}] /\ got \in [Appliers -> Binary \cup {Absent}]
    /\ release \in Versions /\ {due, stale, reclaimed, swept, left} \subseteq BOOLEAN
    /\ lock \in Commands \cup {Absent, Abandoned} /\ notice \in Versions \cup {Absent}
    /\ pc \in [Procs -> Labels] /\ running \in [Workers -> Versions] /\ faults \in 0..MaxFaults
    /\ lock = Absent => ~stale
    /\ faults = 0 => \A a \in Appliers : pc[a] = "ended" => tmp[a] = Absent

\* selfupdate.rs:306, "a security invariant": no binary that failed its checks is
\* ever put in the place of the executable or kept to be put back.
NeverUnverified == \A b \in {bin, old} : b # Absent => b.good

\* The executable is missing only while an applier is between its two renames,
\* or after one died there or could not rename back, or after another process
\* swept the .old a rollback then needed.
ToolIsThere == bin = Absent => InWindow # {} \/ left \/ swept

\* Until a lockfile has been taken for abandoned, one command at a time is
\* between the lock and its release, and the lockfile is its own.
SingleFlight ==
    ~reclaimed => \A p \in Commands : pc[p] \in Held => lock = p

\* A due check is not put off for ever while there is a binary: not by the
\* lockfile of a command that died or was starved, nor by commands that race.
CheckHappens == due ~> (~due \/ bin = Absent)

\* There is an executable, and it is a verified one; and commands check one at a time.
ToolIsSound == TypeOK /\ ToolIsThere /\ NeverUnverified /\ SingleFlight
==============================================================================
