------------------------------ MODULE Installs ------------------------------
(* The life of a managed git backend (src/src/provision.rs, with the         *)
(* download of gitwin.rs and the worker of backendupdate.rs): an install is  *)
(* downloaded and unpacked into a directory of its own, activated in         *)
(* settings.json, used by commands, demoted to "previous", and swept.        *)
(*                                                                           *)
(* A process makes at most one install, in the directory app/<uuid> that it  *)
(* alone knows, so the install is named after the process.  The settings     *)
(* lock excludes (module Settings says how far): a mutate is one step, taken *)
(* while nobody holds the lock; the garbage collector holds it while it      *)
(* sweeps.  settings.json exists and parses, and the platform is one with    *)
(* pinned builds (Windows): elsewhere nothing is ever installed.             *)
EXTENDS Integers

CONSTANTS
    Fetchers,  \* processes that run `git fetch-git`
    Updaters,  \* processes that run the background worker, backend-update
    Commands,  \* processes that run an ordinary git command
    Flavors,   \* what a fetch may ask for; "latest" stands for --latest
    Base,      \* an older install made before the model starts
    Legacy,    \* the git/<tag> install of an older gitc
    System,    \* a git of the machine, on PATH
    None

Procs    == Fetchers \cup Updaters \cup Commands
Installs == Procs \cup {Base}
DEFAULT_FLAVOR == "full" \* what an absent flavor means (manifest_for_flavor)

ASSUME InstallsAssumption ==
    /\ Fetchers \cap (Updaters \cup Commands) = {} /\ Updaters \cap Commands = {}
    /\ {Base, Legacy, System, None} \cap Procs = {}
    /\ Base \notin {Legacy, System, None} /\ Legacy \notin {System, None} /\ System # None
    /\ Flavors \subseteq {"minimal", "busybox", "full", "latest"}

VARIABLES
    disk,      \* app/<uuid> of each install: "partial" lacks cmd/git.exe, "half"
               \* has it but lacks other files
    archive,   \* what was downloaded for it
    flavorOf,  \* which build it is
    active, previous, flavor, \* the backend pointer of settings.json
    lock,      \* who holds the settings lock
    legacy, system, \* whether there is a legacy install, a git on PATH
    pc,
    todo,      \* the directories a collector has listed and not looked at yet
    doomed,    \* history: those of them it must have removed in the end
    using,     \* the git a command runs
    demotions, \* activations by others since a command resolved its backend
    swept      \* history: the installs a sweep hit before they were activated

vars == <<disk, archive, flavorOf, active, previous, flavor, lock, legacy,
          system, pc, todo, doomed, using, demotions, swept>>
settings == <<active, previous, flavor>>
world    == <<legacy, system>>
gc       == <<todo, doomed>>
run      == <<using, demotions>>

InFlightPCs == {"download", "verify", "extract", "activate"}
PCs == InFlightPCs \cup
       {"idle", "persist", "gc", "list", "sweep", "adopt", "retry", "running",
        "ended"}
Named == {active, previous}
InFlight(i) == i \in Procs /\ pc[i] \in InFlightPCs
InUse(i) == \E c \in Commands : pc[c] = "running" /\ using[c] = i

Init ==
    /\ disk = [i \in Installs |-> IF i = Base THEN "whole" ELSE "none"]
    /\ archive = [i \in Installs |-> IF i = Base THEN "good" ELSE "none"]
    /\ flavor \in {DEFAULT_FLAVOR} \cup (Flavors \ {"latest"})
    /\ flavorOf = [i \in Installs |-> flavor]
    /\ active \in {None, Base} /\ previous = None
    /\ lock = None
    /\ legacy \in BOOLEAN /\ system \in BOOLEAN
    /\ pc = [p \in Procs |-> "idle"]
    /\ todo = [p \in Procs |-> {}] /\ doomed = [p \in Procs |-> {}]
    /\ using = [p \in Procs |-> None] /\ demotions = [p \in Procs |-> 0]
    /\ swept = {}

Goto(p, label) == pc' = [pc EXCEPT ![p] = label]

\* Where a process goes when its install failed: the worker still collects.
GiveUp(p) == Goto(p, IF p \in Updaters THEN "gc" ELSE "ended")

-----------------------------------------------------------------------------
(* Downloading and unpacking into a fresh directory.                         *)

\* new_install_base and the create_dir_all of download: the directory is there
\* long before anything names it.
StartInstall(p, f) ==
    /\ disk' = [disk EXCEPT ![p] = "partial"]
    /\ flavorOf' = [flavorOf EXCEPT ![p] = f]
    /\ Goto(p, "download")

Download(p) ==
    /\ pc[p] = "download"
    /\ \/ /\ disk[p] # "none"
          /\ \E content \in {"good", "bad"} : archive' = [archive EXCEPT ![p] = content]
          /\ Goto(p, "verify")
       \/ GiveUp(p) /\ UNCHANGED archive  \* a failed request, or no directory
    /\ UNCHANGED <<disk, flavorOf, settings, lock, world, gc, run, swept>>

\* Mutant: the digest is checked only to warn.
VerifyIgnored(p) ==
    /\ pc[p] = "verify"
    /\ IF disk[p] # "none" THEN Goto(p, "extract") ELSE GiveUp(p)
    /\ UNCHANGED <<disk, archive, flavorOf, settings, lock, world, gc, run, swept>>

\* verify_sha256 of the pinned archive; a release from --latest has no digest.
Verify(p) ==
    /\ pc[p] = "verify"
    /\ IF disk[p] # "none" /\ (archive[p] = "good" \/ flavorOf[p] = "latest")
       THEN Goto(p, "extract")
       ELSE GiveUp(p)
    /\ UNCHANGED <<disk, archive, flavorOf, settings, lock, world, gc, run, swept>>

\* extract_archive and the check that git.exe is there.  If a sweep came into
\* the directory meanwhile, the files unpacked before it are missing; the check
\* sees that only if git.exe is one of them.
Extract(p) ==
    /\ pc[p] = "extract"
    /\ \/ /\ \E left \in IF p \in swept THEN {"half", "whole"} ELSE {"whole"} :
                disk' = [disk EXCEPT ![p] = left]
          /\ Goto(p, "activate")
       \/ /\ \E left \in {"partial", "half"} : disk' = [disk EXCEPT ![p] = left]
          /\ GiveUp(p)
    /\ UNCHANGED <<archive, flavorOf, settings, lock, world, gc, run, swept>>

-----------------------------------------------------------------------------
(* Activation: one mutate each.                                              *)

SetActive(i) ==
    IF active = i THEN UNCHANGED <<active, previous, demotions>>
    ELSE /\ previous' = active /\ active' = i
         /\ demotions' = [c \in Procs |-> IF pc[c] = "running" THEN demotions[c] + 1
                                          ELSE demotions[c]]

\* Where a process goes once it has activated its install.
AfterActivate(p) ==
    Goto(p, CASE p \in Updaters -> "gc"
              [] p \in Commands -> "retry"
              [] p \in Fetchers -> IF flavorOf[p] = "latest" THEN "ended" ELSE "persist")

\* Mutant: the demoted install is forgotten.
ActivateDropsPrevious(p) ==
    /\ pc[p] = "activate" /\ lock = None
    /\ active' = p
    /\ demotions' = [c \in Procs |-> IF pc[c] = "running" THEN demotions[c] + 1
                                     ELSE demotions[c]]
    /\ AfterActivate(p)
    /\ UNCHANGED <<disk, archive, flavorOf, previous, flavor, lock, world, gc, using, swept>>

Activate(p) ==
    /\ pc[p] = "activate" /\ lock = None
    /\ SetActive(p)
    /\ AfterActivate(p)
    /\ UNCHANGED <<disk, archive, flavorOf, flavor, lock, world, gc, using, swept>>

\* activate ignores the error of mutate (a lock held for too long).
ActivateFails(p) ==
    /\ pc[p] = "activate"
    /\ AfterActivate(p)
    /\ UNCHANGED <<disk, archive, flavorOf, settings, lock, world, gc, run, swept>>

\* persist_flavor, a second mutate; its error is ignored as well.
PersistFlavor(p) ==
    /\ pc[p] = "persist"
    /\ \/ lock = None /\ flavor' = flavorOf[p]
       \/ UNCHANGED flavor
    /\ Goto(p, "ended")
    /\ UNCHANGED <<disk, archive, flavorOf, active, previous, lock, world, gc, run, swept>>

-----------------------------------------------------------------------------
(* The three kinds of process.                                               *)

\* fetch_git: a flavor flag, --latest, or the flavor recorded in settings.
FetchGit(p) ==
    /\ p \in Fetchers /\ pc[p] = "idle"
    /\ \E f \in Flavors \cup {flavor} : StartInstall(p, f)
    /\ UNCHANGED <<archive, settings, lock, world, gc, run, swept>>

\* The active install's git.exe is there (data_join_rel ... exists), whatever
\* else of it is missing.
ActiveUsable ==
    \/ active = Legacy /\ legacy
    \/ active \in Installs /\ disk[active] \in {"half", "whole"}
OnPinnedVersion == ActiveUsable /\ active \in Procs /\ flavorOf[active] # "latest"

\* run_backend_update up to update_backend_if_stale: on the pinned channel the
\* minimal build of the pinned version is fetched when another version, or none,
\* is active.
BackendUpdate(p) ==
    /\ p \in Updaters /\ pc[p] = "idle"
    /\ \E pinnedChannel \in BOOLEAN :
          IF OnPinnedVersion \/ ~pinnedChannel
          THEN Goto(p, "gc") /\ UNCHANGED <<disk, flavorOf>>
          ELSE StartInstall(p, "minimal")
    /\ UNCHANGED <<archive, settings, lock, world, gc, run, swept>>

Run(p, git) ==
    /\ using' = [using EXCEPT ![p] = git]
    /\ demotions' = [demotions EXCEPT ![p] = 0]
    /\ Goto(p, "running")

\* resolve_or_provision: the active install, else a legacy one (adopted), else
\* a git on PATH, else an install of the pinned version, made once.
Resolve(p) ==
    /\ p \in Commands /\ pc[p] \in {"idle", "retry"}
    /\ \/ /\ ActiveUsable
          /\ Run(p, active) /\ UNCHANGED <<disk, flavorOf>>
       \/ /\ ~ActiveUsable /\ legacy
          /\ Goto(p, "adopt") /\ UNCHANGED <<disk, flavorOf, run>>
       \/ /\ ~ActiveUsable /\ ~legacy /\ system
          /\ Run(p, System) /\ UNCHANGED <<disk, flavorOf>>
       \/ /\ ~ActiveUsable /\ ~legacy /\ ~system
          /\ IF pc[p] = "idle"
             THEN StartInstall(p, flavor) /\ UNCHANGED run
             ELSE Goto(p, "ended") /\ UNCHANGED <<disk, flavorOf, run>>
    /\ UNCHANGED <<archive, settings, lock, world, gc, swept>>

\* resolve_managed_git's mutate: adopt only if there is still no active install;
\* a failed mutate is ignored and the legacy git is used either way.
Adopt(p) ==
    /\ pc[p] = "adopt"
    /\ \/ lock = None /\ active' = IF active = None THEN Legacy ELSE active
       \/ UNCHANGED active
    /\ Run(p, Legacy)
    /\ UNCHANGED <<disk, archive, flavorOf, previous, flavor, lock, world, gc, swept>>

CommandEnds(p) ==
    /\ pc[p] = "running"
    /\ using' = [using EXCEPT ![p] = None]
    /\ demotions' = [demotions EXCEPT ![p] = 0]
    /\ Goto(p, "ended")
    /\ UNCHANGED <<disk, archive, flavorOf, settings, lock, world, gc, swept>>

-----------------------------------------------------------------------------
(* gc_installs: settings are read and directories swept under the lock.      *)

\* Mutant: the lock is not taken for the sweep.
GcBeginUnlocked(p) ==
    /\ pc[p] = "gc"
    /\ Goto(p, "list")
    /\ UNCHANGED <<disk, archive, flavorOf, settings, lock, world, gc, run, swept>>

GcBegin(p) ==
    /\ pc[p] = "gc"
    /\ \/ lock = None /\ lock' = p /\ Goto(p, "list")
       \/ Goto(p, "ended") /\ UNCHANGED lock  \* the lock cannot be had
    /\ UNCHANGED <<disk, archive, flavorOf, settings, world, gc, run, swept>>

OnDisk == {i \in Installs : disk[i] # "none"}

\* load, active_keep_set and read_dir.  Those nobody is filling are doomed.
GcList(p) ==
    /\ pc[p] = "list"
    /\ todo' = [todo EXCEPT ![p] = OnDisk \ Named]
    /\ doomed' = [doomed EXCEPT ![p] = {i \in OnDisk \ Named : ~InFlight(i)}]
    /\ Goto(p, "sweep")
    /\ UNCHANGED <<disk, archive, flavorOf, settings, lock, world, run, swept>>

\* remove_dir_all of one directory, file by file: it has not come to the end,
\* or it has.  A git.exe that is running cannot be removed, and is left with
\* what the removal had not reached.
GcSweep(p) ==
    /\ pc[p] = "sweep"
    /\ \E i \in todo[p] :
          /\ \/ /\ disk[i] # "none"
                /\ \E left \in {"partial", "half"} :
                      /\ left = "partial" => ~InUse(i)
                      /\ left = "half" => disk[i] # "partial"
                      /\ disk' = [disk EXCEPT ![i] = left]
                /\ UNCHANGED <<todo, doomed>>
             \/ /\ ~InUse(i)
                /\ disk' = [disk EXCEPT ![i] = "none"]
                /\ todo' = [todo EXCEPT ![p] = @ \ {i}]
                /\ UNCHANGED doomed
             \/ /\ InUse(i)
                /\ todo' = [todo EXCEPT ![p] = @ \ {i}]
                /\ doomed' = [doomed EXCEPT ![p] = @ \ {i}]
                /\ UNCHANGED disk
          /\ swept' = IF InFlight(i) THEN swept \cup {i} ELSE swept
    /\ UNCHANGED <<archive, flavorOf, settings, lock, world, pc, run>>

GcEnd(p) ==
    /\ pc[p] = "sweep" /\ todo[p] = {}
    /\ lock' = None
    /\ doomed' = [doomed EXCEPT ![p] = {}]
    /\ Goto(p, "ended")
    /\ UNCHANGED <<disk, archive, flavorOf, settings, world, todo, run, swept>>

\* A process dies.  Its directory, and one it was removing, stay as they are;
\* its lock is reclaimed.
Crash(p) ==
    /\ pc[p] \notin {"idle", "ended"}
    /\ Goto(p, "ended")
    /\ lock' = IF lock = p THEN None ELSE lock
    /\ todo' = [todo EXCEPT ![p] = {}] /\ doomed' = [doomed EXCEPT ![p] = {}]
    /\ using' = [using EXCEPT ![p] = None]
    /\ demotions' = [demotions EXCEPT ![p] = 0]
    /\ UNCHANGED <<disk, archive, flavorOf, settings, world, swept>>

Finished == (\A p \in Procs : pc[p] = "ended") /\ UNCHANGED vars

Next ==
    \/ \E p \in Procs :
          \/ FetchGit(p) \/ BackendUpdate(p) \/ Resolve(p)
          \/ Download(p) \/ Verify(p) \/ Extract(p)
          \/ Activate(p) \/ ActivateFails(p) \/ PersistFlavor(p)
          \/ Adopt(p) \/ CommandEnds(p)
          \/ GcBegin(p) \/ GcList(p) \/ GcSweep(p) \/ GcEnd(p)
          \/ Crash(p)
    \/ Finished

Spec == Init /\ [][Next]_vars

-----------------------------------------------------------------------------
(* Properties.                                                               *)

\* The range of every variable.
TypeOK ==
    /\ disk \in [Installs -> {"none", "partial", "half", "whole"}]
    /\ archive \in [Installs -> {"none", "good", "bad"}]
    /\ flavorOf \in [Installs -> {"minimal", "busybox", "full", "latest"}]
    /\ active \in Installs \cup {Legacy, None}
    /\ previous \in Installs \cup {Legacy, None}
    /\ flavor \in {"minimal", "busybox", "full"}
    /\ lock \in Updaters \cup {None}
    /\ legacy \in BOOLEAN /\ system \in BOOLEAN
    /\ pc \in [Procs -> PCs]
    /\ todo \in [Procs -> SUBSET Installs] /\ doomed \in [Procs -> SUBSET Installs]
    /\ using \in [Procs -> Installs \cup {Legacy, System, None}]
    /\ demotions \in [Procs -> Nat]
    /\ swept \subseteq Procs

\* The active install and the rollback target are complete on disk, but for one
\* that a sweep hit before it was activated (activate, gc_installs).
NamedOnDisk ==
    \A i \in Named \cap Installs : i \notin swept => disk[i] = "whole"

\* A sweep never touches what settings.json names at that instant, although
\* it decided from an earlier reading (gc_installs holds the lock throughout).
SweepSparesNamed ==
    [][\A i \in Installs : disk'[i] # disk[i] => i \notin Named]_vars

\* Its git.exe is there, and the rest of it too unless it was missing already
\* when the install was activated.
Intact(i) == disk[i] = "whole" \/ (disk[i] = "half" /\ i \in swept)

\* The git a command runs survives one activation by somebody else: it is the
\* rollback target then, and collectors keep it.
InUseSurvivesOneDemotion ==
    \A c \in Commands :
        pc[c] = "running" /\ using[c] \in Installs /\ demotions[c] <= 1
          => Intact(using[c])

\* Nothing but a --latest install, accepted as unverified, is ever named by
\* settings.json without its archive's digest having been right.
OnlyVerifiedNamed ==
    \A i \in Named \cap Installs : flavorOf[i] # "latest" => archive[i] = "good"

\* Superseded installs do not pile up: at the end of a sweep every directory is
\* gone that nobody was filling or running when the sweep came to it and that
\* settings.json did not name, half-downloaded leftovers included (gc_sweep).
SweepIsComplete ==
    \A p \in Procs : pc[p] = "sweep" /\ todo[p] = {} =>
        \A i \in doomed[p] : disk[i] = "none"

\* An activation is never undone but by another activation: adopting a legacy
\* install must not win over an install activated in the meantime.
AdoptionNeverWins ==
    [][active' = Legacy /\ active # Legacy => active = None]_vars

\* What settings.json names: a verified install, and a whole one unless a sweep found
\* that install still in flight.
NamedIsSound == TypeOK /\ NamedOnDisk /\ OnlyVerifiedNamed

\* A sweep takes all that is superseded and nothing that one demotion left in use.
SweepIsExact == SweepIsComplete /\ InUseSurvivesOneDemotion

\* What an activation has put in place, neither a sweep nor an adoption that began
\* before it takes away again.
ActivationStands == SweepSparesNamed /\ AdoptionNeverWins
=============================================================================
