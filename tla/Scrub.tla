-------------------------------- MODULE Scrub --------------------------------
(* `gitc scrub` (src/src/scrubcmd.rs): each command runs git behind a safety   *)
(* fence of preconditions, a backup and the fresh-clone check, rewrites the    *)
(* refs in its scope, and `scrub secret` verifies what it did; `rollback`      *)
(* restores a backup and `cleanup` prunes.  Commands come one after the other  *)
(* and may die at any step; the user commits between them and edits at any     *)
(* time.  FilterRepo models the rewrite itself: here it moves refs, fails      *)
(* before it moved any, or fails having moved some.                            *)
(*                                                                             *)
(* A ref is abstracted to the work it holds and the secrets that are in the    *)
(* text files of its history.                                                  *)
EXTENDS Naturals, FiniteSets, FiniteSetsExt, Functions

CONSTANTS
    Refs,        \* the refs of the repository
    Secrets,     \* what the detector would find
    Commands,    \* what may be typed, see CommandType
    Start,       \* the repositories to start from: [Refs -> History]
    Heads,       \* where HEAD may be: a ref, or Detached
    MaxCommands, MaxWork,
    Detached, None

History == [work : 0..MaxWork, secret : SUBSET Secrets]
CommandType == [op : {"secret", "path", "rollback", "cleanup"},
                force : BOOLEAN, dry : BOOLEAN, backup : BOOLEAN,
                all : BOOLEAN, refs : SUBSET Refs, exclude : SUBSET Refs]

\* The exit codes.
Clean == 0
Usage == 2
Runtime == 3
VerifyFailed == 4
Precondition == 5

ASSUME ScrubAssumption ==
    /\ IsFiniteSet(Refs) /\ MaxWork \in Nat /\ MaxCommands \in Nat
    /\ Commands \subseteq CommandType /\ Start \subseteq [Refs -> History]
    /\ Heads \subseteq Refs \cup {Detached} /\ Detached \notin Refs
    /\ None \notin Nat \cup Commands

VARIABLES
    refs, head,
    fresh,    \* the object store looks like that of a fresh clone
    edits,    \* uncommitted changes: "none", from before the command, or "late"
    backups,  \* the bundles under <git-dir>/gitc-scrub, by number
    cmd, pc, code, \* the command, where it is, and the exit code of the last
    known,    \* the secrets a `scrub secret` has collected
    unread,   \* history: <<ref, secret>> in what it passed over, unable to read it
    before,   \* history: the refs when the command began
    replaced, \* history: <<ref, history>> rewritten by commands that back up
    wiped,    \* history: the edits an unforced rewrite has thrown away
    count     \* commands so far, at most MaxCommands

disk == <<refs, head, fresh, edits, backups>>
hunt == <<known, unread>>
hist == <<before, replaced, wiped, count>>
vars == <<disk, cmd, pc, code, hunt, hist>>

-----------------------------------------------------------------------------
Indices == DOMAIN backups
Latest == Max(Indices)

\* The snapshot a backup takes.
Snapshot(n) == [i \in Indices \cup {n} |-> IF i = n THEN refs ELSE backups[i]]

\* resolve_refs, and what fast-export makes of an empty or a negative list.
Scope(c) ==
    IF c.all \/ (c.refs = {} /\ c.exclude = {}) THEN Refs ELSE c.refs \ c.exclude

\* What a rewrite may make of a history; what an excluded ref reaches stays as it is.
Rewritten(h) ==
    LET clean == IF cmd.op = "secret" THEN h.secret \ known ELSE {} IN
    {[h EXCEPT !.secret = clean]} \cup (IF cmd.exclude = {} THEN {} ELSE {h})

Present == {x \in Refs \X Secrets : x[2] \in refs[x[1]].secret}

Init ==
    /\ refs \in Start /\ head \in Heads /\ fresh \in BOOLEAN
    /\ edits \in {"none", "early"}
    /\ backups = <<>>
    /\ cmd = None /\ pc = "idle" /\ code = None /\ known = {} /\ unread = {}
    /\ before = refs /\ replaced = {} /\ wiped = {} /\ count = 0

-----------------------------------------------------------------------------
(* Steps of a command.                                                         *)

At(label) == pc = label
Goto(label) == pc' = label /\ UNCHANGED <<cmd, code>>
Exit(c) == pc' = "idle" /\ code' = c /\ UNCHANGED cmd

\* A call into git, or to the file system, that does not succeed.
Fault(c) == Exit(c) /\ UNCHANGED <<disk, hunt, hist>>

Begin ==
    /\ At("idle") /\ count < MaxCommands
    /\ \E c \in Commands :
        /\ cmd' = c
        /\ pc' = CASE c.op = "secret" -> "collect" [] c.op = "path" -> "check"
                   [] OTHER -> c.op
    /\ code' = None /\ known' = {} /\ unread' = {}
    /\ before' = refs /\ count' = count + 1
    /\ edits' = IF edits = "late" THEN "early" ELSE edits
    /\ UNCHANGED <<refs, head, fresh, backups, replaced, wiped>>

\* cmd_secret, before the rewrite: the secrets of all refs.  collect_secrets passes over
\* what it cannot read: an object, a ref, and what is beyond the caps of the walk.
Collect ==
    /\ At("collect")
    /\ \/ /\ \E missed \in SUBSET Present :
                known' = {x[2] : x \in Present \ missed} /\ unread' = missed
          /\ IF known' # {} THEN Goto("check") ELSE Exit(Clean)
          /\ UNCHANGED <<disk, hist>>
       \/ Fault(Runtime)

\* preconditions: a `git status` that fails counts as a clean tree.
Check ==
    /\ At("check")
    /\ \/ /\ IF cmd.force \/ edits = "none" THEN Goto("backup") ELSE Exit(Precondition)
          /\ UNCHANGED <<disk, hunt, hist>>
       \/ ~cmd.force /\ Goto("backup") /\ UNCHANGED <<disk, hunt, hist>>
       \/ Fault(Precondition)

\* Mutant: the newest bundle is overwritten.
NextIndexReused == IF Indices = {} THEN 0 ELSE Latest

\* make_backup: a number of its own, the bundle, and then the list of refs.
NextIndex == IF Indices = {} THEN 0 ELSE Latest + 1

MakeBackup ==
    /\ At("backup") /\ cmd.backup /\ ~cmd.dry
    /\ \/ /\ backups' = Snapshot(NextIndex)
          /\ UNCHANGED <<refs, head, fresh, edits, hunt, hist>>
          /\ Goto("sanity") \/ Exit(Runtime)
       \/ Fault(Runtime)

SkipBackup ==
    /\ At("backup") /\ (~cmd.backup \/ cmd.dry)
    /\ Goto("sanity") /\ UNCHANGED <<disk, hunt, hist>>

\* repo_layout and sanity_check.
Sanity ==
    /\ At("sanity")
    /\ \/ /\ IF cmd.force \/ (fresh /\ edits = "none")
               THEN Goto("rewrite") ELSE Exit(Precondition)
          /\ UNCHANGED <<disk, hunt, hist>>
       \/ \E c \in {Runtime, Precondition} : Fault(c)

DryRun ==
    /\ At("rewrite") /\ cmd.dry
    /\ \/ Exit(Clean) /\ UNCHANGED <<disk, hunt, hist>>
       \/ Fault(Runtime)

\* fast-import moves the refs of the new stream, or some of them when it fails.
\* A path rewrite leaves refs behind whose own commits are all pruned.
Imports ==
    \E moved \in SUBSET Scope(cmd) :
        /\ refs' \in [Refs -> UNION {Rewritten(refs[r]) : r \in moved} \cup Range(refs)]
        /\ \A r \in Refs : IF r \in moved THEN refs'[r] \in Rewritten(refs[r])
                                          ELSE refs'[r] = refs[r]
        /\ (pc' = "reset" /\ cmd.op = "secret") => moved = Scope(cmd)
        /\ fresh' \in {fresh, FALSE}
        /\ replaced' = IF cmd.backup
             THEN replaced \cup {<<r, refs[r]>> : r \in {q \in Refs : refs'[q] # refs[q]}}
             ELSE replaced

\* pipeline::run up to aggregate.
Rewrite ==
    /\ At("rewrite") /\ ~cmd.dry
    /\ Goto("reset") \/ Exit(Runtime)
    /\ Imports
    /\ UNCHANGED <<head, edits, backups, hunt, before, wiped, count>>

RewriteFails == At("rewrite") /\ ~cmd.dry /\ Fault(Runtime)

\* cleanup: reset --hard, reflog expire, gc.
Reset ==
    /\ At("reset")
    /\ \/ /\ Goto("gc")
          /\ edits' = "none"
          /\ wiped' = IF cmd.force THEN wiped ELSE wiped \cup ({edits} \ {"none"})
          /\ UNCHANGED <<refs, head, fresh, backups, hunt, before, replaced, count>>
       \/ Fault(Runtime)

Gc ==
    /\ At("gc")
    /\ \/ /\ fresh' = TRUE
          /\ IF cmd.op = "secret" THEN Goto("verify") ELSE Exit(Clean)
          /\ UNCHANGED <<refs, head, edits, backups, hunt, hist>>
       \/ Fault(Runtime)

\* What is left of the secrets collected, as far as it can be read.
Verdict(left) ==
    \E missed \in SUBSET Present :
        /\ Exit(IF \E x \in left \ missed : x[2] \in known THEN VerifyFailed ELSE Clean)
        /\ unread' = unread \cup missed
        /\ UNCHANGED <<disk, known, hist>>

\* Mutant: only the refs that were rewritten are verified.
VerifyScope ==
    At("verify") /\ (Verdict({x \in Present : x[1] \in Scope(cmd)}) \/ Fault(Runtime))

\* verify_scrubbed: every ref, whatever the scope was.
Verify == At("verify") /\ (Verdict(Present) \/ Fault(Runtime))

\* cmd_rollback: git fetch refuses to move the branch HEAD is on; the fetch
\* moves the refs the bundle has, and leaves the others; reset --hard follows.
Rollback ==
    /\ At("rollback")
    /\ \/ /\ Indices = {} /\ Exit(Precondition)
          /\ UNCHANGED <<disk, hunt, hist>>
       \/ /\ Indices # {} /\ head # Detached /\ Exit(Runtime)
          /\ UNCHANGED <<disk, hunt, hist>>
       \/ /\ Indices # {} /\ head = Detached /\ Exit(Clean)
          /\ refs' = backups[Latest]
          /\ edits' \in {"none", edits} \* the result of the reset is ignored
          /\ UNCHANGED <<head, fresh, backups, hunt, hist>>
       \/ \E c \in {Runtime, Precondition} : Fault(c)

\* cmd_cleanup; the removal of the backups may stop anywhere, unnoticed.
CleanupCmd ==
    /\ At("cleanup")
    /\ \/ /\ cmd.dry /\ Exit(Clean)
          /\ UNCHANGED <<disk, hunt, hist>>
       \/ /\ ~cmd.dry /\ Exit(Clean) /\ fresh' = TRUE
          /\ IF cmd.backup THEN UNCHANGED <<backups, replaced>>
             ELSE /\ replaced' = {}
                  /\ \E kept \in SUBSET Indices : backups' = [i \in kept |-> backups[i]]
          /\ UNCHANGED <<refs, head, edits, hunt, before, wiped, count>>
       \/ \E c \in {Runtime, Precondition} : Fault(c)

Dies ==
    /\ ~At("idle")
    /\ pc' = "idle" /\ code' = None
    /\ UNCHANGED <<disk, cmd, hunt, hist>>

-----------------------------------------------------------------------------
(* The user.                                                                   *)

Edit ==
    /\ edits = "none"
    /\ edits' = IF At("idle") THEN "early" ELSE "late"
    /\ UNCHANGED <<refs, head, fresh, backups, cmd, pc, code, hunt, hist>>

Commit ==
    /\ At("idle") /\ edits # "none" /\ edits' = "none"
    /\ \E r \in Refs :
        /\ refs[r].work < MaxWork
        /\ refs' = [refs EXCEPT ![r].work = @ + 1]
    /\ fresh' \in {fresh, FALSE} /\ cmd' = None /\ code' = None
    /\ UNCHANGED <<head, backups, pc, hunt, hist>>

Next ==
    \/ Begin \/ Collect \/ Check \/ MakeBackup \/ SkipBackup \/ Sanity \/ DryRun
    \/ Rewrite \/ RewriteFails \/ Reset \/ Gc \/ Verify \/ Rollback \/ CleanupCmd
    \/ Dies \/ Edit \/ Commit

Spec == Init /\ [][Next]_vars

-----------------------------------------------------------------------------
(* Properties.                                                                 *)

Labels == {"idle", "collect", "check", "backup", "sanity", "rewrite", "reset", "gc",
           "verify", "rollback", "cleanup"}
TypeOK ==
    /\ refs \in [Refs -> History] /\ head \in Heads /\ fresh \in BOOLEAN
    /\ edits \in {"none", "early", "late"}
    /\ Indices \subseteq 0..(MaxCommands - 1)
    /\ \A i \in Indices : backups[i] \in [Refs -> History]
    /\ cmd \in Commands \cup {None} /\ pc \in Labels /\ (pc # "idle" => cmd # None)
    /\ code \in {Clean, Runtime, VerifyFailed, Precondition, None}
    /\ known \subseteq Secrets /\ unread \subseteq Refs \X Secrets
    /\ before \in [Refs -> History]
    /\ replaced \subseteq Refs \X History /\ wiped \subseteq {"early", "late"}
    /\ count \in 0..MaxCommands

Ends(op) == At("idle") /\ cmd # None /\ cmd.op = op

\* Whatever a command that backs up replaced, completed or not, is in a bundle.
BackupHolds == \A x \in replaced : \E i \in Indices : backups[i][x[1]] = x[2]

\* Changes that were there when an unforced rewrite began survive it, even if
\* `git status` failed.
EditsSurvive == "early" \notin wiped

\* Exit code 0 of `scrub secret`: whatever the scope, a secret that is left in a ref was
\* in something of that ref which this command passed over when it collected or verified:
\* an object or a ref it could not read, or what lies beyond the caps of the walk
\* (scrubcmd.rs:1026-1035, without a word).
ZeroMeansScanned ==
    Ends("secret") /\ code = Clean /\ ~cmd.dry => Present \subseteq unread

\* A refused command (exit code 5) and a dry run move no ref.  A rollback does not
\* read its arguments: with --dry-run it restores the refs all the same.
RefusalIsHarmless ==
    At("idle") /\ cmd # None /\ (code = Precondition \/ (cmd.dry /\ cmd.op # "rollback"))
        => refs = before

\* Nothing a user had is lost by a scrub: neither a ref it replaced, nor a change it found
\* in the working tree, nor anything at all if it was refused or dry.
NothingIsLost == TypeOK /\ BackupHolds /\ EditsSurvive /\ RefusalIsHarmless
==============================================================================
