------------------------------ MODULE Launchers ------------------------------
(***************************************************************************)
(* gitc install and uninstall (installer.rs): the canonical binary that    *)
(* the launchers exec into, the launchers and their .shim files, the shim  *)
(* directory in the user's PATH, and the sweep of *.old files with which   *)
(* every gitc starts.                                                      *)
(***************************************************************************)
EXTENDS Integers, FiniteSets, Sequences, SequencesExt

CONSTANTS
  None,
  Procs,
  Versions,   \* of gitc
  Platforms,  \* "launchers", "copies" (Windows without a launcher for its machine), "unix"
  Foreign,    \* segments other programs put into PATH
  MaxOps, MaxEdits

ShimDir == "shims"
Torn == "torn"
Launcher == "launcher"
Exes == {"git.exe", "sh.exe", "bash.exe"}
Shims == {"git.shim", "sh.shim", "bash.shim"}

VARIABLES
  platform,
  bin,    \* gitc.exe and gitc.exe.old: a version, Torn or None
  shims,  \* the files of the shim directory
  path,   \* the user's PATH
  op,     \* op[p]: the command process p is in
  ops, edits,
  last    \* of the properties: the last command to end, what others made of PATH, and their races

Idle == [at |-> "idle"]
Active == {p \in Procs : op[p].at # "idle"}

Sets(p, s) == op' = [op EXCEPT ![p] = s] /\ UNCHANGED <<platform, ops, edits>>
Goes(p, at) == Sets(p, [op[p] EXCEPT !.at = at])

\* A command ends: well, with an error, or because its process dies.  The
\* properties speak of an install that ended by itself and had no company.
Ends(p, how) ==
  /\ Sets(p, Idle)
  /\ last' = [last EXCEPT !.ended =
       IF op[p].alone /\ op[p].command = "install" /\ how # "died"
       THEN [at |-> how, version |-> op[p].version, kept |-> op[p].had /\ ~op[p].bare] ELSE Idle]

Fails(p) == Ends(p, "error") /\ UNCHANGED <<bin, shims, path>>

\* The flag of a command that has not been alone.
Crowd(f) == [q \in Procs |-> IF f[q].at = "idle" THEN f[q] ELSE [f[q] EXCEPT !.alone = FALSE]]

Own == IF platform = "launchers" THEN bin.exe ELSE shims["git.exe"]

\* A command runs from the installed binary or from one that was downloaded.
Begins(p) ==
  /\ op[p].at = "idle" /\ ops < MaxOps /\ ops' = ops + 1
  /\ \E v \in Versions, command \in {"install", "uninstall"}, apply \in BOOLEAN, own \in BOOLEAN :
       /\ own => Own = v
       /\ command = "uninstall" => ~apply
       /\ LET s == [at |-> command, version |-> v, command |-> command, apply |-> apply, own |-> own,
                    had |-> bin.exe \in Versions, bare |-> FALSE, alone |-> Active = {}, read |-> <<>>]
          IN op' = IF Active = {} THEN [op EXCEPT ![p] = s] ELSE [Crowd(op) EXCEPT ![p] = s]
  /\ UNCHANGED <<platform, bin, shims, path, edits, last>>

Dies(p) == op[p].at # "idle" /\ Ends(p, "died") /\ UNCHANGED <<bin, shims, path>>

(***************************************************************************)
(* install.                                                                *)
(***************************************************************************)

Places(p) ==
  /\ op[p].at = "install"
  /\ \/ Fails(p)
     \/ /\ Goes(p, CASE platform = "launchers" -> IF op[p].own THEN "launcher" ELSE "aside"
                     [] platform \in {"copies", "unix"} -> "copy git")
        /\ UNCHANGED <<bin, shims, path, last>>

\* swap_executable: the old backup goes, if it can be removed, and the binary is moved
\* aside.  One that metadata fails on is taken for none, and nothing is moved.
MovesAside(p) ==
  /\ op[p].at = "aside"
  /\ \E left \in {None, bin.old} :
       \/ bin.exe # None /\ bin' = [bin EXCEPT !.old = left] /\ Ends(p, "error")
       \/ /\ bin' = [exe |-> None, old |-> IF bin.exe = None THEN left ELSE bin.exe]
          /\ Goes(p, "copy") /\ UNCHANGED last
       \/ /\ bin.exe # None /\ bin' = [bin EXCEPT !.old = left]
          /\ Sets(p, [op[p] EXCEPT !.at = "copy", !.bare = TRUE]) /\ UNCHANGED last
  /\ UNCHANGED <<shims, path>>

Truncates(p) ==
  /\ op[p].at = "copy" /\ bin' = [bin EXCEPT !.exe = Torn]
  /\ Goes(p, "copying") /\ UNCHANGED <<shims, path, last>>

Copies(p) ==
  /\ op[p].at = "copying" /\ bin' = [bin EXCEPT !.exe = op[p].version]
  /\ Goes(p, "launcher") /\ UNCHANGED <<shims, path, last>>

\* Mutant: an error is returned as it is.
GivesUp(p) ==
  /\ op[p].at \in {"copy", "copying"} /\ UNCHANGED <<bin, shims, path>> /\ Ends(p, "error")

\* The backup is renamed back; whether that succeeds is not looked at.
RollsBack(p) ==
  /\ op[p].at \in {"copy", "copying"}
  /\ \/ bin.old # None /\ bin' = [exe |-> bin.old, old |-> None] /\ Ends(p, "error")
     \/ bin.old = None /\ bin' = bin /\ Ends(p, "error")
     \/ bin.old # None /\ bin' = bin /\ Ends(p, "stuck")
  /\ UNCHANGED <<shims, path>>

\* Without launchers gitc itself is copied, over what is there.
CopiesGit(p) ==
  /\ op[p].at \in {"copy git", "copying git"}
  /\ \/ /\ op[p].at = "copy git" /\ op[p].own /\ platform = "unix"
        /\ Goes(p, "path") /\ UNCHANGED <<shims, last>>
     \/ /\ op[p].at = "copy git" /\ ~op[p].own /\ shims' = [shims EXCEPT !["git.exe"] = Torn]
        /\ Goes(p, "copying git") /\ UNCHANGED last
     \/ /\ op[p].at = "copying git" /\ shims' = [shims EXCEPT !["git.exe"] = op[p].version]
        /\ Goes(p, "path") /\ UNCHANGED last
     \/ Ends(p, "error") /\ UNCHANGED shims
  /\ UNCHANGED <<bin, path>>

\* The launcher is removed, written, and linked to the other two names as far as that goes.
WritesLauncher(p) ==
  /\ op[p].at \in {"launcher", "writing"}
  /\ \/ /\ op[p].at = "launcher" /\ shims' = [shims EXCEPT !["git.exe"] = Torn]
        /\ Goes(p, "writing") /\ UNCHANGED last
     \/ /\ op[p].at = "launcher" /\ shims' \in {shims, [shims EXCEPT !["git.exe"] = None]}
        /\ Ends(p, "error")
     \/ /\ op[p].at = "writing" /\ Ends(p, "error") /\ UNCHANGED shims
     \/ /\ op[p].at = "writing"
        /\ \E linked \in SUBSET {"sh.exe", "bash.exe"} :
             shims' = [f \in DOMAIN shims |-> CASE f \in {"git.exe"} \cup linked -> Launcher
                                                [] f \in {"sh.exe", "bash.exe"} \ linked -> None
                                                [] OTHER -> shims[f]]
        /\ Goes(p, "shims") /\ UNCHANGED last
  /\ UNCHANGED <<bin, path>>

\* The .shim files one after another; an error may leave one short.
WritesShims(p) ==
  /\ op[p].at = "shims"
  /\ \/ /\ shims' = [f \in DOMAIN shims |-> IF f \in Shims THEN "target" ELSE shims[f]]
        /\ Goes(p, "path") /\ UNCHANGED last
     \/ \E i \in 1..3 :
          LET order == <<"git.shim", "sh.shim", "bash.shim">>
          IN /\ shims' = [f \in DOMAIN shims |->
                  CASE f \in {order[j] : j \in 1..(i - 1)} -> "target"
                    [] f = order[i] -> Torn
                    [] OTHER -> shims[f]]
             /\ \E how \in {"error", "died"} : Ends(p, how)
  /\ UNCHANGED <<bin, path>>

Prepend(segments) == IF Contains(segments, ShimDir) THEN segments ELSE <<ShimDir>> \o segments

\* PATH is read and written back by two programs.
ReadsPath(p) ==
  /\ op[p].at = "path"
  /\ \/ ~op[p].apply /\ Ends(p, "done")
     \/ op[p].apply /\ Ends(p, "error")
     \/ /\ op[p].apply /\ platform # "unix"
        /\ Sets(p, [op[p] EXCEPT !.at = "write path", !.read = path]) /\ UNCHANGED last
  /\ UNCHANGED <<bin, shims, path>>

WritesPath(p) ==
  /\ op[p].at = "write path"
  /\ \/ path' = path /\ Ends(p, "error")
     \/ path' = (IF Prepend(op[p].read) = op[p].read THEN path ELSE Prepend(op[p].read)) /\ Ends(p, "done")
  /\ UNCHANGED <<bin, shims>>

(***************************************************************************)
(* uninstall: the shim directory, in any order and as far as it goes, then *)
(* the canonical binary if it can be.                                      *)
(***************************************************************************)

RemovesShims(p) ==
  /\ op[p].at = "uninstall"
  /\ \E gone \in SUBSET {f \in DOMAIN shims : shims[f] # None} :
       /\ shims' = [f \in DOMAIN shims |-> IF f \in gone THEN None ELSE shims[f]]
       /\ IF \A f \in DOMAIN shims : shims'[f] = None THEN Goes(p, "remove bin") /\ UNCHANGED last
          ELSE Ends(p, "error")
  /\ UNCHANGED <<bin, path>>

RemovesBin(p) ==
  /\ op[p].at = "remove bin"
  /\ \E exe \in {bin.exe, None}, old \in {bin.old, None} : bin' = [exe |-> exe, old |-> old]
  /\ Ends(p, "done") /\ UNCHANGED <<shims, path>>

(***************************************************************************)
(* Others: a gitc that starts sweeps *.old; programs edit PATH.            *)
(***************************************************************************)

Sweeps ==
  /\ bin.old # None /\ bin' = [bin EXCEPT !.old = None]
  /\ op' = [q \in Procs |-> IF op[q].at = "idle" THEN op[q] ELSE [op[q] EXCEPT !.bare = TRUE]]
  /\ last' = IF last.ended.at = "stuck" THEN [last EXCEPT !.ended = Idle] ELSE last
  /\ UNCHANGED <<platform, shims, path, ops, edits>>

EditsPath ==
  /\ edits < MaxEdits /\ edits' = edits + 1
  /\ \E seg \in Foreign :
       /\ path' = Append(path, seg)
       /\ last' = [last EXCEPT !.foreign = Append(@, seg),
                               !.raced = @ \/ \E q \in Procs : op[q].at = "write path"]
  /\ UNCHANGED <<platform, bin, shims, op, ops>>

Init ==
  /\ platform \in Platforms
  /\ bin = [exe |-> None, old |-> None]
  /\ shims = [f \in Exes \cup Shims |-> None]
  /\ path = <<>>
  /\ op = [p \in Procs |-> Idle] /\ ops = 0 /\ edits = 0
  /\ last = [ended |-> Idle, foreign |-> <<>>, raced |-> FALSE]

Step(p) ==
  \/ Begins(p) \/ Dies(p) \/ Places(p) \/ MovesAside(p) \/ Truncates(p) \/ Copies(p)
  \/ RollsBack(p) \/ CopiesGit(p) \/ WritesLauncher(p) \/ WritesShims(p)
  \/ ReadsPath(p) \/ WritesPath(p) \/ RemovesShims(p) \/ RemovesBin(p)

Next == Sweeps \/ EditsPath \/ \E p \in Procs : Step(p)

(***************************************************************************)
(* Properties.                                                             *)
(***************************************************************************)

\* What `git` does when the shim directory comes first.
Runs == IF shims["git.exe"] # Launcher THEN shims["git.exe"]
        ELSE IF shims["git.shim"] = "target" THEN bin.exe ELSE Torn

\* installer.rs:85-88, 178-180: an install that reports success and had no company has made
\* `git` run the gitc that was installed, whatever an earlier one left behind; 218-222: one
\* that fails leaves a canonical binary where there was one, or, if the renaming back fails
\* (241), the backup of it until the next sweep.  Not so if the sweep came in between, or if
\* the binary was not seen (236) and is overwritten where it lies.
InstallHolds ==
  LET e == last.ended IN
  Active = {} => /\ e.at = "done" => Runs = e.version
                 /\ e.at = "error" /\ e.kept => bin.exe \in Versions
                 /\ e.at = "stuck" /\ e.kept => bin.old \in Versions

\* installer.rs:363-365: install keeps what others have in PATH, in order, unless they change
\* it between its reading and its writing, and puts the shim directory in front, once.
PathKept ==
  /\ ~last.raced => path \in {last.foreign, <<ShimDir>> \o last.foreign}
  /\ \A i \in DOMAIN path : path[i] = ShimDir => i = 1
=============================================================================
