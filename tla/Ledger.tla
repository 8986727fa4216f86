------------------------------- MODULE Ledger -------------------------------
(***************************************************************************)
(* The notebook of a clone, .git/gitc/state.json (repostate.rs): gitc      *)
(* processes append rows to its sections with an unlocked                  *)
(* read-modify-write, outsiders edit it, processes die, calls fail.        *)
(***************************************************************************)
EXTENDS Integers, FiniteSets, Sequences, SequencesExt

CONSTANTS
  Procs,
  Calls,      \* what a process may record: [place, section, keys]
  MaxCalls,
  MaxEdits,   \* by outsiders
  Cap         \* of each section: MAX_GATES, MAX_LEAKS, MAX_VULNS

Sections == DOMAIN Cap
Nothing == "none"
Absent == [kind |-> "absent"]
Unreadable == [kind |-> "unreadable"]
Kept(doc) == [kind |-> "kept", doc |-> doc]

VARIABLES
  file,     \* file[d]: the ledger of git directory d
  work,     \* work[p]: the update process p is in
  calls,    \* updates begun
  edits,    \* edits by outsiders
  history   \* of the properties: the gate rows put down in each ledger since it was begun,
            \* TRUE if updates overlapped or it was edited

(***************************************************************************)
(* Where a process finds its ledger.  A place is what GIT_DIR says and     *)
(* what lies in the directories from there up: a .git directory, a .git    *)
(* file with the path it names, a bare repository, or neither.             *)
(***************************************************************************)

GitDir(place) ==
  LET found == SelectInSeq(place.up, LAMBDA d : d.kind # "plain")
  IN IF place.env # Nothing THEN place.env
     ELSE IF found = 0 THEN Nothing ELSE place.up[found].git

GitDirs == ({GitDir(c.place) : c \in Calls} \cup {c.place.env : c \in Calls}
              \cup UNION {{d.git : d \in ToSet(c.place.up)} : c \in Calls}) \ {Nothing}

(***************************************************************************)
(* The document: for each section its rows, [key, at], oldest first.       *)
(***************************************************************************)

Empty == [s \in Sections |-> <<>>]

Made(keys, at) == [i \in DOMAIN keys |-> [key |-> keys[i], at |-> at]]
Recorded(rows, key) == \E i \in DOMAIN rows : rows[i].key = key

AddsNew(rows, keys, at) ==
  LET after[n \in 0..Len(keys)] ==
        IF n = 0 THEN rows
        ELSE IF Recorded(after[n - 1], keys[n]) THEN after[n - 1]
        ELSE Append(after[n - 1], [key |-> keys[n], at |-> at])
  IN after[Len(keys)]

\* A verdict is recorded each time; a fingerprint, or id, package and version, once.
Adds(doc, section, keys, at) ==
  [doc EXCEPT ![section] = IF section = "gates" THEN @ \o Made(keys, at) ELSE AddsNew(@, keys, at)]

Truncate(doc) == [s \in Sections |-> SubSeq(doc[s], Max({1, Len(doc[s]) - Cap[s] + 1}), Len(doc[s]))]

(***************************************************************************)
(* An update: load, change, write a file of the process's own, remove the  *)
(* old document, rename.                                                   *)
(***************************************************************************)

Idle == [at |-> "idle"]
Sets(p, s) == work' = [work EXCEPT ![p] = s]
Busy(d) == {p \in Procs : work[p].at # "idle" /\ work[p].dir = d}

Records(p) ==
  /\ work[p].at = "idle" /\ calls < MaxCalls
  /\ calls' = calls + 1
  /\ \E c \in Calls :
       Sets(p, IF c.keys = <<>> \/ GitDir(c.place) = Nothing THEN Idle
               ELSE [at |-> "load", dir |-> GitDir(c.place), call |-> c, time |-> calls', anew |-> FALSE, doc |-> Empty])
  /\ UNCHANGED <<file, edits, history>>

\* A ledger that is not there, or that a read fails on, a good one too, is begun anew.
Loads(p) ==
  /\ work[p].at = "load"
  /\ LET d == work[p].dir
         call == work[p].call
     IN /\ \E anew \in BOOLEAN :
             /\ ~anew => file[d].kind = "kept"
             /\ Sets(p, [work[p] EXCEPT !.at = "write", !.anew = anew,
                  !.doc = Adds(IF anew THEN Empty ELSE file[d].doc,
                               call.section, call.keys, work[p].time)])
        /\ history' = IF \A q \in Busy(d) \ {p} : work[q].at = "load" THEN history
                      ELSE [history EXCEPT ![d].raced = TRUE]
  /\ UNCHANGED <<file, calls, edits>>

\* Mutant: the document is written where it lies.
WritesInPlace(p) ==
  /\ work[p].at = "write"
  /\ Sets(p, [work[p] EXCEPT !.at = "remove", !.doc = Truncate(@)])
  /\ file' = [file EXCEPT ![work[p].dir] = Unreadable]
  /\ UNCHANGED <<calls, edits, history>>

Writes(p) ==
  /\ work[p].at = "write"
  /\ Sets(p, [work[p] EXCEPT !.at = "remove", !.doc = Truncate(@)])
  /\ UNCHANGED <<file, calls, edits, history>>

\* remove_file may fail, and rename replaces what it finds.
Removes(p) ==
  /\ work[p].at = "remove"
  /\ Sets(p, [work[p] EXCEPT !.at = "rename"])
  /\ file' \in {file, [file EXCEPT ![work[p].dir] = Absent]}
  /\ UNCHANGED <<calls, edits, history>>

Verdicts(p) ==
  IF work[p].call.section = "gates" THEN Made(work[p].call.keys, work[p].time) ELSE <<>>

Renames(p) ==
  LET d == work[p].dir IN
  /\ work[p].at = "rename"
  /\ file' = [file EXCEPT ![d] = Kept(work[p].doc)]
  /\ history' = [history EXCEPT ![d].rows = (IF work[p].anew THEN <<>> ELSE @) \o Verdicts(p)]
  /\ Sets(p, Idle) /\ UNCHANGED <<calls, edits>>

\* The update is given up, or its process dies; what it removed stays removed.
Fails(p) ==
  /\ work[p].at # "idle"
  /\ Sets(p, Idle)
  /\ history' = IF work[p].at = "rename" /\ file[work[p].dir] = Absent
                THEN [history EXCEPT ![work[p].dir].rows = <<>>] ELSE history
  /\ UNCHANGED <<file, calls, edits>>

\* .git is writable by whoever can write the working tree.
Edits ==
  /\ edits < MaxEdits /\ edits' = edits + 1
  /\ \E d \in GitDirs, as \in {Absent, Unreadable} :
       /\ file[d] # Absent
       /\ file' = [file EXCEPT ![d] = as]
       /\ history' = [history EXCEPT ![d] = [rows |-> <<>>, edited |-> TRUE,
                                             raced |-> @.raced \/ Busy(d) # {}]]
  /\ UNCHANGED <<work, calls>>

Init ==
  /\ file = [d \in GitDirs |-> Absent]
  /\ work = [p \in Procs |-> Idle]
  /\ calls = 0 /\ edits = 0
  /\ history = [d \in GitDirs |-> [rows |-> <<>>, raced |-> FALSE, edited |-> FALSE]]

Next ==
  \/ \E p \in Procs : Records(p) \/ Loads(p) \/ Writes(p) \/ Removes(p) \/ Renames(p) \/ Fails(p)
  \/ Edits

(***************************************************************************)
(* Properties.                                                             *)
(***************************************************************************)

\* repostate.rs:229-232: nobody but an outsider makes the ledger unreadable, whoever dies
\* when and however updates overlap; 72-75, 145-147, 352: sections keep their caps, and a
\* leak or a vulnerability has one row.
LedgerIsWhole ==
  \A d \in GitDirs :
    /\ file[d] = Unreadable => history[d].edited
    /\ file[d].kind = "kept" => \A s \in Sections :
         LET rows == file[d].doc[s]
         IN /\ Len(rows) <= Cap[s]
            /\ s # "gates" => \A i, j \in DOMAIN rows : rows[i].key = rows[j].key => i = j

Newest(rows) == SubSeq(rows, Max({1, Len(rows) - Cap["gates"] + 1}), Len(rows))

\* repostate.rs:74, 33: as long as updates do not overlap, the ledger of a clone holds the
\* newest verdicts put down in it, from whichever of its directories, oldest first, since
\* the last update that could not read it and began a new one (294-303).
LedgerIsTheHistory ==
  \A d \in GitDirs :
    ~history[d].raced /\ file[d].kind = "kept" =>
      file[d].doc["gates"] = Newest(history[d].rows)
=============================================================================
