----------------------------- MODULE GitSource ------------------------------
(* The scanner's git sources: `git log -p` as one process, or the commits  *)
(* listed once and dealt out to several processes, whose patches are       *)
(* parsed and handed on in the order of the deal.                          *)
(*                                                                         *)
(* A process reads its commits from a pipe of PipeSize entries and writes  *)
(* one patch at a time to another; both block when they are full.          *)
EXTENDS Consumer, FiniteSets, SequencesExt

CONSTANTS
  LogOpts,          \* "" or a limit on the history, such as "path"
  Listed,           \* what rev-list answers, by its options: a sequence of commits
  Shown,            \* the names a single `git log` shows, by its options
  Spaced,           \* the names that hold " b/"
  SkippedFiles,     \* <<commit, name>> pairs the filter rejects
  Workers,          \* processes asked for
  PipeSize,         \* bound: entries a pipe holds
  MaxFailures       \* bound: processes that fail in a scan

VARIABLES
  phase,            \* "idle", "list", "work", "emit" or "over"
  dealt,            \* worker -> the commits it was given
  proc,             \* worker -> its process: [st, sent, read, out, got, stderr, lines]
  sink,             \* worker -> the fragments it parsed
  firstError,       \* the first worker to fail, 0 for none
  failures,         \* processes that failed
  silent            \* whether one was killed without a word

gitVars == <<phase, dealt, proc, sink, firstError, failures, silent>>

-----------------------------------------------------------------------------
(* What git prints.  A line is its kind and what it carries.               *)
Line(k, v, n) == [k |-> k, v |-> v, n |-> n]
Word(k) == Line(k, "", 0)

PrintHunk(h) == <<Line("@@", "", h.at)>> \o [i \in 1..Len(h.lines) |-> Line(h.lines[i][1], h.lines[i][2], 0)]
PrintFile(f) ==
  <<Line("diff", f.name, 0)>>
  \o (CASE f.change = "new" -> <<Word("new file mode")>>
        [] f.change = "delete" -> <<Word("deleted file mode")>>
        [] f.change = "rename" -> <<Line("rename from", f.old, 0), Line("rename to", f.name, 0)>>
        [] OTHER -> <<>>)
  \o (IF f.change = "binary" THEN <<Word("Binary files")>>
      ELSE IF f.hunks = <<>> THEN <<>>
      ELSE <<Line("---", IF f.change = "new" THEN "/dev/null" ELSE f.old, 0),
             Line("+++", IF f.change = "delete" THEN "/dev/null" ELSE f.name, 0)>>
           \o FlattenSeq([i \in 1..Len(f.hunks) |-> PrintHunk(f.hunks[i])]))
\* --diff-filter=tuxdb leaves deletions and changes of type out.
Filtered(c) == SelectSeq(c.files, LAMBDA f : f.change \notin {"delete", "type"})
PrintCommit(c, opts) ==
  LET files == IF opts = "" THEN Filtered(c) ELSE SelectSeq(c.files, LAMBDA f : f.name \in Shown[opts])
  IN <<Line("commit", c.sha, 0), Line("Author", c.author, 0), Line("Date", c.date, 0), Word("blank")>>
     \o [i \in 1..Len(c.message) |-> IF c.message[i] = "" THEN Word("blank")
                                                            ELSE Line("    ", c.message[i], 0)] \o <<Word("blank")>>
     \o FlattenSeq([i \in 1..Len(files) |-> PrintFile(files[i])])
AllCommits == UNION {Range(Listed[o]) : o \in DOMAIN Listed}
Patches == [o \in DOMAIN Listed |-> [c \in AllCommits |-> PrintCommit(c, o)]]
Log(cs, opts) == FlattenSeq([i \in 1..Len(cs) |-> Patches[opts][cs[i]]])

-----------------------------------------------------------------------------
(* gitdiff's parser.  Every loop of it gives way to the next line that     *)
(* starts a commit or a file, so what it reads falls into blocks.          *)
Starts(lines, kinds) == SelectSeq([i \in 1..Len(lines) |-> i], LAMBDA i : lines[i].k \in kinds)
\* What follows line i, up to the next line of one of these kinds.
Block(lines, i, kinds) ==
  LET next == {j \in (i + 1)..Len(lines) : lines[j].k \in kinds}
  IN SubSeq(lines, i + 1, IF next = {} THEN Len(lines) ELSE (CHOOSE j \in next : \A k \in next : j <= k) - 1)
\* What the last of the lines says, or what is said without one.
LastSaid(lines, otherwise) == IF lines = <<>> THEN otherwise ELSE lines[Len(lines)].v
Says(lines, k) == \E i \in 1..Len(lines) : lines[i].k = k

NoHeader == [sha |-> "", author |-> "", date |-> "", message |-> <<>>]
\* The message: its indented lines, and the empty ones between them.
MessageOf(block) ==
  LET body(i) == block[i].k = "    "
      kept == SelectSeq([i \in 1..Len(block) |-> i], LAMBDA i :
                body(i) \/ (block[i].k = "blank" /\ (\E j \in 1..(i - 1) : body(j))
                                                 /\ (\E j \in (i + 1)..Len(block) : body(j))))
  IN [n \in 1..Len(kept) |-> block[kept[n]].v]
HeaderAt(lines, i) ==
  LET block == Block(lines, i, {"commit", "diff"})
  IN [sha |-> lines[i].v, message |-> MessageOf(block),
      author |-> LastSaid(SelectSeq(block, LAMBDA l : l.k = "Author"), ""),
      date |-> LastSaid(SelectSeq(block, LAMBDA l : l.k = "Date"), "")]

\* The paths of a "diff" line are told apart at the first " b/".
SplitDiffGitPaths(v) == IF v \in Spaced THEN "garbled" ELSE v
\* "\ No newline at end of file" is no line of the file.
HunkAt(block, i) ==
  LET ls == SelectSeq(Block(block, i, {"@@"}), LAMBDA l : l.k \in {"+", "-", " "})
  IN [at |-> block[i].n, lines |-> [j \in 1..Len(ls) |-> <<ls[j].k, ls[j].v>>]]
FileAt(lines, i) ==
  LET block == Block(lines, i, {"commit", "diff"})
      ext == Block(lines, i, {"commit", "diff", "@@"})
      named == SelectSeq(ext, LAMBDA l : l.k = "rename to" \/ (l.k = "+++" /\ l.v # "/dev/null"))
      commits == SelectSeq(Starts(lines, {"commit"}), LAMBDA c : c < i)
      hunks == Starts(block, {"@@"})
  IN [name |-> LastSaid(named, SplitDiffGitPaths(lines[i].v)),
      delete |-> Says(ext, "deleted file mode") \/ \E j \in 1..Len(ext) : ext[j] = Line("+++", "/dev/null", 0),
      binary |-> Says(ext, "Binary files"),
      header |-> IF commits = <<>> THEN NoHeader ELSE HeaderAt(lines, commits[Len(commits)]),
      hunks |-> [j \in 1..Len(hunks) |-> HunkAt(block, hunks[j])]]
Parse(lines) == LET ds == Starts(lines, {"diff"}) IN [j \in 1..Len(ds) |-> FileAt(lines, ds[j])]

\* Mutant: the hunk is what every diff line says, removed ones too.
RawAll(h) == [i \in 1..Len(h.lines) |-> h.lines[i][2]]

\* The added lines of a hunk: all that is scanned.
Raw(h) ==
  LET added == SelectSeq(h.lines, LAMBDA l : l[1] = "+") IN [i \in 1..Len(added) |-> added[i][2]]

GitFragment(f, h) ==
  [sha |-> f.header.sha, author |-> f.header.author, date |-> f.header.date,
   message |-> f.header.message, path |-> f.name, start |-> h.at, raw |-> Raw(h)]
\* Git::fragments.
FragmentsOf(files) ==
  FlattenSeq([i \in 1..Len(files) |->
    IF files[i].delete \/ files[i].binary THEN <<>>
    ELSE [j \in 1..Len(files[i].hunks) |-> GitFragment(files[i], files[i].hunks[j])]])
SkipsGit(fr) == <<fr.sha, fr.path>> \in SkippedFiles

-----------------------------------------------------------------------------
GitInit == /\ phase = "idle" /\ dealt = <<>> /\ proc = <<>> /\ sink = <<>>
           /\ firstError = 0 /\ failures = 0 /\ silent = FALSE

Process == [st |-> "new", sent |-> 0, read |-> 0, out |-> 0, got |-> 0, stderr |-> "", lines |-> 0]
DivCeil(a, b) == (a + b - 1) \div b
\* The commits in chunks of `size`, the last one shorter.
Chunks(cs, size) ==
  [i \in 1..DivCeil(Len(cs), size) |->
     SubSeq(cs, (i - 1) * size + 1, IF i * size < Len(cs) THEN i * size ELSE Len(cs))]
Single == Len(dealt) = 1
\* `git log --no-walk` prints a chunk newest first.
NoWalk(cs) == SortSeq(cs, LAMBDA a, b : a.time > b.time)
\* One process walks for itself, and shows all that the options leave.
Order(cs) == IF Single THEN cs ELSE NoWalk(cs)
Patch(i) == Log(Order(dealt[i]), IF Single THEN LogOpts ELSE "")
Printed(i) == Log(SubSeq(Order(dealt[i]), 1, proc[i].out), IF Single THEN LogOpts ELSE "")

ScansHistory ==
  /\ Begins("git") /\ phase' = "list"
  /\ UNCHANGED <<dealt, proc, sink, firstError, failures, silent>>

ListCommits ==
  /\ phase = "list"
  /\ \/ /\ failures < MaxFailures
        /\ failures' = failures + 1 /\ Ends("error") /\ phase' = "over"
        /\ UNCHANGED <<dealt, proc, sink>>
     \/ LET cs == Listed[LogOpts]
            ws == IF Workers > Len(cs) THEN Len(cs) ELSE Workers
        IN /\ UNCHANGED failures
           /\ IF cs = <<>>
              THEN Ends("ok") /\ phase' = "over" /\ UNCHANGED <<dealt, proc, sink>>
              ELSE /\ phase' = "work" /\ UNCHANGED consumerVars
                   /\ dealt' = Chunks(cs, DivCeil(Len(cs), ws))
                   /\ proc' = [i \in 1..Len(dealt') |-> Process]
                   /\ sink' = [i \in 1..Len(dealt') |-> <<>>]
  /\ UNCHANGED <<firstError, silent>>

working(i) == phase = "work" /\ i \in DOMAIN proc
Rest == UNCHANGED <<phase, dealt, consumerVars>>

Blames(i) == firstError' = IF firstError = 0 THEN i ELSE firstError
SpawnFails(i) ==
  /\ working(i) /\ proc[i].st = "new" /\ failures < MaxFailures
  /\ proc' = [proc EXCEPT ![i].st = "done"] /\ failures' = failures + 1
  /\ Blames(i) /\ UNCHANGED <<sink, silent>> /\ Rest
Spawns(i) ==
  /\ working(i) /\ proc[i].st = "new"
  /\ proc' = [proc EXCEPT ![i].st = "runs", ![i].sent = IF Single THEN Len(dealt[i]) ELSE 0]
  /\ UNCHANGED <<sink, firstError, failures, silent>> /\ Rest

\* Mutant: the names are written before the output is read.
CollectsAfterWriting(i) ==
  /\ working(i) /\ proc[i].st = "runs" /\ proc[i].out > proc[i].got
  /\ proc[i].sent = Len(dealt[i])
  /\ proc' = [proc EXCEPT ![i].got = @ + 1]
  /\ UNCHANGED <<sink, firstError, failures, silent>> /\ Rest

\* The thread that writes the names and the one that collects the output.
WritesSha(i) ==
  /\ working(i) /\ proc[i].st = "runs"
  /\ proc[i].sent < Len(dealt[i]) /\ proc[i].sent - proc[i].read < PipeSize
  /\ proc' = [proc EXCEPT ![i].sent = @ + 1]
  /\ UNCHANGED <<sink, firstError, failures, silent>> /\ Rest
Collects(i) ==
  /\ working(i) /\ proc[i].st = "runs" /\ proc[i].out > proc[i].got
  /\ proc' = [proc EXCEPT ![i].got = @ + 1]
  /\ UNCHANGED <<sink, firstError, failures, silent>> /\ Rest
\* git takes a name and prints its patch, when there is room for it.
GitPrints(i) ==
  /\ working(i) /\ proc[i].st = "runs"
  /\ proc[i].read < proc[i].sent /\ proc[i].out - proc[i].got < PipeSize
  /\ proc' = [proc EXCEPT ![i].read = @ + 1, ![i].out = @ + 1]
  /\ UNCHANGED <<sink, firstError, failures, silent>> /\ Rest

Warnings == {"", "benign"}
GitExits(i) ==
  /\ working(i) /\ proc[i].st = "runs" /\ proc[i].got = Len(dealt[i])
  /\ \E w \in Warnings :
       proc' = [proc EXCEPT ![i].st = "exited", ![i].stderr = w, ![i].lines = Len(Patch(i))]
  /\ UNCHANGED <<sink, firstError, failures, silent>> /\ Rest
\* git stops early: with a message, or killed without one, anywhere in what it wrote.
GitDies(i) ==
  /\ working(i) /\ proc[i].st = "runs" /\ failures < MaxFailures
  /\ \E length \in {Len(Printed(i))} : \E w \in {"", "fatal"}, n \in 0..(length - 1) :
       /\ proc' = [proc EXCEPT ![i].st = "exited", ![i].stderr = w, ![i].lines = n]
       /\ silent' = (silent \/ w = "")
  /\ failures' = failures + 1
  /\ UNCHANGED <<sink, firstError>> /\ Rest

StderrError(w) == w \notin Warnings
\* The worker parses what it has, and then says whether git complained.
Parses(i) ==
  /\ working(i) /\ proc[i].st = "exited"
  /\ \E text \in {SubSeq(Patch(i), 1, proc[i].lines)} : \E files \in {Parse(text)} :
       sink' = [sink EXCEPT ![i] = FragmentsOf(files)]
  /\ proc' = [proc EXCEPT ![i].st = "done"]
  /\ IF StderrError(proc[i].stderr) THEN Blames(i) ELSE UNCHANGED firstError
  /\ UNCHANGED <<failures, silent>> /\ Rest

Joins ==
  /\ phase = "work" /\ \A i \in DOMAIN proc : proc[i].st = "done"
  /\ phase' = "emit"
  /\ UNCHANGED <<dealt, proc, sink, firstError, failures, silent, consumerVars>>

\* The sinks are drained in the order of the deal.
NextSink == {i \in DOMAIN sink : sink[i] # <<>> /\ (\A j \in 1..(i - 1) : sink[j] = <<>>)}
Emits ==
  /\ phase = "emit"
  /\ \E i \in NextSink :
       /\ sink' = [sink EXCEPT ![i] = Tail(@)]
       /\ IF SkipsGit(Head(sink[i])) THEN UNCHANGED consumerVars ELSE Yields(Head(sink[i]))
  /\ phase' = (IF result' = "error" THEN "over" ELSE "emit")
  /\ UNCHANGED <<dealt, proc, firstError, failures, silent>>
Reports ==
  /\ phase = "emit" /\ \A i \in DOMAIN sink : sink[i] = <<>>
  /\ Ends(IF firstError # 0 THEN "error" ELSE "ok") /\ phase' = "over"
  /\ UNCHANGED <<dealt, proc, sink, firstError, failures, silent>>
=============================================================================
