------------------------------ MODULE Sources -------------------------------
(* A scan takes its fragments from one source: a directory, standard input *)
(* or a repository's history.                                              *)
EXTENDS FileSource, GitSource

sourcesVars == <<consumerVars, fileVars, gitVars>>

SourcesInit == ConsumerInit /\ FileInit /\ GitInit

FileStep == (ScansFiles \/ ScansStdin \/ OpensTarget \/ ReadChunk \/ FilesEnd) /\ UNCHANGED gitVars
FileFails == (Vanishes \/ ReadFails) /\ UNCHANGED gitVars
GitStep == (ScansHistory \/ ListCommits \/ Joins \/ Emits \/ Reports) /\ UNCHANGED fileVars
Worker(i) ==
  /\ Spawns(i) \/ WritesSha(i) \/ Collects(i) \/ GitPrints(i) \/ GitExits(i) \/ Parses(i)
  /\ UNCHANGED fileVars
WorkerFails(i) == (SpawnFails(i) \/ GitDies(i)) /\ UNCHANGED fileVars

SourcesNext ==
  \/ FileStep \/ FileFails \/ GitStep
  \/ \E i \in 1..Workers : Worker(i) \/ WorkerFails(i)

\* A thread that can go on does; git goes on while it can read and write.
SourcesFairness ==
  /\ WF_sourcesVars(FileStep) /\ WF_sourcesVars(GitStep)
  /\ \A i \in 1..Workers : WF_sourcesVars(Worker(i))
SourcesSpec == SourcesInit /\ [][SourcesNext]_sourcesVars /\ SourcesFairness

-----------------------------------------------------------------------------
(* A scan goes from idle to running to over, and reads one thing at a      *)
(* time.                                                                   *)
SourcesTypeOK ==
  /\ result \in {"idle", "running", "ok", "error"} /\ (result = "idle") <=> (source = "none")
  /\ \A i \in DOMAIN open : open[i].depth = Len(open[i].outer) /\ open[i].depth <= MaxArchiveDepth
  /\ \A i \in DOMAIN proc : proc[i].got <= proc[i].out /\ proc[i].out <= proc[i].read
                            /\ proc[i].read <= proc[i].sent

\* The scan of the history, as the repository says it should be.
Whole(h, name, c) ==
  LET added == SelectSeq(h.lines, LAMBDA l : l[1] = "+")
  IN [sha |-> c.sha, author |-> c.author, date |-> c.date, message |-> c.message, path |-> name,
      start |-> h.at, raw |-> [i \in 1..Len(added) |-> added[i][2]]]
WholeFile(f, c) ==
  IF f.change \in {"binary", "delete"} THEN <<>>
  ELSE [i \in 1..Len(f.hunks) |-> Whole(f.hunks[i], f.name, c)]
WholeCommit(c) ==
  LET seen == IF Len(dealt) > 1 \/ LogOpts = "" THEN {f.name : f \in {c.files[i] : i \in {j \in DOMAIN c.files : c.files[j].change # "type"}}}
              ELSE Shown[LogOpts]
      files == SelectSeq(c.files, LAMBDA f : f.name \in seen /\ <<c.sha, f.name>> \notin SkippedFiles)
  IN FlattenSeq([i \in 1..Len(files) |-> WholeFile(files[i], c)])
WholeHistory ==
  FlattenSeq([i \in 1..Len(dealt) |->
    LET cs == IF Len(dealt) = 1 THEN dealt[i] ELSE NoWalk(dealt[i])
    IN FlattenSeq([j \in 1..Len(cs) |-> WholeCommit(cs[j])])])

(* A scan of the history that ends well has handed on every added line of  *)
(* every commit once, with its commit, path and place, in an order no      *)
(* process decides; one whose git complained does not end well.            *)
HistoryIsWhole ==
  source = "git" /\ result = "ok" /\ ~silent =>
    taken = (IF Listed[LogOpts] = <<>> THEN <<>> ELSE WholeHistory)

\* Two newlines with nothing but white space between them.
Breaks(b) == {d \in (1..Len(b)) \X (1..Len(b)) :
                d[1] < d[2] /\ b[d[1]] = "n" /\ b[d[2]] = "n" /\ \A k \in d[1]..d[2] : Blank(b[k])}
\* The longest stretches of a file that hold no blank line.
Paragraphs == [f \in DOMAIN Content |->
  LET b == Bytes(f)
      breaks == Breaks(b)
      Unbroken(lo, hi) == \A d \in breaks : ~(lo <= d[1] /\ d[2] <= hi)
  IN {p \in (1..Len(b)) \X (1..Len(b)) :
       /\ p[1] <= p[2] /\ Unbroken(p[1], p[2])
       /\ p[1] > 1 => ~Unbroken(p[1] - 1, p[2])
       /\ p[2] < Len(b) => ~Unbroken(p[1], p[2] + 1)}]
HasText(b, lo, hi) == \E i \in lo..hi : ~Blank(b[i])

(* The fragments of a file follow on from one another, each starts at the  *)
(* line it says it does, and none ends inside a paragraph that is short    *)
(* enough for the reader to have gone round it, unless a read of the file  *)
(* failed.                                                                 *)
IsTrue(k) ==
  LET t == taken[k]
      b == Bytes(t.file)
  IN /\ t.start = 1 + Newlines(t.file, t.from - 1)
     /\ t.from > 1 => k > 1 /\ taken[k - 1].path = t.path /\ taken[k - 1].to = t.from - 1
     /\ t.file \in unread \/ \A p \in Paragraphs[t.file] :
          p[1] <= t.to /\ t.to < p[2] /\ HasText(b, p[1], t.to) /\ HasText(b, t.to + 1, p[2]) =>
            p[2] - p[1] >= PeekSize
ChunksAreTrue == source # "git" => \A k \in 1..Len(taken) : IsTrue(k)

(* The files there are to be read: the targets, and what is in them as far *)
(* down as archives are opened.                                            *)
Inside(o) ==
  LET c == Content[o.file]
      ms == {c.members[i] : i \in 1..Len(c.members)}
      read == IF c.format \in {"7z", "rar"} /\ \E m \in ms : ~m.readable THEN {}
              ELSE {m \in ms : m.kind = "file" /\ m.readable /\ m.safe}
  IN IF c.format = "none" \/ o.depth >= MaxArchiveDepth \/ c.broken THEN {}
     ELSE {File(IF m.path = <<>> THEN StripCompressionSuffix(o.path) ELSE m.path,
                m.file, o.depth + 1, FullPath(o), FALSE) : m \in read}
Within(o) ==
  LET level[n \in 0..MaxArchiveDepth] ==
        IF n = 0 THEN {o} ELSE UNION {Inside(m) : m \in level[n - 1]}
  IN {m \in UNION {level[n] : n \in 0..MaxArchiveDepth} : Content[m.file].format = "none"}
Seen(o) == \E k \in 1..Len(taken) : taken[k].path = FullPath(o) /\ taken[k].to = Len(Bytes(o.file))
(* A file of a directory that ends up in no fragment is empty, binary,     *)
(* over the limit, under a path the filter rejects, was removed or not to  *)
(* be read, or is named like an archive it is not; a member that does is   *)
(* deeper than the limit, cannot be read, has a name that leaves its       *)
(* archive, or is in a 7z or rar archive that holds one that cannot.       *)
MissesAreExplained ==
  source = "files" /\ result = "ok" =>
    \A t \in Range(ScanTargets[Root]) : 
      \A o \in Within(File(t.path, t.file, 0, <<>>, FALSE)) :
        \/ Seen(o) \/ Bytes(o.file) = <<>> \/ ~IsText(o.file)
        \/ t.file \in vanished \cup unread
        \/ FromExtension(o.path) # "none" /\ o.depth < MaxArchiveDepth

(* Every scan ends.                                                        *)
ScansEnd == (result = "running") ~> (result \in {"ok", "error"})

(* A scan that ends well has left out no line of history and no file       *)
(* without a reason.                                                       *)
NothingIsMissed == SourcesTypeOK /\ HistoryIsWhole /\ MissesAreExplained
=============================================================================
