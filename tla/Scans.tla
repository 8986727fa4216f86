------------------------------- MODULE Scans --------------------------------
(***************************************************************************)
(* `gitc scan` (scancmd.rs) and the scans of the gates (scan.rs): which    *)
(* blobs and files a scan reads, its budget, the worker threads of         *)
(* `--jobs`, the cache of results per blob that runs share through a file, *)
(* the baseline one run writes and another reads, and the pre-commit hook. *)
(* What Walk finds in history and what the detector finds in a blob are    *)
(* constants here.                                                         *)
(***************************************************************************)
EXTENDS Integers, FiniteSets, Sequences, SequencesExt, Functions

CONSTANTS
  Procs,      \* gitc processes
  Requests,   \* what they may be asked: see WellFormed
  MaxScans,   \* how many scans are asked for
  Workers,    \* threads of a `--jobs` scan
  Paths, Rules, Oids,
  Content,    \* of a blob: [class, size, holds]
  HeadTip,    \* the commit HEAD is at, Nothing if it is unborn
  Refs,       \* <<namespace, name>> -> commit
  Lists,      \* <<tips, exclude>> -> the blobs Walk finds, in order: [oid, path, commit]
  IndexFiles,      \* .git/index files that can be parsed -> their entries
  Dirs,       \* of a directory: its entries, [kind, to]
  MaxWalkDepth,
  Skipped,    \* paths the catalogue's prefilter skips
  RulesOf,    \* of a catalogue
  Low,        \* rules whose findings a scan that asks for high confidence leaves out
  Traced,     \* the path of the finding a trace asks for
  Ignored,    \* {[path, rule]}: what .betterleaksignore names
  UserHooks,  \* pre-commit hooks a user writes
  MaxHookOps

Commands == {"history", "trace", "staged", "tree", "commit gate", "push gate", "baseline", "bad"}
Gates == {"commit gate", "push gate"}
Nothing == "none"
Managed == "managed"
Cut == "cut short"   \* a hook that gitc began to write
Forms == {"HEAD", "all", "outgoing", "one", "range", "both", "index", "dir"}

VARIABLES
  cacheFile,    \* <git-dir>/gitc-scan-cache, a sequence of lines
  baselineFile, \* what a baseline records, <<>> if there is none, "torn" while written
  scan,         \* scan[p]: the run of process p
  asked,        \* scans begun
  hook          \* .git/hooks/pre-commit, its backup, the user's last and what an install has
                \* met since (the managed hook "unread", a hook cut short "again"), the command
                \* at work

(***************************************************************************)
(* What a scan is asked to look at.                                        *)
(***************************************************************************)

Commitish(name) ==
  IF name = "HEAD" THEN HeadTip
  ELSE LET in == SelectSeq(<<"heads", "tags", "remotes">>, LAMBDA ns : <<ns, name>> \in DOMAIN Refs)
       IN IF in = <<>> THEN Nothing ELSE Refs[<<in[1], name>>]

\* Where the walk begins and where it stops, [tips, exclude].
Scope(rev) ==
  LET form == rev[1]
      tracked == {r \in DOMAIN Refs : r[1] = "remotes" /\ r[2] = rev[2]}
  IN CASE form = "HEAD" -> <<{HeadTip} \ {Nothing}, {}>>
       [] form = "all" -> <<Range(Refs), {}>>
       [] form = "outgoing" -> <<{HeadTip}, {Refs[r] : r \in tracked}>>
       [] form = "one" -> <<{Commitish(rev[2])}, {}>>
       [] form = "range" -> <<{Commitish(rev[3])}, {Commitish(rev[2])}>>
       [] form = "both" -> <<{Commitish(rev[2]), Commitish(rev[3])}, {}>>

\* Of the index: regular files without a conflict.
Staged(name) == SelectSeq(IndexFiles[name], LAMBDA e : e.stage = 0 /\ e.mode = "file")

Unresolved(rev) ==
  CASE rev[1] = "dir" -> FALSE
    [] rev[1] = "index" -> rev[2] \notin DOMAIN IndexFiles
    [] OTHER -> Nothing \in Scope(rev)[1] \cup Scope(rev)[2]

List(rev) ==
  CASE rev[1] = "dir" -> <<>>
    [] rev[1] = "index" -> [i \in DOMAIN Staged(rev[2]) |->
         [oid |-> Staged(rev[2])[i].oid, path |-> Staged(rev[2])[i].path, commit |-> ""]]
    [] OTHER -> IF Scope(rev)[1] = {} THEN <<>> ELSE Lists[Scope(rev)]

\* What the constants are.
WellFormed ==
  /\ Content \in [Oids -> [class : {"text", "binary", "big", "lost"}, size : Nat,
                           holds : SUBSET Rules]]
  /\ Requests \subseteq [cmd : Commands, rev : Forms \X STRING \X STRING, jobs : BOOLEAN, cache : BOOLEAN,
                         rules : DOMAIN RulesOf, high : BOOLEAN, baseline : BOOLEAN, links : BOOLEAN,
                         cap : Nat]
  /\ {Nothing, Managed, Cut} \cap UserHooks = {}   \* HOOK_MARKER is in no hook of the user's
  /\ Workers # {} /\ MaxWalkDepth \in Nat
  /\ \A req \in Requests :
       /\ req.cmd = "trace" => req.rev[1] \in {"HEAD", "all"}
       /\ req.cache => req.cmd \in {"history", "baseline"} /\ req.rev[1] \notin {"index", "dir"}
       /\ req.cmd \in Gates => ~req.high
       /\ Unresolved(req.rev) \/ List(req.rev) \in Seq([oid : Oids, path : Paths, commit : STRING])

(***************************************************************************)
(* The detector as a scan uses it.                                         *)
(***************************************************************************)

\* The gates take the default rules and neither paths nor suppression.
Detect(req, hidden, b) ==
  LET found == {r \in Content[b.oid].holds \cap RulesOf[req.rules] :
                  [path |-> b.path, rule |-> r] \notin hidden /\ (req.high => r \notin Low)}
  IN IF req.cmd \notin Gates /\ b.path \in Skipped THEN {} ELSE found

Hidden(req) ==
  IF req.cmd \in Gates THEN {}
  ELSE Ignored \cup IF req.baseline THEN baselineFile[1] ELSE {}

\* What decides, beside its content, what a scan finds in a blob.
View(req, hidden, b) ==
  [rules |-> req.rules, high |-> req.high, skips |-> b.path \in Skipped,
   hides |-> {r \in Rules : [path |-> b.path, rule |-> r] \in hidden}]

\* The version line of a cache file counts the rules; it does not name them, nor the
\* confidence, which stands for the other options of the detector too.
VersionTag(rules) == Cardinality(RulesOf[rules])

(***************************************************************************)
(* The cache file: a version line, and for each blob how many findings it  *)
(* has and then a line for each.  A line also says under which view it was *)
(* written, and whether it still stands as it was written: neither is in   *)
(* the file, and nothing is decided by them.                               *)
(***************************************************************************)

VersionLine(n) == [k |-> "version", n |-> n, whole |-> TRUE]
BlobLine(o, e) ==
  [k |-> "blob", oid |-> o, n |-> Cardinality(e.rules), view |-> e.view, whole |-> e.whole]
FindingLine(r) == [k |-> "finding", rule |-> r, whole |-> TRUE]

Text(req, entries) ==
  {FlattenSeq(<<<<VersionLine(VersionTag(req.rules))>>>> \o
     [i \in DOMAIN order |->
        <<BlobLine(order[i], entries[order[i]])>>
          \o SetToSeq({FindingLine(r) : r \in entries[order[i]].rules})]) :
     order \in SetToSeqs(DOMAIN entries)}

\* The last line a write was cut in: a count that is lost reads 0, what else is cut tells
\* nothing.
Part(line) ==
  IF line.k = "blob" THEN [line EXCEPT !.n = 0, !.whole = FALSE] ELSE [k |-> "part", whole |-> FALSE]
Cuts(lines) ==
  {SubSeq(lines, 1, n) : n \in DOMAIN lines}
  \cup {SubSeq(lines, 1, n - 1) \o <<Part(lines[n])>> : n \in DOMAIN lines}

\* Two that write at once both begin at the front: what the longer one wrote sticks out.
LeftOver(lines) ==
  {<<>>} \cup {[i \in 1..(Len(lines) - n) |-> [lines[n + i] EXCEPT !.whole = FALSE]] :
                 n \in DOMAIN lines}

Parse(lines) ==
  FoldLeft(LAMBDA s, line :
      IF s.left = 0
      THEN IF line.k # "blob" THEN s
           ELSE LET e == [rules |-> {}, view |-> line.view, whole |-> line.whole]
                IN IF line.n = 0 THEN [s EXCEPT !.entries = (line.oid :> e) @@ @]
                   ELSE [s EXCEPT !.oid = line.oid, !.left = line.n, !.acc = e]
      ELSE LET acc == [s.acc EXCEPT !.rules = @ \cup IF line.k = "finding" THEN {line.rule} ELSE {},
                                    !.whole = @ /\ line.whole /\ line.k = "finding"]
           IN IF s.left > 1 THEN [s EXCEPT !.acc = acc, !.left = @ - 1]
              ELSE [s EXCEPT !.left = 0, !.entries = (s.oid :> acc) @@ @],
    [oid |-> Nothing, left |-> 0, acc |-> Nothing, entries |-> <<>>], lines).entries

\* Mutant: the rules of a cache are not asked for.
LoadAnyVersion(req) == IF ~req.cache \/ cacheFile = <<>> THEN <<>> ELSE Parse(Tail(cacheFile))

Load(req) ==
  IF ~req.cache \/ cacheFile = <<>> THEN <<>>
  ELSE IF Head(cacheFile) # VersionLine(VersionTag(req.rules)) THEN <<>>
  ELSE Parse(Tail(cacheFile))

(***************************************************************************)
(* A scan begins: arguments, scope, detector, cache.                       *)
(***************************************************************************)

Idle == [stage |-> "idle"]

Begins(req) ==
  [stage |-> "scan", req |-> req, hidden |-> Hidden(req),
   list |-> List(req.rev),
   frames |-> IF req.rev[1] = "dir" THEN <<Dirs[req.rev[2]]>> ELSE <<>>,
   next |-> 1, total |-> 0, said |-> {}, entries |-> Load(req), dirty |-> FALSE,
   at |-> [w \in Workers |-> 0],   \* the blob a worker holds
   hits |-> <<>>,                  \* [at, rules] as they are found
   exit |-> 0]

Exits(req, code, said) ==
  [stage |-> "done", req |-> req, said |-> said, hits |-> <<>>, exit |-> code]

\* A gate that cannot read its scope lets the command pass, and says so.
GateAnswer(req) ==
  IF Unresolved(req.rev) THEN Exits(req, 0, {"skipped"}) ELSE Begins(req)

CommandAnswer(req) ==
  IF req.cmd = "bad" THEN Exits(req, 2, {"usage"})
  ELSE IF Unresolved(req.rev) THEN Exits(req, IF req.cmd = "staged" THEN 3 ELSE 2, {"usage"})
  ELSE IF req.baseline /\ Len(baselineFile) # 1 THEN Exits(req, 2, {"baseline"})
  ELSE Begins(req)

\* A directory that cannot be listed ends the scan of it and of those it is in.
Unlisted(req) == Exits(req, 3, {"unlisted"})

Answers(req) ==
  IF req.cmd \in Gates THEN {GateAnswer(req)}
  ELSE {CommandAnswer(req)}
       \cup {Unlisted(r) : r \in {x \in {req} : CommandAnswer(x).stage = "scan" /\ x.rev[1] = "dir"}}

Begin(p) ==
  /\ scan[p].stage = "idle" /\ asked < MaxScans
  /\ asked' = asked + 1
  /\ \E req \in Requests : \E s \in Answers(req) : scan' = [scan EXCEPT ![p] = s]
  /\ UNCHANGED <<cacheFile, baselineFile, hook>>

Parallel(s) ==
  /\ s.req.jobs /\ ~s.req.cache
  /\ s.req.cmd \notin Gates /\ s.req.rev[1] \notin {"index", "dir"}   \* scan_intros

Sets(p, s) == scan' = [scan EXCEPT ![p] = s] /\ UNCHANGED <<cacheFile, baselineFile, asked, hook>>

Hit(i, rules) == IF rules = {} THEN <<>> ELSE <<[at |-> i, rules |-> rules]>>

(***************************************************************************)
(* One blob after another: scan_intros, scan_staged, and scan.rs.          *)
(***************************************************************************)

Remembers(s, b, rules) ==
  IF s.req.cache
  THEN LET e == [rules |-> rules, view |-> View(s.req, s.hidden, b), whole |-> TRUE]
       IN [s EXCEPT !.entries = (b.oid :> e) @@ @, !.dirty = TRUE]
  ELSE s

Outcome(s, b) ==
  LET class == Content[b.oid].class
  IN CASE b.oid \in DOMAIN s.entries -> "cached"
       [] b.oid \notin DOMAIN s.entries /\ class = "lost" -> "lost"
       [] b.oid \notin DOMAIN s.entries /\ class \in {"big", "binary"} -> "skipped"
       [] b.oid \notin DOMAIN s.entries /\ class = "text" ->
            IF s.total + Content[b.oid].size > s.req.cap THEN "over" ELSE "scanned"

ScanNext(p) ==
  LET s == scan[p] IN
  /\ s.stage = "scan" /\ ~Parallel(s) /\ s.frames = <<>> /\ s.next <= Len(s.list)
  /\ LET b == s.list[s.next]
         on == [s EXCEPT !.next = @ + 1]
         total == s.total + Content[b.oid].size
         rules == Detect(s.req, s.hidden, b)
         is == Outcome(s, b)
     IN Sets(p,
          CASE is = "cached" -> [on EXCEPT !.hits = @ \o Hit(s.next, s.entries[b.oid].rules)]
            [] is = "lost" -> [on EXCEPT !.said = @ \cup {"skipped"}]
            [] is = "skipped" -> on
            [] is = "over" -> [s EXCEPT !.next = Len(s.list) + 1, !.said = @ \cup {"truncated"}]
            [] is = "scanned" ->
                 Remembers([on EXCEPT !.total = total, !.hits = @ \o Hit(s.next, rules)], b, rules))

(***************************************************************************)
(* scan_intros_parallel: a shared cursor and a shared total.               *)
(***************************************************************************)

Claim(p, w) ==
  LET s == scan[p] IN
  /\ s.stage = "scan" /\ Parallel(s) /\ s.at[w] = 0
  /\ Sets(p, [s EXCEPT !.next = @ + 1,
                       !.at[w] = IF s.next > Len(s.list) \/ s.total > s.req.cap
                                 THEN -1 ELSE s.next])

ReadsClaimed(p, w) ==
  LET s == scan[p] IN
  /\ s.stage = "scan" /\ Parallel(s) /\ s.at[w] \in DOMAIN s.list
  /\ LET c == Content[s.list[s.at[w]].oid]
     IN Sets(p, IF c.class = "text"
                THEN [s EXCEPT !.total = @ + c.size, !.at[w] = @ + Len(s.list)]
                ELSE [s EXCEPT !.at[w] = 0])

Records(p, w) ==
  LET s == scan[p] IN
  /\ s.stage = "scan" /\ Parallel(s) /\ s.at[w] > Len(s.list)
  /\ LET i == s.at[w] - Len(s.list)
     IN Sets(p, [s EXCEPT !.at[w] = 0,
                          !.hits = @ \o Hit(i, Detect(s.req, s.hidden, s.list[i]))])

(***************************************************************************)
(* walk_files: a directory at a time, entries in any order.  A budget that *)
(* is spent ends the directory at hand, and the others go on.              *)
(***************************************************************************)

Stat(req, entry) ==
  CASE entry.kind = "link to dir" -> IF req.links THEN "dir" ELSE "skip"
    [] entry.kind = "link to file" -> IF req.links THEN "file" ELSE "skip"
    [] entry.kind = ".git" -> "skip"
    [] OTHER -> entry.kind

WalkEntry(p) ==
  LET s == scan[p] IN
  /\ s.stage = "scan" /\ s.frames # <<>>
  /\ IF Head(s.frames) = {} THEN Sets(p, [s EXCEPT !.frames = Tail(@)])
     ELSE \E entry \in Head(s.frames) :
       LET on == [s EXCEPT !.frames[1] = @ \ {entry}]
           kind == Stat(s.req, entry)
           b == entry.to
       IN Sets(p,
            CASE kind = "dir" /\ Len(s.frames) > MaxWalkDepth ->
                   [on EXCEPT !.said = @ \cup {"truncated"}]
              [] kind = "dir" /\ Len(s.frames) <= MaxWalkDepth ->
                   [on EXCEPT !.frames = <<Dirs[entry.to]>> \o @]
              [] kind = "file" /\ Content[b.oid].class = "text" ->
                   LET total == s.total + Content[b.oid].size
                   IN IF total > s.req.cap
                      THEN [s EXCEPT !.total = total, !.frames = Tail(@),
                                     !.said = @ \cup {"truncated"}]
                      ELSE [on EXCEPT !.total = total,
                              !.hits = @ \o Hit(b.path, Detect(s.req, s.hidden, b))]
              [] OTHER -> on)

WalkFails(p) ==
  LET s == scan[p] IN
  /\ s.stage = "scan" /\ s.frames # <<>> /\ Len(s.frames) <= MaxWalkDepth
  /\ \E entry \in Head(s.frames) : Stat(s.req, entry) = "dir"
  /\ Sets(p, Unlisted(s.req))

(***************************************************************************)
(* The end of a scan: save the cache, report, exit.                        *)
(***************************************************************************)

Over(s) ==
  /\ s.stage = "scan" /\ s.frames = <<>>
  /\ IF Parallel(s) THEN \A w \in Workers : s.at[w] = -1 ELSE s.next > Len(s.list)

\* What was found in the blob at i.
FoundAt(hits, i) ==
  FlattenSeq([j \in DOMAIN hits |-> IF hits[j].at = i THEN <<hits[j]>> ELSE <<>>])

\* Mutant: the order in which the workers finished.
SortedByLuck(s) == s.hits

\* A stable sort on the index puts what was found in the first blob first.
Sorted(s) ==
  IF Parallel(s) THEN FlattenSeq([i \in DOMAIN s.list |-> FoundAt(s.hits, i)]) ELSE s.hits

PathOf(list, h) == IF list = <<>> THEN h.at ELSE list[h.at].path

\* A trace reports the one finding asked for.
OfTraced(list, hits) == SelectSeq(hits, LAMBDA h : PathOf(list, h) = Traced)
Matches(s) == IF s.req.cmd = "trace" THEN OfTraced(s.list, Sorted(s)) ELSE Sorted(s)

EndScan(p) ==
  LET s == scan[p] IN
  /\ Over(s)
  /\ Sets(p, [s EXCEPT !.hits = Matches(s),
                !.stage = IF s.req.cache /\ s.dirty THEN "save" ELSE "report"])

\* std::fs::write truncates first; a file that cannot be opened is left as it is.
SaveBegins(p) ==
  LET s == scan[p] IN
  /\ s.stage = "save"
  /\ \/ cacheFile' = <<>> /\ scan' = [scan EXCEPT ![p].stage = "write"]
     \/ UNCHANGED cacheFile /\ scan' = [scan EXCEPT ![p].stage = "report"]
  /\ UNCHANGED <<baselineFile, asked, hook>>

\* What it wrote when it is through, or when the disk is full.
SaveEnds(p) ==
  LET s == scan[p] IN
  /\ s.stage = "write"
  /\ \/ UNCHANGED cacheFile
     \/ \E text \in Text(s.req, s.entries) : \E cut \in Cuts(text), rest \in LeftOver(cacheFile) :
          cacheFile' = cut \o rest
  /\ scan' = [scan EXCEPT ![p].stage = "report"]
  /\ UNCHANGED <<baselineFile, asked, hook>>

Recorded(s) ==
  UNION {{[path |-> PathOf(s.list, h), rule |-> r] : r \in h.rules} : h \in Range(s.hits)}

\* `baseline create` writes the report of its scan; the file is created first.
BaselineBegins(p) ==
  LET s == scan[p] IN
  /\ s.stage = "report" /\ s.req.cmd = "baseline"
  /\ baselineFile' = <<"torn", "torn">> /\ scan' = [scan EXCEPT ![p].stage = "baseline"]
  /\ UNCHANGED <<cacheFile, asked, hook>>

BaselineEnds(p) ==
  LET s == scan[p] IN
  /\ s.stage = "baseline"
  /\ baselineFile' = <<Recorded(s)>>
  /\ scan' = [scan EXCEPT ![p] = [s EXCEPT !.stage = "done"]]
  /\ UNCHANGED <<cacheFile, asked, hook>>

\* --exit-code is 1 here; a gate answers Clean or Findings.
Finish(p) ==
  LET s == scan[p] IN
  /\ s.stage = "report" /\ s.req.cmd # "baseline"
  /\ Sets(p, [s EXCEPT !.stage = "done", !.exit = IF s.hits = <<>> THEN 0 ELSE 1])

\* The process is killed, or it ends and its terminal is free again.
Dies(p) == scan[p].stage \notin {"idle", "done"} /\ Sets(p, Idle)
Again(p) == scan[p].stage = "done" /\ asked < MaxScans /\ Sets(p, Idle)

(***************************************************************************)
(* gitc scan hooks install | uninstall, one at a time, and the user.       *)
(***************************************************************************)

HookSets(h) == hook' = h /\ UNCHANGED <<cacheFile, baselineFile, scan, asked>>
HookIdle == hook.at = "idle" /\ hook.ops < MaxHookOps
Op(at) == [hook EXCEPT !.at = at, !.ops = @ + 1]

Backed(h) == [h EXCEPT !.pre = Nothing, !.backup = hook.pre]

\* Mutant: whatever is there is backed up, a managed hook too.
InstallsOverAnything ==
  HookIdle /\ HookSets(IF hook.pre = Nothing THEN Op("write") ELSE Backed(Op("write")))

\* What is there is backed up unless it is read and has the marker.
Installs ==
  /\ HookIdle
  /\ \/ hook.pre \in {Nothing, Managed} /\ HookSets(Op("write"))
     \/ hook.pre \notin {Nothing, Managed, Cut} /\ HookSets(Backed(Op("write")))
     \/ hook.pre = Managed /\ HookSets([Backed(Op("write")) EXCEPT !.past = @ \cup {"unread"}])
     \/ hook.pre = Cut /\ HookSets([Backed(Op("write")) EXCEPT !.past = @ \cup {"again"}])

\* std::fs::write truncates first.
InstallTruncates == hook.at = "write" /\ HookSets([hook EXCEPT !.pre = Cut, !.at = "fill"])
InstallWrites == hook.at = "fill" /\ HookSets([hook EXCEPT !.pre = Managed, !.at = "idle"])

Uninstalls ==
  /\ HookIdle /\ hook.pre = Managed
  /\ HookSets([Op("restore") EXCEPT !.pre = Nothing])

UninstallRestores ==
  /\ hook.at = "restore"
  /\ HookSets(IF hook.backup = Nothing THEN [hook EXCEPT !.at = "idle"]
              ELSE [hook EXCEPT !.pre = hook.backup, !.backup = Nothing, !.at = "idle"])

\* It is killed, or its next call fails and it says so.
HookCommandDies == hook.at # "idle" /\ HookSets([hook EXCEPT !.at = "idle"])

UserWritesHook ==
  /\ HookIdle
  /\ \E h \in UserHooks : HookSets([Op("idle") EXCEPT !.pre = h, !.last = h, !.past = {}])

UserDeletesHook ==
  /\ HookIdle /\ hook.pre # Nothing
  /\ HookSets([Op("idle") EXCEPT !.pre = Nothing,
                                 !.last = IF hook.pre \in {Managed, Cut} THEN @ ELSE Nothing])

HookStep ==
  \/ Installs \/ InstallTruncates \/ InstallWrites \/ Uninstalls \/ UninstallRestores
  \/ HookCommandDies \/ UserWritesHook \/ UserDeletesHook

ScanStep(p) ==
  \/ Begin(p) \/ ScanNext(p) \/ WalkEntry(p) \/ WalkFails(p) \/ EndScan(p)
  \/ \E w \in Workers : Claim(p, w) \/ ReadsClaimed(p, w) \/ Records(p, w)
  \/ SaveBegins(p) \/ SaveEnds(p) \/ BaselineBegins(p) \/ BaselineEnds(p)
  \/ Finish(p) \/ Dies(p) \/ Again(p)

Init ==
  /\ cacheFile = <<>> /\ baselineFile = <<>>
  /\ scan = [p \in Procs |-> Idle] /\ asked = 0
  /\ hook = [pre |-> Nothing, backup |-> Nothing, last |-> Nothing, past |-> {},
             at |-> "idle", ops |-> 0]

Next == (\E p \in Procs : ScanStep(p)) \/ HookStep

(***************************************************************************)
(* Properties.                                                             *)
(***************************************************************************)

\* What a scan of each readable blob of a list, in order, reports.
Fresh(req, hidden, list) ==
  LET all == FlattenSeq([i \in DOMAIN list |->
               IF Content[list[i].oid].class = "text"
               THEN Hit(i, Detect(req, hidden, list[i])) ELSE <<>>])
  IN IF req.cmd = "trace" THEN OfTraced(list, all) ELSE all

\* Files at most MaxWalkDepth directories below dir.
FilesUnder(req, dir) ==
  LET dirs[n \in 0..MaxWalkDepth] ==
        IF n = 0 THEN {dir}
        ELSE {e.to : e \in {x \in UNION {Dirs[d] : d \in dirs[n - 1]} : Stat(req, x) = "dir"}}
  IN {e.to : e \in {x \in UNION {Dirs[d] : d \in UNION {dirs[n] : n \in 0..MaxWalkDepth}} :
                      Stat(req, x) = "file"}}

Reporting(s) == s.stage \in {"save", "write", "report", "baseline"}

\* scancmd.rs:437-442, 480-482: whatever the threads do, a scan within its budget reports
\* each finding of each blob it can read, in the order of the walk.
ReportIsWhole ==
  \A p \in Procs : LET s == scan[p] IN
    (Reporting(s) /\ ~s.req.cache /\ "truncated" \notin s.said /\ s.total <= s.req.cap) =>
      IF s.req.rev[1] = "dir"
      THEN {[path |-> h.at, rules |-> h.rules] : h \in Range(s.hits)} =
             {[path |-> b.path, rules |-> Detect(s.req, s.hidden, b)] :
                b \in {f \in FilesUnder(s.req, s.req.rev[2]) :
                         Content[f.oid].class = "text" /\ Detect(s.req, s.hidden, f) # {}}}
      ELSE s.hits = Fresh(s.req, s.hidden, s.list)

\* Entries a scan cannot tell from its own: what two writes or a cut made of them, and those
\* of another view under as many rules.
Mistaken(s, b) ==
  /\ b.oid \in DOMAIN s.entries
  /\ LET e == s.entries[b.oid]
     IN \/ ~e.whole
        \/ e.view # View(s.req, s.hidden, b) /\ VersionTag(e.view.rules) = VersionTag(s.req.rules)

\* scancmd.rs:528-532: a scan with --cache reports, of each blob, what a scan without it
\* would, whoever wrote the cache, but for entries that a write cut short or two at once
\* left (662), and for those another catalogue of as many rules, another confidence,
\* another suppression of that path or another path of that blob gave rise to (571-574):
\* no other entry is ever taken over.
CacheAgrees ==
  \A p \in Procs : LET s == scan[p] IN
    (Reporting(s) /\ s.req.cache /\ "truncated" \notin s.said) =>
      \A i \in DOMAIN s.list :
        Mistaken(s, s.list[i]) \/ FoundAt(s.hits, i) = FoundAt(Fresh(s.req, s.hidden, s.list), i)

\* scancmd.rs:1176: a hook the user wrote is in place or in the backup, through installs
\* and uninstalls that die or fail at any call, unless an install met a managed hook it
\* could not read (1184) or one that an install before it left cut short (1191).
LatestHookKept ==
  hook.last # Nothing => hook.last \in {hook.pre, hook.backup} \/ hook.past # {}
=============================================================================
