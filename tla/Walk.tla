-------------------------------- MODULE Walk --------------------------------
(***************************************************************************)
(* The walks of gitwalk.rs over refs, commits and trees: what a push would *)
(* send (`pushed_blobs`), what history holds and since which commit        *)
(* (`reachable_blob_intros`), and how many signatures a rewrite would      *)
(* break (`count_signed`).  Each object is read as in Objects, while       *)
(* `git gc` packs refs and objects and branches move.                      *)
(***************************************************************************)
EXTENDS Objects, Sequences, SequencesExt

CONSTANTS
  Parents,      \* of a commit, in order
  Date,         \* committer date of a commit
  OidOrder,     \* the order of object ids, as numbers
  RootTree,     \* of a commit
  Items,        \* of a tree: entries in order, [mode, oid]
  Signed,       \* commits and tags with a signature
  RefNames,     \* ref names
  HeadRef,      \* the branch HEAD names
  Tags,         \* the refs under refs/tags
  RefsAtStart,  \* [loose, packed]: what refs name, each a function from some of RefNames
  MovesTo,      \* MovesTo[r]: what r, if it is there, may be moved to while the walk runs
  Jobs,         \* the walks asked for: [mode, stop, max]
  NoRef         \* no tracking ref to stop at

\* A job names its caps: MAX_NEW_COMMITS or MAX_HISTORY_COMMITS, MAX_REMOTE_COMMITS or
\* MAX_HISTORY_COMMITS, MAX_BLOBS, MAX_HISTORY_BLOBS, MAX_TREE_DEPTH.
Caps == {"commits", "stops", "blobs", "intros", "depth"}

Commits == {o \in Oids : Kind[o] = "commit"}
Trees == {o \in Oids : Kind[o] = "tree"}
Blobs == {o \in Oids : Kind[o] = "blob"}

Modes == {"push", "head", "all", "signed"}

EntryKind(mode) == CASE mode \in {"file", "exec"} -> "blob"
                     [] mode = "dir" -> "tree"
                     [] OTHER -> "skip"

\* git writes no tree whose entries say one kind and name another, and moves no ref
\* that is not there.
ASSUME WalkAssumption ==
  /\ Parents \in [Commits -> Seq(Commits)] /\ Date \in [Commits -> Nat]
  /\ OidOrder \in [Commits -> Nat]
  /\ RootTree \in [Commits -> Trees]
  /\ Items \in [Trees -> Seq([mode : {"file", "exec", "dir", "symlink", "gitlink"}, oid : Oids])]
  /\ \A t \in Trees : \A i \in Range(Items[t]) : EntryKind(i.mode) \in {"skip", Kind[i.oid]}
  /\ \A f \in {RefsAtStart.loose, RefsAtStart.packed, MovesTo} :
       DOMAIN f \subseteq RefNames /\ f \in [DOMAIN f -> Oids]
  /\ DOMAIN MovesTo \subseteq DOMAIN RefsAtStart.loose \cup DOMAIN RefsAtStart.packed
  /\ HeadRef \in RefNames /\ Tags \subseteq RefNames /\ NoRef \notin RefNames
  /\ \A j \in Jobs : /\ j.mode \in Modes /\ j.stop \in RefNames \cup {NoRef}
                     /\ j.max \in [Caps -> Nat]

VARIABLES
  looseRef, packedRef,   \* refs on disk
  job,                   \* the walk asked for
  walk                   \* its local state, see WalkInit

walkVars == <<store, read, disturbed, looseRef, packedRef, job, walk>>

AsksFor(j) == IF j.mode \in {"push", "head"} THEN {HeadRef} ELSE RefNames

WalkInit ==
  /\ ObjectsInit
  /\ looseRef = RefsAtStart.loose /\ packedRef = RefsAtStart.packed
  /\ job \in Jobs
  /\ walk = [stage |-> "tips",
             unread |-> AsksFor(job),  \* refs whose loose file is still to be looked at
             got |-> {},               \* what the refs of this stage gave so far
             tips |-> {},              \* where the walk begins
             queue |-> <<>>,
             outside |-> {},           \* remote_set, excluded
             seen |-> {},
             commits |-> <<>>,         \* commits read
             frames |-> <<>>,          \* trees being walked: the entries left of each
             pending |-> <<>>,         \* the tree to enter next, if any
             here |-> <<>>,            \* the commit whose tree is walked, if any
             from |-> 0,               \* how many blobs there were before it
             blobs |-> <<>>,           \* what was found: [oid, commit]
             seenTrees |-> {},
             tags |-> {},              \* signed tags
             truncated |-> FALSE,
             missed |-> {}]            \* objects a read has missed

Disk == UNCHANGED <<store, looseRef, packedRef, job>>
NoRead == UNCHANGED <<read, disturbed>>
Fetches(o) == StartRead(o)
InStage(stage) == walk.stage = stage
Ready == read.at = "idle"
Answered == read.at = "done"
Handled == read' = Idle(read.oid) /\ UNCHANGED disturbed
Missed == walk.missed \cup IF read.found THEN {} ELSE {read.oid}
Push == job.mode = "push"

(***************************************************************************)
(* Refs: each loose file first, then packed-refs.                          *)
(***************************************************************************)

LooseTip(r) ==
  /\ walk.stage \in {"tips", "stopref", "tagrefs"} /\ r \in walk.unread
  /\ walk' = [walk EXCEPT !.unread = @ \ {r},
                          !.got = @ \cup {looseRef[q] : q \in {r} \cap DOMAIN looseRef}]
  /\ Disk /\ NoRead

\* resolve_ref reads packed-refs only for a ref without a loose file; all_ref_tips
\* and count_signed add everything it names.
WithPacked(names, single) ==
  IF single /\ walk.got # {} THEN walk.got
  ELSE walk.got \cup {packedRef[r] : r \in names \cap DOMAIN packedRef}

PackedTips ==
  /\ InStage("tips") /\ walk.unread = {}
  /\ LET found == WithPacked(AsksFor(job), job.mode \in {"push", "head"})
     IN walk' = [walk EXCEPT !.tips = found, !.got = {},
                   !.stage = IF found = {} THEN "done" ELSE "stopref",
                   !.unread = IF found = {} THEN {} ELSE {job.stop} \ {NoRef}]
  /\ Disk /\ NoRead

\* The order of a HashSet.
PackedStop ==
  /\ InStage("stopref") /\ walk.unread = {}
  /\ \E order \in SetToSeqs(WithPacked({job.stop}, TRUE)) :
       walk' = [walk EXCEPT !.got = {}, !.stage = "stop", !.queue = order]
  /\ Disk /\ NoRead

(***************************************************************************)
(* collect_commits: what the other side has.                               *)
(***************************************************************************)

StopNext ==
  /\ InStage("stop") /\ Ready /\ walk.queue # <<>>
  /\ LET c == Head(walk.queue)
     IN IF Cardinality(walk.outside) >= job.max.stops
        THEN walk' = [walk EXCEPT !.queue = <<>>] /\ NoRead
        ELSE /\ walk' = [walk EXCEPT !.queue = Tail(@), !.outside = @ \cup {c}]
             /\ IF c \in walk.outside THEN NoRead ELSE Fetches(c)
  /\ Disk

StopGot ==
  /\ InStage("stop") /\ Answered
  /\ walk' = [walk EXCEPT !.missed = Missed,
                !.queue = @ \o IF ReadAs("commit") THEN Parents[read.oid] ELSE <<>>]
  /\ Handled /\ Disk

StopEnd ==
  /\ InStage("stop") /\ Ready /\ walk.queue = <<>>
  /\ \E order \in SetToSeqs(walk.tips) :
       walk' = [walk EXCEPT !.stage = "commits", !.queue = order]
  /\ Disk /\ NoRead

(***************************************************************************)
(* Commits, breadth first.  The push walks each tree at once and queues    *)
(* the parents after it; history collects all commits and sorts them.      *)
(***************************************************************************)

CommitNext ==
  /\ InStage("commits") /\ Ready /\ walk.here = <<>> /\ walk.queue # <<>>
  /\ LET c == Head(walk.queue)
         cap == IF job.mode = "signed" THEN Cardinality(walk.seen) + 1 > job.max.commits
                ELSE IF Push THEN Cardinality(walk.seen) >= job.max.commits
                ELSE Len(walk.commits) >= job.max.commits
     IN IF c \in walk.outside \cup walk.seen
        THEN walk' = [walk EXCEPT !.queue = Tail(@)] /\ NoRead
        ELSE IF cap
        THEN /\ walk' = [walk EXCEPT !.queue = <<>>, !.truncated = job.mode # "signed"]
             /\ NoRead
        ELSE /\ walk' = [walk EXCEPT !.queue = Tail(@), !.seen = @ \cup {c}]
             /\ Fetches(c)
  /\ Disk

NewParents(c, known) ==
  LET new[n \in 0 .. Len(Parents[c])] ==
        IF n = 0 THEN <<>>
        ELSE IF Parents[c][n] \in known THEN new[n - 1] ELSE Append(new[n - 1], Parents[c][n])
  IN new[Len(Parents[c])]

CommitGot ==
  /\ InStage("commits") /\ Answered /\ walk.here = <<>>
  /\ LET c == read.oid
         ok == ReadAs("commit")
     IN /\ walk' = [walk EXCEPT
              !.missed = Missed,
              !.commits = IF ok THEN Append(@, c) ELSE @,
              !.queue = IF ok /\ ~Push
                        THEN @ \o NewParents(c, IF job.mode = "signed" THEN {}
                                                ELSE walk.outside \cup walk.seen)
                        ELSE @,
              !.here = IF ok /\ Push THEN <<c>> ELSE @,
              !.pending = IF ok /\ Push THEN <<RootTree[c]>> ELSE @]
        /\ Handled
  /\ Disk

TreeOver == walk.here # <<>> /\ walk.pending = <<>> /\ walk.frames = <<>> /\ Ready

\* The cap on blobs ends the push walk whether or not anything was cut off.
PushTreeEnd ==
  /\ InStage("commits") /\ TreeOver
  /\ walk' = [walk EXCEPT !.here = <<>>,
                !.queue = IF Len(walk.blobs) >= job.max.blobs THEN <<>>
                          ELSE @ \o NewParents(walk.here[1], walk.outside)]
  /\ Disk /\ NoRead

\* Mutant: newest first.
Newer(c, d) == Date[c] >= Date[d]

Older(c, d) == Date[c] < Date[d] \/ (Date[c] = Date[d] /\ OidOrder[c] <= OidOrder[d])

CommitsEnd ==
  /\ InStage("commits") /\ Ready /\ walk.here = <<>> /\ walk.queue = <<>>
  /\ \E order \in SetToSeqs(Range(walk.commits)) :
       /\ \A i, j \in DOMAIN order : i < j => Older(order[i], order[j])
       /\ walk' = [walk EXCEPT
            !.stage = CASE Push -> "done" [] job.mode = "signed" -> "tagrefs" [] OTHER -> "trees",
            !.unread = IF job.mode = "signed" THEN Tags ELSE {},
            !.commits = order]
  /\ Disk /\ NoRead

\* Oldest commit first: the first tree that has a blob introduces it.
IntroNext ==
  /\ InStage("trees") /\ Ready /\ walk.here = <<>>
  /\ IF walk.commits = <<>> \/ Len(walk.blobs) >= job.max.intros
     THEN walk' = [walk EXCEPT !.stage = "done",
                     !.truncated = @ \/ walk.commits # <<>>, !.commits = <<>>]
     ELSE LET c == Head(walk.commits)
          IN walk' = [walk EXCEPT !.commits = Tail(@), !.here = <<c>>,
                        !.from = Len(walk.blobs), !.pending = <<RootTree[c]>>]
  /\ Disk /\ NoRead

IntroTreeEnd ==
  /\ InStage("trees") /\ TreeOver
  /\ walk' = [walk EXCEPT !.here = <<>>]
  /\ Disk /\ NoRead

(***************************************************************************)
(* collect_tree_blobs.  `frames` is its recursion; a return on the cap     *)
(* leaves one call, and the caller goes on with its next entry.            *)
(***************************************************************************)

Full == Len(walk.blobs) - walk.from >= job.max.blobs

\* Mutant: a tree that is too deep is left out without a word.
EnterTreeQuietly ==
  /\ walk.pending # <<>> /\ Ready
  /\ LET t == walk.pending[1]
     IN IF Len(walk.frames) > job.max.depth \/ Full \/ t \in walk.seenTrees
        THEN walk' = [walk EXCEPT !.pending = <<>>] /\ NoRead
        ELSE walk' = [walk EXCEPT !.seenTrees = @ \cup {t}] /\ Fetches(t)
  /\ Disk

EnterTree ==
  /\ walk.pending # <<>> /\ Ready
  /\ LET t == walk.pending[1]
     IN IF Len(walk.frames) > job.max.depth \/ Full
        THEN walk' = [walk EXCEPT !.pending = <<>>, !.truncated = TRUE] /\ NoRead
        ELSE IF t \in walk.seenTrees
        THEN walk' = [walk EXCEPT !.pending = <<>>] /\ NoRead
        ELSE walk' = [walk EXCEPT !.seenTrees = @ \cup {t}] /\ Fetches(t)
  /\ Disk

TreeGot ==
  /\ walk.pending # <<>> /\ Answered
  /\ walk' = [walk EXCEPT !.pending = <<>>, !.missed = Missed,
                !.frames = IF ReadAs("tree") THEN <<Items[read.oid]>> \o @ ELSE @]
  /\ Handled /\ Disk

Found == {walk.blobs[i].oid : i \in DOMAIN walk.blobs}

TreeItem ==
  /\ walk.pending = <<>> /\ walk.frames # <<>>
  /\ LET left == Head(walk.frames)
         rest == <<Tail(left)>> \o Tail(walk.frames)
         item == Head(left)
         kind == EntryKind(item.mode)
     IN walk' =
          CASE left = <<>> -> [walk EXCEPT !.frames = Tail(@)]
            [] left # <<>> /\ kind = "skip" -> [walk EXCEPT !.frames = rest]
            [] left # <<>> /\ kind = "tree" ->
                 [walk EXCEPT !.frames = rest, !.pending = <<item.oid>>]
            [] left # <<>> /\ kind = "blob" /\ Full ->
                 [walk EXCEPT !.frames = Tail(@), !.truncated = TRUE]
            [] left # <<>> /\ kind = "blob" /\ ~Full ->
                 [walk EXCEPT !.frames = rest,
                    !.blobs = IF item.oid \in Found THEN @
                              ELSE Append(@, [oid |-> item.oid, commit |-> walk.here[1]])]
  /\ Disk /\ NoRead

(***************************************************************************)
(* count_signed: the tags, after the commits.                              *)
(***************************************************************************)

PackedTags ==
  /\ InStage("tagrefs") /\ walk.unread = {}
  /\ \E order \in SetToSeqs(WithPacked(Tags, FALSE)) :
       walk' = [walk EXCEPT !.stage = "tags", !.got = {}, !.queue = order]
  /\ Disk /\ NoRead

TagNext ==
  /\ InStage("tags") /\ Ready
  /\ IF walk.queue = <<>>
     THEN walk' = [walk EXCEPT !.stage = "done"] /\ NoRead
     ELSE walk' = [walk EXCEPT !.queue = Tail(@)] /\ Fetches(Head(walk.queue))
  /\ Disk

TagGot ==
  /\ InStage("tags") /\ Answered
  /\ walk' = [walk EXCEPT !.missed = Missed,
                !.tags = @ \cup IF ReadAs("tag") THEN {read.oid} \cap Signed ELSE {}]
  /\ Handled /\ Disk

SignedCommits == {walk.commits[i] : i \in DOMAIN walk.commits} \cap Signed

(***************************************************************************)
(* The repository meanwhile: `git pack-refs`, as gc runs it, and a branch  *)
(* that moves.                                                             *)
(***************************************************************************)

\* What each ref names: the loose file is the one that counts.
RefValues == [r \in DOMAIN looseRef \cup DOMAIN packedRef |->
                IF r \in DOMAIN looseRef THEN looseRef[r] ELSE packedRef[r]]

GcPacksRefs ==
  /\ packedRef # RefValues
  /\ packedRef' = RefValues
  /\ UNCHANGED <<store, read, disturbed, looseRef, job, walk>>

GcDropsLooseRef(r) ==
  /\ r \in DOMAIN looseRef \cap DOMAIN packedRef /\ looseRef[r] = packedRef[r]
  /\ looseRef' = [q \in DOMAIN looseRef \ {r} |-> looseRef[q]]
  /\ UNCHANGED <<store, read, disturbed, packedRef, job, walk>>

MovesRef(r) ==
  /\ r \in DOMAIN MovesTo /\ RefValues[r] # MovesTo[r]
  /\ looseRef' = [q \in DOMAIN looseRef \cup {r} |-> IF q = r THEN MovesTo[r] ELSE looseRef[q]]
  /\ UNCHANGED <<store, read, disturbed, packedRef, job, walk>>

Walker ==
  \/ \E r \in RefNames : LooseTip(r)
  \/ PackedTips \/ PackedStop \/ StopNext \/ StopGot \/ StopEnd
  \/ CommitNext \/ CommitGot \/ PushTreeEnd \/ CommitsEnd
  \/ IntroNext \/ IntroTreeEnd \/ EnterTree \/ TreeGot \/ TreeItem
  \/ PackedTags \/ TagNext \/ TagGot

WalkNext ==
  \/ Walker
  \/ Reading /\ UNCHANGED <<looseRef, packedRef, job, walk>>
  \/ GcStep /\ UNCHANGED <<looseRef, packedRef, job, walk>>
  \/ GcPacksRefs
  \/ \E r \in RefNames : GcDropsLooseRef(r) \/ MovesRef(r)

WalkSpec == WalkInit /\ [][WalkNext]_walkVars

(***************************************************************************)
(* Properties.                                                             *)
(***************************************************************************)

WalkTypeOK ==
  /\ ObjectsTypeOK
  /\ DOMAIN looseRef \subseteq RefNames /\ DOMAIN packedRef \subseteq RefNames
  /\ walk.stage \in {"tips", "stopref", "stop", "commits", "trees", "tagrefs", "tags", "done"}
  /\ walk.unread \subseteq RefNames
  /\ walk.tips \cup walk.outside \cup walk.seen \cup walk.missed \subseteq Oids
  /\ Len(walk.frames) <= job.max.depth + 1
  /\ Len(walk.blobs) - walk.from <= job.max.blobs
  /\ Found \subseteq Blobs /\ Cardinality(Found) = Len(walk.blobs)
  /\ Cardinality(walk.outside) <= job.max.stops

\* The commits reached from some objects without passing one of `walls`: the fewest that
\* hold the commits among them and the parents of what they hold.
Reach(starts, walls) ==
  {c \in Commits : \A S \in SUBSET Commits :
     /\ (starts \cap Commits) \ walls \subseteq S
     /\ \A d \in S : Range(Parents[d]) \ walls \subseteq S
     => c \in S}

\* What a tree names, of one kind.
Named(t, kind) == {i.oid : i \in {x \in Range(Items[t]) : EntryKind(x.mode) = kind}}

\* Likewise the trees below some trees, and the blobs in them.
Below(trees, walls) ==
  {t \in Trees : \A S \in SUBSET Trees :
     /\ trees \ walls \subseteq S
     /\ \A u \in S : Named(u, "tree") \ walls \subseteq S
     => t \in S}

Under(trees, walls) == UNION {Named(t, "blob") : t \in Below(trees, walls)}

\* What ref r has named while the walk ran.
Values(r) == {f[r] : f \in {g \in {RefsAtStart.loose, RefsAtStart.packed, MovesTo} :
                              r \in DOMAIN g}}

Done == walk.stage = "done"
Stops == IF job.stop = NoRef THEN {} ELSE Reach(Values(job.stop), {})
WalkScope == Reach(walk.tips, walk.missed) \ Stops

\* gitwalk.rs:10-18: what a finished walk leaves out is behind an object it could not
\* read, or it says that it was cut short.  (A push whose blobs fill the cap exactly
\* stops without saying so, gitwalk.rs:107, and is left to PROJECT.json's hazards.)
NothingSkippedSilently ==
  (Done /\ ~walk.truncated /\ job.mode # "signed" /\ ~(Push /\ Len(walk.blobs) >= job.max.blobs))
    => Under({RootTree[c] : c \in WalkScope}, walk.missed) \subseteq Found

SignedTags == {o \in Signed : Kind[o] = "tag"}

\* scrubcmd.rs:261, 824: before a rewrite the user is told of all signatures it breaks.
SignaturesCounted ==
  (Done /\ job.mode = "signed" /\ Cardinality(walk.seen) < job.max.commits)
    => /\ WalkScope \cap Signed \subseteq SignedCommits
       /\ \A r \in Tags : \/ Values(r) = {}
                        \/ Values(r) \cap (walk.tags \cup walk.missed \cup (Oids \ SignedTags)) # {}

\* What the tree of each commit holds.
Holds == [c \in Commits |-> Under({RootTree[c]}, {})]

\* gitwalk.rs:129-132, 195-203: each blob is attributed to a commit whose tree has it, and
\* no commit that was walked and whose tree has it has an earlier date.
IntroIsOldest ==
  (~Push /\ ~walk.truncated /\ walk.missed = {})
    => \A b \in Range(walk.blobs) :
         /\ b.commit \in walk.seen \cap Commits /\ b.oid \in Holds[b.commit]
         /\ \A c \in walk.seen \cap Commits : b.oid \in Holds[c] => Date[b.commit] <= Date[c]

\* gitwalk.rs:147-169, beside `git pack-refs` and a push into the repository: every ref
\* gives a value it has had, whichever of its two places it is in when it is looked at.
EveryRefIsATip ==
  walk.stage \notin {"tips"}
    => \A r \in AsksFor(job) : Values(r) = {} \/ Values(r) \cap walk.tips # {}

\* Whatever of history a walk does not show, it says so: a ref, an object, a signature, or
\* all that is under them.
WalkIsWhole ==
  WalkTypeOK /\ EveryRefIsATip /\ MissesAreExplained /\ NothingSkippedSilently /\ SignaturesCounted
=============================================================================
