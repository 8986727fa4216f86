------------------------------ MODULE FilterRepo ------------------------------
(* The history rewrite behind `gitc scrub` (src/src/filterrepo): git          *)
(* fast-export streams the history, one pump parses each record, filters it,  *)
(* prunes the commits that became empty and writes the rest to git            *)
(* fast-import, which moves the refs when it has read `done`.                 *)
(*                                                                            *)
(* Marks: the parser mints a mark per blob and per commit, in the order in    *)
(* which fast-export did, and records the renaming for a pruned commit too,   *)
(* so old and new marks of an object are one name: the commit's number in     *)
(* the stream.  Only what the flags of the pipeline make fast-export emit is  *)
(* read: no deleteall, copy or rename, and no refs/notes.                     *)
EXTENDS Naturals, SequencesExt

CONSTANTS
    Paths, Contents, Absent,
    Refs,       \* branches and lightweight tags
    Tags,       \* annotated tags
    Rewrites,   \* which history is rewritten, with which paths kept and how
                \* the content of blobs is redacted
    None

Tree == [Paths -> Contents \cup {Absent}]
EmptyTree == [p \in Paths |-> Absent]
Named == Refs \cup Tags

\* All the commits below each commit of a graph of parents.
Below(parents) ==
    LET below[c \in DOMAIN parents] ==
            UNION {{p} \cup below[p] : p \in ToSet(parents[c])}
    IN  below

(* A history as fast-export tells it: the commits, parents first; the ref     *)
(* each is exported under, which is the one of a child or, for a tip, its     *)
(* own; the refs that name a tip exported under another ref; the tags.        *)
Tips(h) == {c \in DOMAIN h.parents :
               \A d \in DOMAIN h.parents : h.name[d] = h.name[c] => d <= c}
IsHistory(h) ==
    LET commits == DOMAIN h.parents IN
    /\ h.parents \in Seq(Seq(commits)) /\ h.tree \in [commits -> Tree]
    /\ h.name \in [commits -> Refs]
    /\ \A c \in commits : ToSet(h.parents[c]) \subseteq 1..(c - 1)
    /\ \A c \in commits \ Tips(h) :
           \E d \in commits : c \in ToSet(h.parents[d]) /\ h.name[d] = h.name[c]
    /\ DOMAIN h.resets \subseteq Refs \ {h.name[c] : c \in commits}
    /\ ToSet(h.resets) \subseteq Tips(h)
    /\ DOMAIN h.tags \subseteq Tags /\ ToSet(h.tags) \subseteq commits

ASSUME FilterRepoAssumption ==
    /\ Absent \notin Contents /\ Refs \cap Tags = {} /\ None \notin Nat
    /\ \A w \in Rewrites :
           /\ w = [repo |-> w.repo, filter |-> w.filter] /\ IsHistory(w.repo)
           /\ w.filter \in [kept : SUBSET Paths, redact : [Contents -> Contents]]

VARIABLES
    repo, filter, \* what is rewritten, and how
    todo,     \* the records fast-export has still to write
    pruned,   \* pruned_to: pruned commits, each with its surviving ancestor
    latest,   \* latest_commit: the last commit seen on each ref
    made,     \* fast-import: the commits it has made
    tips,     \* fast-import: the refs it will move, and where
    import,   \* "reading", "died" or "done"
    refs,     \* the refs of the repository: in the old history or in the new
    result    \* of pipeline::run: None, "imported", "ok" or "failed"

vars == <<repo, filter, todo, pruned, latest, made, tips, import, refs, result>>

-----------------------------------------------------------------------------
(* The stream.                                                                *)

Record(kind, ref, at) == [kind |-> kind, ref |-> ref, at |-> at]

\* What fast-export writes: the commits, a root after a bare reset of its ref, then the refs
\* that share a commit and the tags, and `done`.
Stream(h) ==
    {Record("bare", h.name[c], c) : c \in {d \in DOMAIN h.parents : h.parents[d] = <<>>}}
    \cup {Record("commit", h.name[c], c) : c \in DOMAIN h.parents}
    \cup {Record("reset", r, h.resets[r]) : r \in DOMAIN h.resets}
    \cup {Record("tag", r, h.tags[r]) : r \in DOMAIN h.tags}
    \cup {Record("done", None, None)}

\* Where a record stands; refs and tags that share a place come in either order.
Place(record) ==
    LET commits == Len(repo.parents) IN
    CASE record.kind = "bare" -> 2 * record.at - 1
      [] record.kind = "commit" -> 2 * record.at
      [] record.kind \in {"reset", "tag"} -> 2 * commits + 1
      [] OTHER -> 2 * commits + 2

\* The tree a commit's file changes start from: that of its first parent.
Base(trees, parents) == IF parents = <<>> THEN EmptyTree ELSE trees[Head(parents)]

\* The file changes of a commit, as fast-export lists them.
FileChanges(h, c) ==
    LET base == Base(h.tree, h.parents[c])
    IN  [p \in {q \in Paths : h.tree[c][q] # base[q]} |-> h.tree[c][p]]

-----------------------------------------------------------------------------
(* The callbacks.                                                             *)

\* replace_blob_text: what the blob callback makes of a file's content.
Redacted(content) == IF content = Absent THEN Absent ELSE filter.redact[content]

\* Mutant: a deletion is not carried over.
FilterFilesLosesDeletions(changes) ==
    [p \in {q \in DOMAIN changes \cap filter.kept : changes[q] # Absent} |->
        Redacted(changes[p])]

\* filter_files: the changes at the paths that are kept.
FilterFiles(changes) ==
    [p \in DOMAIN changes \cap filter.kept |-> Redacted(changes[p])]

IsPruned(c) == c \in DOMAIN pruned

\* Mutant: the parent as it was.
ResolveNothing(c) == c

\* resolve: a parent, past the pruned commits; None if nothing survives.
Resolve(c) == IF IsPruned(c) THEN pruned[c] ELSE c

\* resolve_parents: a duplicate goes if pruning has made it one.
ResolveParents(parents) ==
    LET out[n \in 0..Len(parents)] ==
            IF n = 0 THEN <<>>
            ELSE IF \/ Resolve(parents[n]) = None
                    \/ IsPruned(parents[n]) /\ Resolve(parents[n]) \in ToSet(out[n - 1])
            THEN out[n - 1]
            ELSE Append(out[n - 1], Resolve(parents[n]))
    IN  out[Len(parents)]

\* should_prune, in the mode `scrub` uses, PruneMode::Auto.
ShouldPrune(original, changes, parents, resolved) ==
    /\ Len(resolved) < 2
    /\ DOMAIN changes = {}
    /\ \/ DOMAIN original # {}
       \/ Len(resolved) < Len(parents)
       \/ Len(parents) = 1 /\ IsPruned(parents[1])

-----------------------------------------------------------------------------
(* fast-import.                                                               *)

Apply(base, changes) ==
    [p \in Paths |-> IF p \in DOMAIN changes THEN changes[p] ELSE base[p]]

TreesMade == [c \in DOMAIN made |-> made[c].tree]

ImportCommit(c, ref, parents, changes) ==
    IF ToSet(parents) \subseteq DOMAIN made
      THEN /\ made' = [d \in DOMAIN made \cup {c} |->
                          IF d # c THEN made[d]
                          ELSE [parents |-> parents,
                                tree |-> Apply(Base(TreesMade, parents), changes)]]
           /\ tips' = [tips EXCEPT ![ref] = c]
           /\ UNCHANGED import
      ELSE import' = "died" /\ UNCHANGED <<made, tips>>

ImportReset(ref, c) ==
    IF c \in DOMAIN made
      THEN tips' = [tips EXCEPT ![ref] = c] /\ UNCHANGED import
      ELSE import' = "died" /\ UNCHANGED tips

-----------------------------------------------------------------------------
(* The pump: FastExportParser::run with the callbacks of the pipeline.        *)

Home(h) == \* where the refs are before the rewrite
    [r \in Named |->
        CASE r \in DOMAIN h.resets -> h.resets[r]
          [] r \in DOMAIN h.tags -> h.tags[r]
          [] \E c \in Tips(h) : h.name[c] = r -> CHOOSE c \in Tips(h) : h.name[c] = r
          [] OTHER -> None]

Init ==
    /\ \E w \in Rewrites : repo = w.repo /\ filter = w.filter
    /\ todo = Stream(repo)
    /\ pruned = <<>> /\ made = <<>>
    /\ latest = [r \in Refs |-> None]
    /\ tips = [r \in Named |-> None]
    /\ import = "reading"
    /\ refs = [r \in Named |-> [new |-> FALSE, at |-> Home(repo)[r]]]
    /\ result = None

Reads(kind, record) ==
    /\ result = None /\ import = "reading"
    /\ record.kind = kind /\ \A other \in todo : Place(record) <= Place(other)
    /\ todo' = todo \ {record}

\* Mutant: what was seen of the ref is not forgotten.
ParseBareResetRemembers ==
    /\ \E record \in todo : Reads("bare", record)
    /\ UNCHANGED <<repo, filter, pruned, latest, made, tips, import, refs, result>>

\* A reset without a commit is dropped, and what was seen of the ref forgotten.
ParseBareReset ==
    /\ \E record \in todo :
          Reads("bare", record) /\ latest' = [latest EXCEPT ![record.ref] = None]
    /\ UNCHANGED <<repo, filter, pruned, made, tips, import, refs, result>>

ParseReset ==
    /\ \E record \in todo :
          /\ Reads("reset", record)
          /\ latest' = [latest EXCEPT ![record.ref] = record.at]
          /\ ImportReset(record.ref, record.at)
    /\ UNCHANGED <<repo, filter, pruned, made, refs, result>>

ParseTag ==
    /\ \E record \in todo : Reads("tag", record) /\ ImportReset(record.ref, record.at)
    /\ UNCHANGED <<repo, filter, pruned, latest, made, refs, result>>

\* The parents a commit names, or the one fast-import would supply.
Parents(c) ==
    LET last == latest[repo.name[c]] IN
    IF repo.parents[c] = <<>> /\ last # None THEN <<last>> ELSE repo.parents[c]

Prune(c, resolved) ==
    /\ pruned' = [d \in DOMAIN pruned \cup {c} |->
                     IF d # c THEN pruned[d]
                     ELSE IF resolved = <<>> THEN None ELSE Head(resolved)]
    /\ UNCHANGED <<latest, made, tips, import>>

Keep(c, resolved, changes) ==
    /\ latest' = [latest EXCEPT ![repo.name[c]] = c]
    /\ ImportCommit(c, repo.name[c], resolved, changes)
    /\ UNCHANGED pruned

Commit(c) ==
    LET original == FileChanges(repo, c)
        changes  == FilterFiles(original)
        resolved == ResolveParents(Parents(c))
    IN  IF ShouldPrune(original, changes, Parents(c), resolved)
          THEN Prune(c, resolved)
          ELSE Keep(c, resolved, changes)

ParseCommit ==
    /\ \E record \in todo : Reads("commit", record) /\ Commit(record.at)
    /\ UNCHANGED <<repo, filter, refs, result>>

\* `done` reaches fast-import, which moves each ref; a ref may not let itself
\* be moved, and then fast-import fails after it has tried the others.
ParseDone ==
    /\ \E record \in todo : Reads("done", record)
    /\ \E stuck \in SUBSET {r \in Named : tips[r] # None} :
        /\ refs' = [r \in Named |-> IF tips[r] = None \/ r \in stuck THEN refs[r]
                                    ELSE [new |-> TRUE, at |-> tips[r]]]
        /\ import' = IF stuck = {} THEN "done" ELSE "died"
    /\ UNCHANGED <<repo, filter, pruned, latest, made, tips, result>>

\* fast-export, or fast-import, dies and both are waited for: fast-import has
\* not read `done`.
StreamBreaks ==
    /\ result = None /\ import = "reading"
    /\ import' = "died" /\ result' = "failed"
    /\ UNCHANGED <<repo, filter, todo, pruned, latest, made, tips, refs>>

\* wait for both and aggregate; cleanup is for a rewrite that succeeded.
Aggregate ==
    /\ result = None /\ import # "reading"
    /\ result' = IF import = "done" THEN "imported" ELSE "failed"
    /\ UNCHANGED <<repo, filter, todo, pruned, latest, made, tips, import, refs>>

Cleanup ==
    /\ result = "imported"
    /\ result' \in {"ok", "failed"}
    /\ UNCHANGED <<repo, filter, todo, pruned, latest, made, tips, import, refs>>

Next == ParseBareReset \/ ParseReset \/ ParseTag \/ ParseCommit \/ ParseDone
        \/ StreamBreaks \/ Aggregate \/ Cleanup

Spec == Init /\ [][Next]_vars

-----------------------------------------------------------------------------
(* Properties.                                                                *)

TypeOK ==
    /\ [repo |-> repo, filter |-> filter] \in Rewrites
    /\ todo \subseteq Stream(repo)
    /\ DOMAIN pruned \subseteq DOMAIN repo.parents
    /\ DOMAIN made \subseteq DOMAIN repo.parents \ DOMAIN pruned
    /\ \A c \in DOMAIN pruned : pruned[c] \in DOMAIN made \cup {None}
    /\ \A c \in DOMAIN made : made[c].tree \in Tree
                              /\ made[c].parents \in Seq(DOMAIN made)
    /\ latest \in [Refs -> DOMAIN repo.parents \cup {None}]
    /\ tips \in [Named -> DOMAIN made \cup {None}]
    /\ import \in {"reading", "died", "done"}
    /\ refs \in [Named -> [new : BOOLEAN, at : DOMAIN repo.parents \cup {None}]]
    /\ result \in {None, "imported", "ok", "failed"}

\* What a commit should hold after the rewrite.
Filtered(tree) ==
    [p \in Paths |-> IF p \in filter.kept THEN Redacted(tree[p]) ELSE Absent]

Survivor(c) == IF c \in DOMAIN made THEN c ELSE pruned[c]
Read == DOMAIN made \cup DOMAIN pruned
ParentsMade == [c \in DOMAIN made |-> made[c].parents]

\* A merge that loses its first parent altogether, and keeps another one: its
\* file changes are then applied to a tree they were not taken from.
LosesMainline(c) ==
    /\ Len(repo.parents[c]) > 1
    /\ Survivor(repo.parents[c][1]) = None
    /\ \E i \in DOMAIN repo.parents[c] : Survivor(repo.parents[c][i]) # None
Untouched(c) == \A d \in {c} \cup Below(repo.parents)[c] : ~LosesMainline(d)

\* No commit is written with a parent fast-import has not been given: what
\* resolve_parents answers for a pruned parent has always been emitted.
CommitsImport == [][ParseCommit => import' # "died"]_vars

\* Pruning neither loses nor invents ancestry: of two surviving commits one is
\* below the other after the rewrite exactly if it was before.
AncestryIsKept ==
    LET old == Below(repo.parents)
        new == Below(ParentsMade)
    IN  \A d \in DOMAIN made : new[d] = old[d] \cap DOMAIN made

\* A surviving commit holds its old tree, filtered and redacted; and a pruned
\* one held nothing that its survivor does not: no content is lost or revived
\* (of commits that no merge which lost its first parent is at or below).
TreesAreFiltered ==
    /\ \A c \in DOMAIN made :
           Untouched(c) => made[c].tree = Filtered(repo.tree[c])
    /\ \A c \in DOMAIN pruned :
           Untouched(c) =>
               Filtered(repo.tree[c]) =
                   IF pruned[c] = None THEN EmptyTree ELSE Filtered(repo.tree[pruned[c]])

\* A ref that has moved is at what survives of the commit it named, and when
\* the import has succeeded each ref whose commit survives has moved.
RefsFollow ==
    LET home == Home(repo) IN
    /\ \A r \in Named :
           refs[r].new => home[r] \in Read /\ refs[r].at = Survivor(home[r])
    /\ import = "done" =>
           \A r \in Named : home[r] \in DOMAIN made => refs[r].new

\* What is written is the old history, filtered: its trees, and the refs on top of it.
RewriteHolds == TypeOK /\ TreesAreFiltered /\ RefsFollow
===============================================================================
