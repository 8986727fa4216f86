----------------------------- MODULE MCFilterRepo -----------------------------
(* Every history of MaxCommits commits over two branches and two paths, with   *)
(* merges of two parents; and smaller ones with tags and with changing files.  *)
EXTENDS FilterRepo

CONSTANTS
    MaxCommits,
    Main, Side, Light, Annotated, \* the refs
    Code, Secret                  \* the paths

PathSet == {Code, Secret}
ContentSet == {1, 2}
RefSet == {Main, Side, Light}
TagSet == {Annotated}

\* `scrub path` removes one path; `scrub replace` redacts 2 in every blob.
Same == [c \in ContentSet |-> c]
Removal   == [kept |-> {Code}, redact |-> Same]
Redaction == [kept |-> PathSet, redact |-> [c \in ContentSet |-> 1]]

ParentLists(c) == {<<>>} \cup {<<p>> : p \in 1..(c - 1)}
                  \cup {<<p, q>> : p, q \in 1..(c - 1)}
Graphs(n) == {g \in [1..n -> UNION {ParentLists(c) : c \in 1..n}] :
                 \A c \in 1..n :
                     g[c] \in ParentLists(c) /\ (Len(g[c]) = 2 => g[c][1] # g[c][2])}

Maps(domain, range) == UNION {[d -> range] : d \in SUBSET domain}
NoMap == Maps({}, {})

\* By the symmetry of the branches the last commit is on Main.
HistoriesOver(n, trees, resets, tags) ==
    {h \in [parents : Graphs(n), tree : [1..n -> trees], name : [1..n -> {Main, Side}],
            resets : resets, tags : tags] : h.name[n] = Main /\ IsHistory(h)}

Toggles == {t \in Tree : \A p \in Paths : t[p] # 2}
Edits   == {t \in Tree : t[Code] = Absent}

\* Four commits on branches; two with a tag of each kind; three whose secret
\* path changes content.
RewriteSet ==
    [repo : HistoriesOver(MaxCommits, Toggles, NoMap, NoMap)
            \cup HistoriesOver(2, Toggles, Maps({Light}, 1..2), Maps(TagSet, 1..2)),
     filter : {Removal}]
    \cup [repo : HistoriesOver(3, Edits, NoMap, NoMap), filter : {Redaction}]
===============================================================================
