------------------------------- MODULE MCWalk -------------------------------
(* Four commits, a merge at the tip, a subtree that three of them share, an *)
(* annotated tag; a pack, two loose objects, and the pack gc writes.       *)
EXTENDS Walk

whole == [how |-> "whole"]
ofs(o) == [how |-> "ofs", base |-> o]
ref(o) == [how |-> "ref", base |-> o]

MCOids == {"c1", "c2", "c3", "c4", "t1", "t2", "t3", "t4", "s", "b1", "b2", "b3", "g"}
MCKind == [o \in MCOids |-> CASE o \in {"c1", "c2", "c3", "c4"} -> "commit"
                              [] o \in {"t1", "t2", "t3", "t4", "s"} -> "tree"
                              [] o = "g" -> "tag" [] OTHER -> "blob"]
MCEntry == [p \in {"P1", "PN"} |->
  CASE p = "P1" -> [o \in {"c1", "c2", "c3", "t1", "t2", "t3", "s", "g"} |->
                      CASE o = "t2" -> ofs("s") [] o = "t3" -> ref("t2") [] OTHER -> whole]
    [] p = "PN" -> [o \in MCOids |-> CASE o = "t3" -> ofs("t2") [] o = "t2" -> ofs("t4")
                                       [] OTHER -> whole]]
MCParents == [c \in {"c1", "c2", "c3", "c4"} |->
  CASE c = "c1" -> <<>> [] c = "c4" -> <<"c2", "c3">> [] OTHER -> <<"c1">>]
MCDate == [c \in {"c1", "c2", "c3", "c4"} |-> CASE c = "c1" -> 1 [] c = "c4" -> 3 [] OTHER -> 2]
MCOidOrder == [c \in {"c1", "c2", "c3", "c4"} |->
  CASE c = "c1" -> 4 [] c = "c2" -> 2 [] c = "c3" -> 3 [] c = "c4" -> 1]
MCRootTree == [c \in {"c1", "c2", "c3", "c4"} |->
  CASE c = "c1" -> "t1" [] c = "c2" -> "t2" [] c = "c3" -> "t3" [] c = "c4" -> "t4"]
item(m, o) == [mode |-> m, oid |-> o]
MCItems == [t \in {"t1", "t2", "t3", "t4", "s"} |->
  CASE t = "t1" -> <<item("file", "b1"), item("symlink", "b3")>>
    [] t = "t2" -> <<item("file", "b1"), item("dir", "s")>>
    [] t = "t3" -> <<item("dir", "s"), item("exec", "b2")>>
    [] t = "t4" -> <<item("file", "b1"), item("dir", "s"), item("file", "b2")>>
    [] t = "s" -> <<item("file", "b3")>>]
MCRefsAtStart == [loose |-> [r \in {"remote", "tag"} |-> IF r = "remote" THEN "c2" ELSE "g"],
                  packed |-> [r \in {"main"} |-> "c3"]]
MCMovesTo == [r \in {"main"} |-> "c4"]
Roomy == [commits |-> 4, stops |-> 4, blobs |-> 3, intros |-> 3, depth |-> 1]
MCJobs == {[mode |-> "push", stop |-> "remote", max |-> Roomy],
           [mode |-> "push", stop |-> NoRef, max |-> [Roomy EXCEPT !.commits = 3, !.blobs = 4]],
           [mode |-> "head", stop |-> NoRef, max |-> Roomy],
           [mode |-> "head", stop |-> "remote", max |-> [Roomy EXCEPT !.stops = 1]],
           [mode |-> "all", stop |-> NoRef, max |-> [Roomy EXCEPT !.blobs = 1, !.intros = 2]],
           [mode |-> "head", stop |-> NoRef, max |-> [Roomy EXCEPT !.depth = 0]],
           [mode |-> "signed", stop |-> NoRef, max |-> [Roomy EXCEPT !.commits = 6]]}
=============================================================================
