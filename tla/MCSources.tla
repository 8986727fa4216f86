----------------------------- MODULE MCSources ------------------------------
(* Five commits for two processes, with a rename, a binary file, a change   *)
(* of type, a merge's empty patch and a date out of order; a directory     *)
(* with links, an archive in an archive and a file longer than the reader  *)
(* can grow a chunk by.                                                    *)
EXTENDS Sources

hunk(n, ls) == [at |-> n, lines |-> ls]
change(c, old, name, hs) == [change |-> c, old |-> old, name |-> name, hunks |-> hs]
commit(s, t, m, fs) == [sha |-> s, author |-> "A" \o s, date |-> "D" \o s, message |-> m, time |-> t, files |-> fs]
c6 == commit("c6", 6, <<"m">>, <<change("modify", "a", "a", <<hunk(2, <<<<"-", "k">>, <<"+", "l">>, <<"\\", "">>>>),
                                                             hunk(9, <<<<"-", "k">>>>)>>)>>)
c5 == commit("c5", 5, <<"merge">>, <<>>)
c4 == commit("c4", 2, <<"m", "", "n">>, <<change("rename", "a", "x b/y", <<hunk(1, <<<<"+", "k">>>>)>>),
                                          change("delete", "b", "b", <<hunk(0, <<<<"-", "k">>>>)>>)>>)
c3 == commit("c3", 4, <<"m">>, <<change("binary", "p", "p", <<>>), change("type", "q", "q", <<hunk(1, <<<<"+", "k">>>>)>>)>>)
c2 == commit("c2", 3, <<"m">>, <<change("new", "v", "v", <<hunk(1, <<<<"+", "k">>, <<"+", "l">>>>)>>)>>)
c1 == commit("c1", 1, <<"m">>, <<change("new", "a", "a", <<hunk(1, <<<<"+", "l">>>>)>>)>>)
MCListed == [o \in {"", "path", "none"} |->
  CASE o = "" -> <<c6, c5, c4, c3, c2>> [] o = "path" -> <<c6, c4, c1>> [] OTHER -> <<>>]
MCShown == [o \in {"", "path", "none"} |-> IF o = "path" THEN {"a", "b"} ELSE {}]
MCSkippedFiles == {<<"c2", "v">>}

text(b) == [bytes |-> b, format |-> "none", magic |-> 0, members |-> <<>>, broken |-> FALSE]
archive(f, m, ms) == [bytes |-> <<"a", "0", "0">>, format |-> f, magic |-> m, members |-> ms, broken |-> FALSE]
member(p, f) == [path |-> p, file |-> f, kind |-> "file", readable |-> TRUE, safe |-> TRUE]
broken(p, f) == [member(p, f) EXCEPT !.readable = FALSE]
outside(p, f) == [member(p, f) EXCEPT !.safe = FALSE]
MCContent == [f \in {"long", "short", "empty", "exe", "tar", "tgz", "zip", "nest", "rar", "7z", "bad", "two"} |->
  CASE f = "long" -> text(<<"a", "a", "n", "a", "a", "n", "s", "n", "a", "n", "a", "a", "n", "n", "a", "a", "a", "a", "a", "a", "a">>)
    [] f = "short" -> text(<<"a", "n", "a">>)
    [] f = "two" -> text(<<"n", "n", "a", "s", "n">>)
    [] f = "empty" -> text(<<>>)
    [] f = "exe" -> text(<<"a", "0", "a">>)
    [] f = "tar" -> archive("tar", 3, <<member(<<"k">>, "short"), broken(<<"l">>, "two")>>)
    [] f = "tgz" -> archive("gzip", 2, <<member(<<>>, "tar"), member(<<>>, "two")>>)
    [] f = "zip" -> archive("zip", 2, <<member(<<"i">>, "short"), outside(<<"up">>, "two"), member(<<"in", "zip">>, "nest")>>)
    [] f = "nest" -> archive("zip", 2, <<member(<<"n", "jar">>, "zip"), member(<<"o">>, "long")>>)
    [] f = "rar" -> archive("rar", 2, <<member(<<"r">>, "short"), broken(<<"s">>, "two"), member(<<"t">>, "short")>>)
    [] f = "7z" -> archive("7z", 2, <<member(<<"r">>, "short"), member(<<"s">>, "two")>>)
    [] OTHER -> [archive("zip", 2, <<member(<<"r">>, "short")>>) EXCEPT !.broken = TRUE]]
entry(n, k, to) == [name |-> n, kind |-> k, to |-> to, real |-> n]
MCDirs == [d \in {"root", "sub", "vendor"} |->
  CASE d = "root" -> <<entry(<<"a">>, "file", "long"), entry(<<"b", "tgz">>, "file", "tgz"), entry(<<"c", "zip">>, "file", "zip"),
                       entry(<<"d", "zip">>, "file", "short"), entry(<<"e">>, "file", "empty"), entry(<<"f">>, "file", "exe"),
                       entry(<<"g">>, "dir", "sub"), entry(<<"h">>, "dir", "vendor")>>
    [] d = "sub" -> <<[entry(<<"i">>, "link", "two") EXCEPT !.real = <<"two">>], entry(<<"j">>, "link", "root"),
                      entry(<<"k">>, "file", "rar"), entry(<<"l">>, "file", "7z"), entry(<<"m">>, "file", "bad"),
                      entry(<<"n">>, "file", "short")>>
    [] OTHER -> <<entry(<<"o">>, "file", "short")>>]
MCSkippedPaths == {<<"root", <<"h">>>>, <<"sub", <<"n">>>>}
MCSkippedStreams == {<<<<"stdin">>, <<"i">>>>}
MCStdinPath == <<>>
=============================================================================
