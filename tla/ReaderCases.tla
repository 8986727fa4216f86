----------------------------- MODULE ReaderCases -----------------------------
(* What the gate, the scans and the detection engine are given in MCReaders. *)
EXTENDS Codec, Eval

CONSTANT None

(* Up to two globals and three tokens after each verb; two hosts, three    *)
(* owners; remotes by name, by URL and by default.                         *)

GateUrls == [t \in {"good:us/x", "good:them/x", "evil:us/x"} |->
             CASE t = "good:us/x" -> <<"good", "us", "x">> [] t = "good:them/x" -> <<"good", "them", "x">>
               [] t = "evil:us/x" -> <<"evil", "us", "x">>]
GateSets == [t \in {"alias.p=push", "alias.p=status", "url.x.insteadof=y", "user.name=x"} |->
             CASE t = "alias.p=push" -> [key |-> "p", runs |-> "push"]
               [] t = "alias.p=status" -> [key |-> "p", runs |-> "status"]
               [] t = "url.x.insteadof=y" -> [key |-> "url.insteadof", runs |-> ""]
               [] t = "user.name=x" -> [key |-> "user.name", runs |-> ""]]
GateRemotes == [n \in {"origin", "fork", "mirror"} |->
             [fetch |-> IF n = "fork" THEN "evil:us/x" ELSE "good:us/x",
              push |-> IF n = "origin" THEN "good:us/x" ELSE "evil:us/x"]]
GateTakes == [v \in {"git", "push", "fetch", "pull", "clone", "send-pack", "http-push", "remote"} |->
             CASE v = "git" -> {"-C", "-c", "--config-env", "--attr-source"}
               [] v = "push" -> {"-o", "--push-option", "--receive-pack", "--exec", "--repo", "--recurse-submodules"}
               [] v \in {"fetch", "pull"} -> {"--depth", "--upload-pack", "-j", "--filter"}
               [] v = "clone" -> {"-b", "-o", "--depth"}
               [] v = "send-pack" -> {"--receive-pack", "--exec"}
               [] OTHER -> {}]

GateFlags == UNION {GateTakes[v] : v \in DOMAIN GateTakes}
  \cup {"--bare", "--force", "--force-with-lease", "--", "-a", "-b", "-bx", "--initial-branch", "--initial-branch=x",
        "--initial-branch=main"}
globals == {<<>>, <<"-C", "fork">>, <<"--bare">>, <<"-c", "user.name=x">>, <<"-c", "alias.p=push">>,
            <<"-c", "alias.p=status">>, <<"-c", "url.x.insteadof=y">>, <<"--config-env", "url.x.insteadof=y">>,
            <<"-c", "user.name=x", "-c", "alias.p=push">>, <<"--">>, <<"--attr-source", "fetch">>}
targets == {"origin", "fork", "mirror", "nowhere", "good:us/x", "good:them/x", "evil:us/x"}
flagged == {<<>>, <<"--force">>, <<"--">>}
options(v) == flagged
  \cup (IF v \in DOMAIN GateTakes THEN {<<o, x>> : o \in GateTakes[v], x \in {"origin", "evil:us/x", "--"}} ELSE {})
  \cup (IF v = "push" THEN {<<"--force-with-lease">>, <<"--force-with-lease", "fork">>} ELSE {})
remote(v) == {g \o <<v>> \o o \o t : g \in globals, o \in options(v), t \in {<<>>} \cup {<<x>> : x \in targets}}
  \cup {<<v>> \o o \o p \o <<t, "main">> : o \in options(v), p \in flagged \cup {<<"-o", "origin">>}, t \in targets}
commands ==
  UNION {remote(v) : v \in {"push", "fetch", "clone", "send-pack", "p"}}
  \cup {<<"remote", "add", "fork", u>> : u \in DOMAIN GateUrls}
  \cup {<<"-C", "fork", "status">>, <<"--bare">>, <<>>}
  \cup {g \o <<"init">> \o o \o d : g \in {<<>>, <<"-C", "init">>, <<"--">>},
          o \in {<<>>, <<"-b", "x">>, <<"-bx">>, <<"--initial-branch", "x">>, <<"--initial-branch=x">>, <<"--bare">>}, d \in {<<>>, <<"init">>}}

policy(s, c, a, h) == [secrets |-> s, commands |-> c, allowlist |-> a, hosts |-> h]
policies == {policy("off", {}, FALSE, {}), policy("block", {}, FALSE, {}), policy("warn", {"push"}, TRUE, {<<"good">>}),
               policy("block", {"push"}, TRUE, {<<"good", "us">>})}

content(z, b, s) == [size |-> z, binary |-> b, secrets |-> s]
file(k, r, m, h, i, w) ==
  [path |-> "f", quoted |-> FALSE, skipped |-> k, regular |-> r, renamed |-> m, head |-> h, index |-> i, work |-> w]
clean == content("normal", FALSE, {})
dirty == content("normal", FALSE, {"key"})
trees == {{}} \cup
  {{file(k, r, m, h, i, w)} : k \in BOOLEAN, r \in BOOLEAN, m \in {FALSE},
     h \in {None, clean}, i \in {None, clean, dirty}, w \in {None, clean, dirty, content("huge", FALSE, {"key"}), content("normal", TRUE, {"key"})}}
  \cup {{file(FALSE, TRUE, TRUE, None, dirty, w)} : w \in {clean, dirty}}
  \cup {{[file(FALSE, TRUE, FALSE, None, dirty, w) EXCEPT !.quoted = TRUE]} : w \in {clean, dirty}}
cases(lines, kinds, tracked) ==
  [argv : lines, pol : policies, tree : kinds, upstream : tracked]
branch(p, f, t) == [push |-> p, fetch |-> f, tracked |-> t]
CommandCases ==
  cases(commands, {{}}, {branch(None, None, FALSE)})
    \cup cases({<<"push">>, <<"fetch">>, <<"pull">>, <<"pull", "-j", "origin">>, <<"--bare", "fetch">>, <<"push", "origin">>},
              {{}, {file(FALSE, TRUE, FALSE, clean, clean, dirty)}},
              {branch(None, None, FALSE), branch(None, "fork", TRUE), branch("fork", "origin", TRUE),
               branch("origin", "fork", TRUE), branch("fork", "origin", FALSE), branch(None, "fork", FALSE),
               branch("mirror", "origin", TRUE)})
    \cup cases({<<"commit">>, <<"--bare", "commit", "-a">>, <<"-C", "fork", "commit">>}, trees, {branch(None, None, FALSE)})

(* Five blobs, one of them under two paths and one that cannot be read; a  *)
(* directory with a link back to itself; three catalogues, two of a size.  *)

blob(o, p, c) == [oid |-> o, path |-> p, commit |-> c]
ScanOids == {"o1", "o2", "o3", "o4", "o5"}
ScanContent == [o \in ScanOids |->
  CASE o = "o1" -> [class |-> "text", size |-> 1, holds |-> {"aws"}]
    [] o = "o2" -> [class |-> "text", size |-> 2, holds |-> {"aws", "jwt"}]
    [] o = "o3" -> [class |-> "text", size |-> 2, holds |-> {}]
    [] o = "o4" -> [class |-> "lost", size |-> 1, holds |-> {"jwt"}]
    [] o = "o5" -> [class |-> "binary", size |-> 1, holds |-> {"aws"}]]
ScanRefs == [r \in {<<"heads", "main">>, <<"tags", "main">>, <<"remotes", "main">>} |->
  CASE r[1] = "heads" -> "c3" [] r[1] = "tags" -> "c2" [] OTHER -> "c1"]
ScanLists == [s \in {<<{"c3"}, {}>>, <<{"c1", "c2", "c3"}, {}>>, <<{"c3"}, {"c1"}>>, <<{"c3", "c1"}, {}>>} |->
  CASE s = <<{"c3"}, {}>> -> <<blob("o1", "a", "c1"), blob("o2", "b", "c2")>>
    [] s = <<{"c3", "c1"}, {}>> -> <<blob("o3", "c", "c1")>>
    [] s = <<{"c3"}, {"c1"}>> -> <<blob("o3", "c", "c2"), blob("o1", "vendor", "c3")>>
    [] OTHER -> <<blob("o2", "b", "c1"), blob("o5", "d", "c1"), blob("o1", "c", "c2"),
                  blob("o4", "a", "c3")>>]
indexed(o, p, m, n) == [oid |-> o, path |-> p, mode |-> m, stage |-> n]
ScanIndex == [n \in {"main"} |-> <<indexed("o4", "a", "file", 0), indexed("o2", "b", "symlink", 0),
             indexed("o2", "c", "file", 2), indexed("o1", "a", "file", 0)>>]
onDisk(o, p) == [kind |-> "file", to |-> blob(o, p, "")]
ScanDirs == [d \in {"root", "sub"} |->
  CASE d = "root" -> {onDisk("o1", "a"), [kind |-> "dir", to |-> "sub"], [kind |-> ".git", to |-> "sub"]}
    [] d = "sub" -> {onDisk("o2", "b"), [kind |-> "link to dir", to |-> "root"],
                     [kind |-> "link to file", to |-> blob("o2", "c", "")]}]
ScanRulesOf == [c \in {"default", "custom", "house"} |->
  CASE c = "default" -> {"aws", "jwt"} [] c = "custom" -> {"jwt"} [] c = "house" -> {"aws"}]
request(cmd, form) == [cmd |-> cmd, rev |-> <<form, "main", "HEAD">>, jobs |-> FALSE,
  cache |-> FALSE, rules |-> "default", high |-> FALSE, baseline |-> FALSE, links |-> FALSE, cap |-> 9]
folder == [request("tree", "dir") EXCEPT !.rev[2] = "root"]
ScanRequests ==
  {[request("history", "all") EXCEPT !.jobs = TRUE],
   [request("history", "one") EXCEPT !.jobs = TRUE, !.cap = 0],
   [request("history", "HEAD") EXCEPT !.cache = TRUE],
   [request("history", "all") EXCEPT !.cache = TRUE, !.jobs = TRUE],
   [request("history", "all") EXCEPT !.cache = TRUE, !.rules = "custom"],
   [request("history", "HEAD") EXCEPT !.cache = TRUE, !.rules = "house"],
   [request("history", "HEAD") EXCEPT !.cache = TRUE, !.high = TRUE],
   [request("history", "HEAD") EXCEPT !.cache = TRUE, !.baseline = TRUE],
   [request("history", "HEAD") EXCEPT !.baseline = TRUE],
   [request("history", "range") EXCEPT !.rev[2] = "gone"],
   [request("trace", "all") EXCEPT !.jobs = TRUE], request("history", "both"),
   [request("baseline", "HEAD") EXCEPT !.jobs = TRUE], [request("baseline", "HEAD") EXCEPT !.cache = TRUE], [folder EXCEPT !.cmd = "baseline"],
   request("staged", "index"),
   [request("commit gate", "index") EXCEPT !.rev[2] = "torn"], request("commit gate", "index"), request("push gate", "outgoing"),
   [folder EXCEPT !.links = TRUE], folder, [folder EXCEPT !.cap = 1], request("bad", "HEAD")}
ScanIgnored == {[path |-> "b", rule |-> "jwt"]}

(* Two lines at a time: an access key, the secret key it needs beside it,  *)
(* tokens, assignments, and all of them encoded once, twice and in part.   *)

Broken == "broken"

word(id) == Piece("word", id, 4, <<>>)
sp == Piece("blank", " ", 1, <<>>)
nl == Piece("newline", "nl", 1, <<>>)
eq == Piece("punct", "=", 1, <<>>)
enc(kind, id, inner) ==
  Piece(kind, id, Width(inner) * (CASE kind = "percent" -> 3 [] kind \in {"escape", "code point"} -> 6 [] OTHER -> 2), inner)

pieces == {"AKIA", "wJal", "eyJ", "test"}
key(w) == <<word("key"), eq, w>>

encoded(w) == {<<enc("base64", "b64", <<w>>)>>, <<enc("percent", "%", <<w>>)>>,
  <<enc("hex", "hex", <<word("x"), enc("base64", "b64", <<w>>)>>)>>,
  <<enc("hex", "hex", <<enc("escape", "esc", <<w>>), sp, word("x")>>)>>,
  <<word("x"), enc("base64", "b64", <<w>>)>>,
  <<enc("percent", "%", <<eq>>), enc("base64", "b64", <<w>>)>>,
  <<enc("percent", "%", <<eq>>), sp, enc("base64", "b64", <<w>>), sp, enc("percent", "%", <<>>)>>,
  <<enc("code point", "U+", <<word("x")>>), sp, enc("code point", "U+", <<w>>), sp, w>>}
part(id) == {<<word(id)>>, key(word(id))} \cup encoded(word(id)) \cup {<<word("key"), eq>> \o e : e \in encoded(word(id))}
samples ==
  {a \o <<sp>> \o b \o m \o c :
     a \in {<<>>, <<enc("base64", "b64", <<word("x")>>)>>},
     b \in part("AKIA") \cup {<<word("eyJ"), sp>>}, m \in {<<nl>>, <<sp>>, <<sp, word("allow"), nl>>},
     c \in {<<word("wJal")>>, <<enc("base64", "b64", <<word("wJal"), sp, word("AKIA")>>), nl>>, <<word("eyJ"), word("AKIA")>>,
            <<word("wJal"), sp, word("eyJ"), enc("percent", "%", <<word("AKIA")>>)>>, <<nl, nl, word("wJal")>>, key(word("test"))}}

window(m, l, c) == [mode |-> m, lines |-> l, columns |-> c]
needs(id, w, o) == [id |-> id, within |-> w, optional |-> o]
rule(id, regex, keywords, specificity) ==
  [id |-> id, regex |-> regex, group |-> 0, groups |-> 1, path |-> {}, keywords |-> keywords,
   specificity |-> specificity, confidence |-> "", skipReport |-> FALSE, filter |-> {}, allowlists |-> {},
   components |-> <<>>, componentsSet |-> FALSE]
allow(all, paths, words, in) == [all |-> all, paths |-> paths, words |-> words, targets |-> in]
none == [path |-> "", useDefault |-> FALSE, disabled |-> {}]
document(rules, extend) == [rules |-> rules, extend |-> extend, filter |-> {}, allowlists |-> {}]

aws == [rule("aws", {<<"AKIA">>}, {"AKIA"}, 0) EXCEPT
          !.components = <<needs("secret", window("box", 1, 0), FALSE)>>, !.componentsSet = TRUE]
password == [rule("secret", {<<"wJal">>}, {}, 90) EXCEPT !.skipReport = TRUE, !.confidence = "high"]
generic == [rule("generic", {<<"key", "=", x>> : x \in pieces}, {"key"}, 10) EXCEPT !.group = 2, !.confidence = "low"]
jwt == rule("jwt", {<<"eyJ">>}, {"eyJ"}, 150)
pair == rule("pair", {<<"eyJ", "AKIA">>}, {}, 200)
DetectDocuments == [d \in {"default", "user", "team", "deep", "clash", "loop"} |->
  CASE d = "default" -> [document(<<generic, aws, password, jwt, pair>>, none) EXCEPT
                           !.allowlists = {allow(FALSE, {"vendor"}, {}, {}), allow(TRUE, {"a"}, {<<"test">>}, {"generic"})}]
    [] d = "user" -> [document(<<[rule("generic", {}, {"AKIA"}, 300) EXCEPT !.filter = {<<"AKIA">>}],
                                 [password EXCEPT !.skipReport = FALSE, !.id = "twin"],
                                 [rule("aws", {}, {}, 0) EXCEPT !.componentsSet = TRUE,
                                    !.components = <<needs("twin", window("columns", 0, 9), FALSE),
                                                     needs("jwt", window("none", 0, 0), TRUE),
                                                     needs("pair", window("box", 0, 6), TRUE)>>]>>,
                               [path |-> "", useDefault |-> TRUE, disabled |-> {"jwt"}]) EXCEPT
                        !.allowlists = {allow(FALSE, {}, {<<"test">>}, {"pair"})}]
    [] d = "team" -> document(<<[rule("file", {}, {}, 0) EXCEPT !.path = {"b"}], [rule("bad", {<<"eyJ">>}, {"eyJ"}, 5) EXCEPT !.group = 2],
                                [jwt EXCEPT !.filter = {Broken}]>>,
                              [path |-> "user", useDefault |-> FALSE, disabled |-> {"twin"}])
    [] d = "deep" -> [document(<<>>, [path |-> "team", useDefault |-> FALSE, disabled |-> {"file"}])
                       EXCEPT !.filter = {<<"wJal">>}]
    [] d = "clash" -> document(<<jwt>>, [path |-> "user", useDefault |-> TRUE, disabled |-> {}])
    [] d = "loop" -> document(<<jwt>>, [path |-> "loop", useDefault |-> FALSE, disabled |-> {}])]
DetectAlphabet == <<"aws", "bad", "file", "generic", "jwt", "pair", "secret", "twin">>

option(d, c, r) == [decodeDepth |-> d, minConfidence |-> c, redact |-> r]
detections(roots, docs, paths, settings, ignores) ==
  [root : roots, text : docs, path : paths, options : settings, ignore : ignores,
   baseline : {{[rule |-> "generic", line |-> 0, secret |-> <<"AKIA">>]}}]
few == {t \in samples : t[1] = sp /\ t[Len(t)].id \in {"wJal", "AKIA", "%"} /\ t[2].kind = "word"}
DetectJobs ==
  detections({"default"}, samples, {"a"}, {option(3, "", FALSE)}, {{}})
    \cup detections({"user", "team", "deep"}, few, {"a", "b"}, {option(0, "", FALSE), option(2, "medium", TRUE)}, {{<<"a", "pair", 1>>}})
    \cup detections({"default", "clash", "loop"}, {<<word("eyJ")>>}, {"a", "vendor", "config"}, {option(0, "", FALSE)}, {{}})

-----------------------------------------------------------------------------
(* Expressions: every pair of operators nested to the left and to the      *)
(* right, in three spellings; postfixes on every base; calls as functions, *)
(* methods and in namespaces; bindings that hide; CEL's spellings;         *)
(* responses read.                                                         *)

Leaf(op, name) == Ast(op, name, <<>>)
Commas(xs) == FlattenSeq([k \in DOMAIN xs |-> IF k = 1 THEN xs[k] ELSE <<",">> \o xs[k]])
one == Leaf("num", <<"1">>)   two == Leaf("num", <<"2">>)   zero == Leaf("num", <<"0">>)
str(p) == Leaf("str", <<p>>)
id(p) == Leaf("ident", <<p>>)
a == id("a")  b == id("b")  c == id("c")  pointer == Leaf("#", <<>>)
call(name, args) == Ast("call", name, args)
closure(e) == Ast("closure", <<>>, <<e>>)
let(name, value, body) == Ast("let", <<name>>, <<value, body>>)
list(xs) == Ast("list", <<>>, xs)
map(xs) == Ast("map", <<>>, xs)
dot(e, name) == Ast(".", <<name>>, <<e>>)
opt(e, name) == Ast("?.", <<name>>, <<e>>)
at(e, k) == Ast("[]", <<>>, <<e, k>>)
optAt(e, k) == Ast("?.[]", <<>>, <<e, k>>)
slice(e, lo, hi) == Ast("[:]", <<>>, <<e, lo, hi>>)
bin(op, l, r) == Ast(op, <<>>, <<l, r>>)
un(op, e) == Ast(op, <<>>, <<e>>)
if(x, y, z) == Ast("?:", <<>>, <<x, y, z>>)

infix == {"+", "-", "*", "/", "==", "!=", "<", "<=", ">", ">=", "in", "contains", "&&", "||", "??"}
nested ==
  {bin(o, bin(p, a, b), c) : o, p \in infix} \cup {bin(o, a, bin(p, b, c)) : o, p \in infix}
    \cup {un(u, bin(o, a, b)) : u \in {"!", "neg"}, o \in infix} \cup {bin(o, un(u, a), b) : u \in {"!", "neg"}, o \in infix}
    \cup {bin(o, a, un(u, b)) : u \in {"!", "neg"}, o \in infix} \cup {bin(o, if(a, b, c), c) : o \in infix}
    \cup {if(bin(o, a, b), if(a, b, c), un("neg", c)) : o \in infix} \cup {if(if(a, b, c), bin(o, a, b), bin(o, b, c)) : o \in infix}
    \cup {bin(o, let("x", a, id("x")), b) : o \in infix}
entry(k, v) == Entry(<<k>>, Str(<<v>>))
env(validating) ==
  [validating |-> validating, allowed |-> { <<"HOME">> }, finding |-> {entry("secret", "Key")},
   attributes |-> {entry("path", "f")}, components |-> {entry("id", "c1")}, captures |-> {entry("user", "u1")}]
job_(e, style, validating) == [ast |-> e, style |-> style, env |-> env(validating), probe |-> {}]

secret == at(id("finding"), str("secret"))
bases == {secret, at(id("attributes"), str("path")), at(id("components"), str("id")), at(id("captures"), str("user")),
          str("x"), list(<<one, str("x")>>), map(<<str("k"), one, str("b"), zero>>), a, Leaf("nil", <<>>)}
postfixes == bases \cup {dot(e, "k") : e \in bases} \cup {opt(e, "k") : e \in bases}
  \cup {at(e, k) : e \in bases, k \in {zero, str("k"), two}} \cup {optAt(e, k) : e \in bases, k \in {one, str("b")}}
  \cup {slice(e, zero, one) : e \in bases} \cup {optAt(opt(e, "k"), zero) : e \in bases}
  \cup {dot(dot(a, "http"), "get"), opt(at(dot(a, "k"), one), "b"), slice(str("x"), one, un("neg", one))}
brackets == Leaf("str", <<"(", "x", ",", DoubleQuote, "]", Backslash, ")", ")">>)
functions ==
  {call(<<f>>, <<e>>) : f \in {"len", "size", "setConfidence", "min", "get2", "unknown"}, e \in {secret, str("x"), list(<<one>>), brackets, str("low")}}
    \cup {call(<<f>>, <<e, list(<<str("key"), str("x")>>)>>) : f \in {"matchesAny", "containsAny"}, e \in {secret, str("x")}}
    \cup {call(n \o <<"len">>, <<str("x")>>) : n \in {<<>>, <<"filter">>, <<"strings">>, <<"json">>}}
    \cup {call(<<"json", "string">>, <<e>>) : e \in {secret, brackets, Leaf("str", <<"nl", "<", "&", Backslash>>)}}
    \cup {call(<<"contains">>, <<e, str("x")>>) : e \in {str("x"), list(<<str("x")>>), dot(a, "b"), brackets}}
    \cup {call(<<"replace">>, <<e, str("x"), str("b")>>) : e \in {secret, str("x"), brackets}}
    \cup {call(<<"substring">>, <<e, zero, one>>) : e \in {secret, call(<<"replace">>, <<secret, str("x"), str("b")>>)}}
    \cup {call(<<"env", "get">>, <<str(n)>>) : n \in {"HOME", "PATH"}}
    \cup {call(<<"env", "getOrDefault">>, <<str(n), str("x")>>) : n \in {"HOME", "PATH"}}
    \cup {call(<<"time", "now_unix">>, <<>>), call(<<"http", "get">>, <<str("x")>>), call(<<"http", "fetch">>, <<str("x")>>),
          call(<<"max">>, <<one, two, zero>>), call(<<"validate", "unknown">>, <<map(<<str("status"), two>>)>>),
          call(<<"any">>, <<list(<<one>>)>>), call(<<"any">>, <<list(<<one>>), one>>), call(<<"len">>, <<>>)}
kept(f) == call(<<"contains">>, <<call(f, <<str("x")>>), str("x")>>)
clauses == {call(<<f>>, <<l, closure(e)>>) : f \in {"any", "all", "one", "none"},
              l \in {list(<<one, two, zero>>), list(<<zero>>), list(<<>>), str("x")},
              e \in {bin("==", pointer, one), bin(">", pointer, zero), pointer,
                     call(<<"any">>, <<list(<<one, pointer>>), closure(bin("==", pointer, one))>>),
                     bin("==", call(<<"setConfidence">>, <<str("low")>>), pointer),
                     bin(">", dot(call(<<"http", "get">>, <<str("down"), map(<<>>)>>), "status"), pointer)}}
values == {str("x"), one, bin("/", two, one), map(<<str("secret"), str("x"), str("k"), list(<<one>>)>>), Leaf("nil", <<>>), secret}
bodies(n) ==
  {id(n), at(id(n), str("secret")), bin("+", id(n), id(n)), bin("/", id(n), two), let(n, two, id(n)), bin("==", let(n, two, id(n)), id(n)),
   let("b", id(n), bin("??", opt(id("b"), "k"), id(n))), optAt(opt(id(n), "k"), zero),
   call(<<"any">>, <<list(<<one, zero>>), closure(bin("==", pointer, id(n)))>>), slice(id(n), zero, one),
   at(id("attributes"), str("confidence")), let("_", call(<<"setConfidence">>, <<str("low")>>), at(id("attributes"), str("confidence")))}
bindings == {let(n, v, e) : n \in {"x", "finding"}, v \in values, e \in bodies("x") \cup bodies("finding")}
  \cup {let("attributes", map(<<str("path"), one>>), e) : e \in {at(id("attributes"), str("path"))}}

\* What CEL's spelling has: a?.b[0]... over a bound name, and the calls it writes as methods.
response == call(<<"http", "get">>, <<str("down"), map(<<>>)>>)
fields == {opt(a, "b"), opt(optAt(opt(a, "b"), zero), "k"), opt(opt(a, "b"), "k"), dot(a, "b")}
cel ==
  {bin("??", f, d) : f \in fields, d \in {str("x"), one}} \cup {if(bin("==", bin("??", f, one), one), a, b) : f \in fields}
    \cup {let("r", v, e) : v \in {response, str("x"), Leaf("str", <<"(", "x", ",", ")", ")">>), call(<<"contains">>, <<secret, str("x")>>)},
            e \in {dot(id("r"), "status"), bin("??", opt(id("r"), "k"), str("x")), let("q", id("r"), bin("==", id("q"), id("r"))),
                   if(bin("contains", id("r"), str("x")), one, two)}}
    \cup {bin("contains", e, s) : e \in {a, dot(a, "b"), call(<<"len">>, <<a>>), secret, at(a, zero)}, s \in {str("x"), b}}
    \cup {call(<<"replace">>, <<e, str("x"), s>>) : e \in {a, dot(a, "b"), call(<<"replace">>, <<a, b, c>>)}, s \in {str("b"), brackets}}
    \cup {call(<<"env", "get">>, <<str("HOME")>>), call(<<"time", "now_unix">>, <<>>), at(a, str("k")), brackets,
          call(<<"substring">>, <<at(dot(a, "b"), one), zero, one>>),
          call(<<"substring">>, <<call(<<"replace">>, <<a, str(","), brackets>>), zero, call(<<"len">>, <<a>>)>>)}

\* What stands where CEL's methods have an argument or a receiver: an operand, an
\* operator of each kind, a call, a method, and what the rewriting looks for, in a string.
written ==
  {a, dot(a, "b"), opt(a, "k"), at(b, one), at(b, str("k")), str("x"), list(<<a, b>>), map(<<str("k"), b>>), un("!", b), un("neg", b),
   if(a, b, c), let("x", b, id("x")), call(<<"len">>, <<b>>), call(<<"replace">>, <<b, str("x"), c>>), at(b, opt(c, "k")),
   at(b, bin("??", opt(c, "k"), str("x"))), opt(at(b, one), "k"), opt(str("x"), "k"), opt(call(<<"len">>, <<b>>), "k"),
   bin("*", bin("+", a, b), c), Leaf("str", <<"x", " ", "b">>)} \cup {bin(o, b, c) : o \in infix}
spoken == {Leaf("str", s) : s \in {<<"env", "(">>, <<"x", ".", "?", "b">>, <<")", ".", "?", "b">>, <<"x", ".", "orValue", "(", "b", ")">>,
                                  <<"x", ".", "contains", "(", "b", ")">>, <<"cel", ".", "bind", "(">>, <<"x", ".", "len", "(", ")">>}}
spelled ==
  {bin(o, e, x) : o \in {"contains", "??", "in"}, e \in {a, opt(a, "k")}, x \in written}
    \cup {bin(o, x, b) : o \in {"contains", "??"}, x \in written}
    \cup {bin("??", opt(optAt(opt(a, "b"), zero), "k"), x) : x \in written}
    \cup {call(<<"replace">>, <<x, str("x"), b>>) : x \in written} \cup {call(<<"len">>, <<x>>) : x \in written}
    \cup {let("r", x, bin("contains", id("r"), str("x"))) : x \in written \cup {brackets}} \cup {opt(x, "k") : x \in written}
    \cup {bin("==", a, e) : e \in spoken} \cup {bin("contains", a, e) : e \in spoken}

(* Responses: documents as values, rendered as a server would.             *)
documents == <<Map({}), Map({entry("b", "x")}), Map({Entry(<<"b">>, List(<<Num(1), Map({entry("k", "x")})>>))}), List(<<Str(<<"x">>)>>),
              Map({Entry(<<"b">>, List(<<Map({entry("k", DoubleQuote)})>>))}), Map({Entry(<<"b">>, Nil)}), Num(2), Bool(TRUE)>>
RECURSIVE rendered(_)
rendered(v) ==
  CASE v.t = "string" -> <<DoubleQuote>> \o FlattenSeq([k \in DOMAIN v.s |-> IF v.s[k] = DoubleQuote THEN <<Backslash, v.s[k]>> ELSE <<v.s[k]>>])
                           \o <<DoubleQuote>>
    [] v.t = "number" -> <<ToString(v.n)>>
    [] v.t = "bool" -> <<IF True(v) THEN "true" ELSE "false">>
    [] v.t = "nil" -> <<"null">>
    [] v.t = "list" -> <<"[", " ">> \o Commas([k \in DOMAIN v.xs |-> rendered(v.xs[k])]) \o <<"]">>
    [] v.t = "map" -> LET es == SetToSeq(v.m)
                      IN <<"{">> \o Commas([k \in DOMAIN es |-> rendered(Str(es[k].key)) \o <<":", " ">> \o rendered(es[k].value)])
                           \o <<"}", "nl">>
answer(body, doc) == [kind |-> "answer", status |-> 1, headers |-> {Entry(<<"Etag">>, Str(<<"x">>))}, body |-> body, doc |-> doc]
pages == [k \in DOMAIN documents |-> <<"u", ToString(k)>>]
ExprWeb == [u \in ToSet(pages) |-> LET k == CHOOSE k \in DOMAIN pages : pages[k] = u IN answer(rendered(documents[k]), documents[k])]
  @@ (<<"long">> :> answer(rendered(List([k \in 1..10 |-> Str(<<"x">>)])), Map({})))
  @@ (<<"padded">> :> answer(rendered(Map({entry("b", "x")})) \o [k \in 1..40 |-> " "], Map({entry("b", "x")})))
  @@ (<<"text">> :> answer(<<"{", "x">>, Map({}))) @@ (<<"more">> :> answer(<<"{", "}", "]">>, Map({})))
  @@ (<<"limit">> :> [answer(<<>>, Nil) EXCEPT !.kind = "limit"]) @@ (<<"echo">> :> [answer(<<>>, Nil) EXCEPT !.kind = "echo"])
ExprEnvironment == (<<"HOME">> :> <<"h">>) @@ (<<"PATH">> :> <<"p">>)
probe(e, style, doc, path) ==
  [ast |-> e, style |-> style, env |-> env(TRUE), probe |-> {[doc |-> doc, path |-> path, default |-> Str(<<"d">>)]}]
json(u) == opt(call(<<"http", "get">>, <<Leaf("str", u), map(<<>>)>>), "json")
B == Str(<<"b">>)  K == Str(<<"k">>)
probes ==
  UNION {UNION {
    {probe(bin("??", opt(json(u), "b"), str("d")), y, ExprWeb[u].doc, <<B>>),
     probe(bin("??", opt(opt(json(u), "b"), "k"), str("d")), y, ExprWeb[u].doc, <<B, K>>),
     probe(bin("??", optAt(json(u), zero), str("d")), y, ExprWeb[u].doc, <<Num(0)>>),
     probe(bin("??", opt(optAt(opt(json(u), "b"), zero), "k"), str("d")), y, ExprWeb[u].doc, <<B, Num(0), K>>),
     probe(bin("??", opt(optAt(opt(json(u), "b"), one), "k"), str("d")), y, ExprWeb[u].doc, <<B, Num(1), K>>),
     probe(let("r", call(<<"http", "get">>, <<Leaf("str", u), map(<<>>)>>), at(dot(id("r"), "headers"), str("etag"))), y,
           Map({entry("etag", "x")}), <<Str(<<"etag">>)>>)}
    : y \in {"tight", "method"}} : u \in {u \in DOMAIN ExprWeb : ExprWeb[u].kind = "answer"}}
  \cup {probe(bin("??", opt(call(<<"http", "post">>, <<str("echo"), map(<<>>), call(<<"json", "string">>, <<Leaf("str", s)>>)>>), "json"), str("d")),
              "tight", Str(s), <<>>) :
          s \in {<<>>, <<"x">>, <<DoubleQuote, "x">>, <<Backslash, "n">>, <<"nl", Backslash, Backslash, DoubleQuote>>, <<"<", "x", "&">>}}

jobs(es, styles, validating) ==
  {job_(e, style, validating) : e \in es, style \in styles}
ExprJobs ==
  jobs(nested \cup postfixes \cup functions \cup clauses, {"tight", "full", "method"}, FALSE)
    \cup jobs(functions \cup clauses \cup bindings, {"tight", "method"}, TRUE) \cup jobs(cel \cup spelled, {"cel"}, TRUE)
    \cup jobs({bin("==", a, e) : e \in spoken} \cup {call(<<"replace">>, <<x, str("x"), b>>) : x \in written}, {"tight", "method"}, FALSE) \cup probes
=============================================================================
