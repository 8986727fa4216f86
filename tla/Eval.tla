-------------------------------- MODULE Eval --------------------------------
(***************************************************************************)
(* The evaluator of expressions.  A value is [t, s, n, xs, m]: its type,   *)
(* its text, its number, its items and its entries, the fields a type has  *)
(* not being zero.  The state st of an evaluation is                       *)
(*   [scope, attributes, sent]: the bindings, innermost last, the          *)
(* attributes, which setConfidence writes, and the requests sent; a result *)
(* is [ok, v, st, err].  Numbers are integers, and a piece of text counts  *)
(* as one byte.  Byte strings, digests, encodings, dates and the measures  *)
(* of a text (entropy, tokens) are left out: they are functions of their   *)
(* arguments and of nothing else.                                          *)
(***************************************************************************)
EXTENDS Syntax, TLC

CONSTANTS Web,             \* url (a text) -> what a request gets: [kind, status, headers, body]
          Environment,     \* the environment variables: name (a text) -> text
          MaxResponseBody  \* MAX_RESPONSE_BODY, in pieces

V(t) == [t |-> t, s |-> <<>>, n |-> 0, xs |-> <<>>, m |-> {}]
Nil == V("nil")
Bool(b) == [V("bool") EXCEPT !.n = IF b THEN 1 ELSE 0]
Num(n) == [V("number") EXCEPT !.n = n]
Str(s) == [V("string") EXCEPT !.s = s]
List(xs) == [V("list") EXCEPT !.xs = xs]
Entry(key, value) == [key |-> key, value |-> value]
Map(m) == [V("map") EXCEPT !.m = m]

True(v) == v.n = 1
IsStr(v) == v.t \in {"string", "nil"}   \* as_str: the text of nil is empty
IsNum(v) == v.t \in {"number", "nil"}   \* as_num: the number of nil is zero
AsStringList(v) ==
  CASE v.t = "list" /\ (\A i \in DOMAIN v.xs : v.xs[i].t = "string") -> {v.xs[i].s : i \in DOMAIN v.xs}
    [] v.t = "string" -> {v.s}
    [] OTHER -> {}
Display(v) ==
  CASE v.t = "string" -> v.s
    [] v.t = "number" -> <<ToString(v.n)>>
    [] v.t = "bool" -> <<IF True(v) THEN "true" ELSE "false">>
    [] OTHER -> <<>>

Get(m, key) == IF \E e \in m : e.key = key THEN (CHOOSE e \in m : e.key = key).value ELSE Nil
Put(m, key, value) == {e \in m : e.key # key} \cup {Entry(key, value)}
ValuesEqual(a, b) ==
  IF {a.t, b.t} = {"nil", "string"} THEN a.s = b.s
  ELSE IF {a.t, b.t} = {"nil", "number"} THEN a.n = b.n
  ELSE a = b

Occurs(needle, text) == needle = <<>> \/ needle \in SubSeqs(text)
Capitals == [Key |-> "key", Etag |-> "etag"]
Lower(text) == [i \in DOMAIN text |-> IF text[i] \in DOMAIN Capitals THEN Capitals[text[i]] ELSE text[i]]
SliceBytes(s, lo, hi) ==
  LET from == Min({Max({lo, 0}), Len(s)}) IN SubSeq(s, from + 1, Min({Max({hi, from}), Len(s)}))

Fine(v, st) == [ok |-> TRUE, v |-> v, st |-> st, err |-> ""]
Fails(err, st) == [ok |-> FALSE, v |-> Nil, st |-> st, err |-> err]

(***************************************************************************)
(* JSON: the reader of responses, and json.string.                         *)
(***************************************************************************)
NoJson == [i |-> 0, v |-> Nil]
Solid(b, i) == CHOOSE j \in i..(Len(b) + 1) :
                 (\A k \in i..(j - 1) : b[k] \in Blanks) /\ (j <= Len(b) => b[j] \notin Blanks)
JsonEscapes == [n |-> "nl"]
CodePoints == ("003c" :> "<" @@ "003e" :> ">" @@ "0026" :> "&")

\* The text of the string that begins at i, and the index past it.
RECURSIVE JsonString(_, _, _)
JsonString(b, i, text) ==
  IF i > Len(b) THEN NoJson
  ELSE IF b[i] = DoubleQuote THEN [i |-> i + 1, v |-> Str(text)]
  ELSE IF b[i] # Backslash THEN JsonString(b, i + 1, Append(text, b[i]))
  ELSE IF i + 1 > Len(b) THEN NoJson
  ELSE IF b[i + 1] \in {DoubleQuote, Backslash, "/"} THEN JsonString(b, i + 2, Append(text, b[i + 1]))
  ELSE IF b[i + 1] \in DOMAIN JsonEscapes THEN JsonString(b, i + 2, Append(text, JsonEscapes[b[i + 1]]))
  ELSE IF b[i + 1] = "u" /\ i + 2 <= Len(b) /\ b[i + 2] \in DOMAIN CodePoints
    THEN JsonString(b, i + 3, Append(text, CodePoints[b[i + 2]]))
  ELSE NoJson

RECURSIVE JsonValue(_, _), JsonItems(_, _, _), JsonEntries(_, _, _)
JsonItems(b, i, xs) ==
  LET x == JsonValue(b, i)  next == Solid(b, x.i)  all == Append(xs, x.v)
  IN IF x.i = 0 \/ next > Len(b) THEN NoJson
     ELSE IF b[next] = "," THEN JsonItems(b, next + 1, all)
     ELSE IF b[next] = "]" THEN [i |-> next + 1, v |-> List(all)] ELSE NoJson
JsonEntries(b, i, m) ==
  LET k == JsonValue(b, i)
      colon == IF k.i = 0 THEN 0 ELSE Solid(b, k.i)
      x == IF colon \in DOMAIN b /\ b[colon] = ":" /\ k.v.t = "string" THEN JsonValue(b, colon + 1) ELSE NoJson
      next == Solid(b, x.i)
      all == Put(m, k.v.s, x.v)
  IN IF x.i = 0 \/ next > Len(b) THEN NoJson
     ELSE IF b[next] = "," THEN JsonEntries(b, next + 1, all)
     ELSE IF b[next] = "}" THEN [i |-> next + 1, v |-> Map(all)] ELSE NoJson

DigitValue == [d \in Digits |-> CASE d = "0" -> 0 [] d = "1" -> 1 [] d = "2" -> 2 [] d = "3" -> 3]
JsonValue(b, start) ==
  LET i == Solid(b, start)
      inner == Solid(b, i + 1)
      Ends(mark) == inner \in DOMAIN b /\ b[inner] = mark
  IN CASE i > Len(b) -> NoJson
       [] i <= Len(b) /\ b[i] = "{" -> IF Ends("}") THEN [i |-> inner + 1, v |-> Map({})] ELSE JsonEntries(b, i + 1, {})
       [] i <= Len(b) /\ b[i] = "[" -> IF Ends("]") THEN [i |-> inner + 1, v |-> List(<<>>)] ELSE JsonItems(b, i + 1, <<>>)
       [] i <= Len(b) /\ b[i] = DoubleQuote -> JsonString(b, i + 1, <<>>)
       [] i <= Len(b) /\ b[i] \in {"true", "false"} -> [i |-> i + 1, v |-> Bool(b[i] = "true")]
       [] i <= Len(b) /\ b[i] = "null" -> [i |-> i + 1, v |-> Nil]
       [] i <= Len(b) /\ b[i] \in Digits -> [i |-> i + 1, v |-> Num(DigitValue[b[i]])]
       [] OTHER -> NoJson

\* A text that is no JSON is read as the empty map.
Complete(text, r) == IF r.i # 0 /\ Solid(text, r.i) = Len(text) + 1 THEN r.v ELSE Map({})
ParseJson(text) == Complete(text, JsonValue(text, 1))

GoJsonString(s) ==
  LET Escape(p) == CASE p \in {DoubleQuote, Backslash} -> <<Backslash, p>>
                     [] p = "nl" -> <<Backslash, "n">>
                     [] p \in {"<", ">", "&"} -> <<Backslash, "u", CHOOSE c \in DOMAIN CodePoints : CodePoints[c] = p>>
                     [] OTHER -> <<p>>
  IN <<DoubleQuote>> \o FlattenSeq([i \in DOMAIN s |-> Escape(s[i])]) \o <<DoubleQuote>>

(***************************************************************************)
(* Functions.                                                              *)
(***************************************************************************)
Short(name) == IF name[1] = "filter" /\ Len(name) > 1 THEN Tail(name) ELSE name
Predicates == { <<"any">>, <<"all">>, <<"one">>, <<"none">> }
Validation == (<<"http", "get">> :> 2) @@ (<<"http", "post">> :> 3) @@ (<<"validate", "unknown">> :> 1) @@ (<<"unknown">> :> 1)
  @@ (<<"json", "string">> :> 1) @@ (<<"env", "get">> :> 1) @@ (<<"env", "getOrDefault">> :> 2) @@ (<<"time", "now_unix">> :> 0)
Arity == (<<"len">> :> 1) @@ (<<"size">> :> 1) @@ (<<"replace">> :> 3) @@ (<<"substring">> :> 3) @@ (<<"contains">> :> 2)
  @@ (<<"matchesAny">> :> 2) @@ (<<"containsAny">> :> 2) @@ (<<"setConfidence">> :> 1)
Variadic == { <<"min">>, <<"max">> }

\* known_function knows one name that no evaluation does.
KnownFunction(name) == Short(name) \in Predicates \cup DOMAIN Validation \cup DOMAIN Arity \cup Variadic \cup { <<"get">> }

Header(h) == Entry(Lower(h.key), h.value)
BuildResponse(r) ==
  Map({Entry(<<"status">>, Num(r.status)), Entry(<<"json">>, ParseJson(r.body)),
       Entry(<<"headers">>, Map({Header(h) : h \in r.headers})), Entry(<<"body">>, Str(r.body))})
TooMany == 3   \* stands for 429
UnknownResult(v) ==
  LET reason == IF v.t # "map" \/ ~\E e \in v.m : e.key = <<"status">> THEN {}
                ELSE LET n == Get(v.m, <<"status">>)
                     IN {Entry(<<"reason">>, Str(IF n = Num(TooMany) THEN <<"rate limited">> ELSE <<"HTTP">> \o Display(n)))}
  IN Map({Entry(<<"result">>, Str(<<"unknown">>))} \cup reason)

\* A body is cut, wherever that falls, before it is read.
Send(env, url, body, st) ==
  LET attempted == [st EXCEPT !.sent = Append(@, url)]
      Sent(r) == IF r.kind = "echo" THEN body ELSE r.body
      Received(text) == SubSeq(text, 1, Min({Len(text), MaxResponseBody}))
  IN CASE url \notin DOMAIN Web -> Fails("type", attempted)
       [] url \in DOMAIN Web /\ Web[url].kind = "limit" -> Fails("limit", st)
       [] OTHER -> Fine(BuildResponse([Web[url] EXCEPT !.body = Received(Sent(Web[url]))]), attempted)

CallValidation(f, vs, env, st) ==
  LET outside == f[1] \in {"http", "time", "env"}
      key == Display(vs[1])
  IN IF Len(vs) # Validation[f] THEN Fails("arity", st)
     ELSE IF outside /\ ~env.validating THEN Fails("type", st)
     ELSE CASE f[1] = "http" -> Send(env, key, IF f[2] = "post" THEN Display(vs[3]) ELSE <<>>, st)
            [] f[1] = "json" -> Fine(Str(GoJsonString(key)), st)
            [] f[1] = "time" -> Fine(Str(<<"1", "2", "3">>), st)
            [] f = <<"env", "get">> ->
                 IF key \notin env.allowed THEN Fails("type", st)
                 ELSE Fine(Str(IF key \in DOMAIN Environment THEN Environment[key] ELSE <<>>), st)
            [] f = <<"env", "getOrDefault">> ->
                 Fine(Str(IF key \in env.allowed /\ key \in DOMAIN Environment THEN Environment[key] ELSE Display(vs[2])), st)
            [] OTHER -> Fine(UnknownResult(vs[1]), st)

Builtin(f, vs, st) ==
  LET a == vs[1]  Text(k) == Display(vs[k])
      all == {vs[k].n : k \in DOMAIN vs}
      sized == {"string", "list", "nil"} \cup (IF f = <<"size">> THEN {"map"} ELSE {})
      size == IF a.t = "list" THEN Len(a.xs) ELSE IF a.t = "map" THEN Cardinality(a.m) ELSE Len(a.s)
  IN CASE f \in { <<"len">>, <<"size">> } -> IF a.t \in sized THEN Fine(Num(size), st) ELSE Fails("type", st)
       [] f = <<"replace">> -> Fine(Str(Replaced(Text(1), Text(2), Text(3))), st)
       [] f = <<"substring">> -> Fine(Str(SliceBytes(Text(1), vs[2].n, vs[3].n)), st)
       [] f = <<"contains">> ->
            IF a.t \notin {"string", "list", "nil"} THEN Fails("type", st)
            ELSE Fine(Bool(\/ a.t = "string" /\ Occurs(Text(2), a.s)
                           \/ a.t = "list" /\ \E x \in ToSet(a.xs) : Display(x) = Text(2)), st)
       [] f = <<"matchesAny">> -> Fine(Bool(\E p \in AsStringList(vs[2]) : Occurs(p, a.s)), st)
       [] f = <<"containsAny">> -> Fine(Bool(\E p \in AsStringList(vs[2]) : Occurs(Lower(p), Lower(a.s))), st)
       [] f = <<"setConfidence">> ->
            IF a.s \in { <<"low">>, <<"medium">>, <<"high">> }
            THEN Fine(Str(a.s), [st EXCEPT !.attributes = Put(@, <<"confidence">>, Str(a.s))])
            ELSE Fails("type", st)
       [] f = <<"min">> -> Fine(Num(Min(all)), st)
       [] f = <<"max">> -> Fine(Num(Max(all)), st)

(***************************************************************************)
(* Operators whose operands are all evaluated.                             *)
(***************************************************************************)
\* What has to hold of the operands so far before the next is evaluated; f is the operator or the function.
Demand(f, vs) ==
  LET k == Len(vs) IN
  /\ (f = <<"[:]">> /\ k > 1) => IsNum(vs[k])
  /\ (f = <<"map">> /\ k % 2 = 0) => IsStr(vs[k - 1])
  /\ f \in Variadic => IsNum(vs[k])
  /\ (f = <<"substring">> /\ k > 1) => IsNum(vs[k])
  /\ (f \in { <<"matchesAny">>, <<"containsAny">>, <<"setConfidence">> } /\ k = 1) => IsStr(vs[1])

At(v, key) ==
  CASE v.t = "list" -> IF key.n >= 0 /\ key.n < Len(v.xs) THEN v.xs[key.n + 1] ELSE Nil
    [] v.t = "map" -> Get(v.m, key.s)
Has(haystack, needle) ==
  CASE haystack.t = "list" -> needle \in ToSet(haystack.xs)
    [] haystack.t = "map" -> \E e \in haystack.m : e.key = needle.s
    [] haystack.t = "string" -> Occurs(needle.s, haystack.s)
    [] OTHER -> FALSE

Compare(op, a, b) ==
  CASE op = "==" -> ValuesEqual(a, b) [] op = "!=" -> ~ValuesEqual(a, b)
    [] op = "<" -> a.n < b.n [] op = "<=" -> a.n <= b.n [] op = ">" -> a.n > b.n [] op = ">=" -> a.n >= b.n
\* A quotient that is no integer is known by its operands, and stands for nothing else.
Abs(n) == IF n < 0 THEN -n ELSE n
Calculate(op, a, b) ==
  CASE op = "+" -> Num(a.n + b.n) [] op = "-" -> Num(a.n - b.n) [] op = "*" -> Num(a.n * b.n)
    [] op = "/" -> IF \E n \in -Abs(a.n)..Abs(a.n) : n * b.n = a.n /\ b.n # 0
                   THEN Num(CHOOSE n \in -Abs(a.n)..Abs(a.n) : n * b.n = a.n)
                   ELSE [V("number") EXCEPT !.s = <<ToString(a.n), "/", ToString(b.n)>>]

RECURSIVE MapOf(_)
MapOf(vs) == IF vs = <<>> THEN {}
             ELSE Put(MapOf(SubSeq(vs, 1, Len(vs) - 2)), vs[Len(vs) - 1].s, vs[Len(vs)])

Apply(op, name, vs, st) ==
  LET a == vs[1]  b == vs[2]
      When(c, v) == IF c THEN Fine(v, st) ELSE Fails("type", st)
      keyed(v, key) == IF v.t = "map" THEN IsStr(key) ELSE v.t = "list" /\ IsNum(key)
  IN CASE op = "list" -> Fine(List(vs), st)
       [] op = "map" -> Fine(Map(MapOf(vs)), st)
       [] op = "[]" -> When(keyed(a, b), At(a, b))
       [] op = "?.[]" -> Fine(IF (a.t = "map" /\ b.t = "string") \/ (a.t = "list" /\ b.t = "number") THEN At(a, b) ELSE Nil, st)
       [] op = "." -> When(a.t = "map" /\ \E e \in a.m : e.key = name, Get(a.m, name))
       [] op = "?." -> Fine(IF a.t = "map" THEN Get(a.m, name) ELSE Nil, st)
       [] op = "in" -> When(b.t \in {"list", "nil"} \/ (b.t \in {"map", "string"} /\ IsStr(a)), Bool(Has(b, a)))
       [] op = "contains" -> When(a.t \in {"list", "nil"} \/ (a.t = "string" /\ IsStr(b)), Bool(Has(a, b)))
       [] op = "[:]" -> When(IsStr(a), Str(SliceBytes(a.s, vs[2].n, vs[3].n)))
       [] op = "!" -> When(a.t = "bool", Bool(~True(a)))
       [] op = "neg" -> When(IsNum(a), Num(-a.n))
       [] op \in {"==", "!="} -> Fine(Bool(Compare(op, a, b)), st)
       [] op \in {"<", "<=", ">", ">="} -> When(IsNum(a) /\ IsNum(b), Bool(Compare(op, a, b)))
       [] op \in {"+", "-", "*", "/"} ->
            IF op = "+" /\ a.t = "string" /\ b.t = "string" THEN Fine(Str(a.s \o b.s), st)
            ELSE When(IsNum(a) /\ IsNum(b), Calculate(op, a, b))

(***************************************************************************)
(* The evaluator.                                                          *)
(***************************************************************************)
Bindings(scope, name) == {i \in DOMAIN scope : scope[i].key = name}
Lookup(scope, name) == scope[Max(Bindings(scope, name))].value
Push(st, name, value) == [st EXCEPT !.scope = Append(@, Entry(name, value))]
Pop(r) == [r EXCEPT !.st.scope = Front(@)]
Pointer == <<"#">>

\* What a bare name that no binding hides is, before a bracket.
Base(env, st, name) ==
  CASE name = <<"finding">> -> env.finding [] name = <<"attributes">> -> st.attributes
    [] name = <<"components">> -> env.components [] name = <<"captures">> -> env.captures
Bases == { <<"finding">>, <<"attributes">>, <<"components">>, <<"captures">> }

RECURSIVE EvalIn(_, _, _), EvalAll(_, _, _, _, _), Predicate(_, _, _, _, _, _)

\* The operands from left to right, as far as they can be evaluated.
EvalAll(env, f, args, vs, st) ==
  IF Len(vs) = Len(args) THEN [ok |-> TRUE, v |-> List(vs), st |-> st, err |-> ""]
  ELSE LET r == EvalIn(env, args[Len(vs) + 1], st)
           all == Append(vs, r.v)
       IN IF ~r.ok THEN r
          ELSE IF ~Demand(f, all) THEN Fails("type", r.st)
          ELSE EvalAll(env, f, args, all, r.st)

\* The body once per item from the k-th on, until `any` has its hit.
Predicate(env, f, body, items, hits, st) ==
  IF items = <<>> \/ (f = <<"any">> /\ hits # {}) THEN Fine(Num(Cardinality(hits)), st)
  ELSE LET r == Pop(EvalIn(env, body, Push(st, Pointer, Head(items))))
       IN IF ~r.ok THEN r
          ELSE IF r.v.t # "bool" THEN Fails("type", r.st)
          ELSE Predicate(env, f, body, Tail(items), IF True(r.v) THEN hits \cup {Len(items)} ELSE hits, r.st)

PredicateCall(env, f, args, st) ==
  LET list == EvalIn(env, args[1], st)
      count == Predicate(env, f, args[2].args[1], list.v.xs, {}, list.st)
      n == count.v.n
  IN IF Len(args) # 2 THEN Fails("arity", st)
     ELSE IF ~list.ok THEN list
     ELSE IF list.v.t \notin {"list", "nil"} \/ args[2].op # "closure" THEN Fails("type", list.st)
     ELSE IF ~count.ok THEN count
     ELSE Fine(Bool(CASE f = <<"any">> -> n > 0 [] f = <<"all">> -> n = Len(list.v.xs)
                      [] f = <<"one">> -> n = 1 [] f = <<"none">> -> n = 0), count.st)

Answer(env, f, values) ==
  IF ~values.ok THEN values
  ELSE IF f \in DOMAIN Validation THEN CallValidation(f, values.v.xs, env, values.st)
  ELSE Builtin(f, values.v.xs, values.st)

Call(env, f, args, st) ==
  IF f \in Predicates THEN PredicateCall(env, f, args, st)
  ELSE IF f \notin DOMAIN Validation \cup DOMAIN Arity \cup Variadic THEN Fails("unknown function", st)
  ELSE IF f \notin DOMAIN Validation /\ ((f \in DOMAIN Arity /\ Len(args) # Arity[f]) \/ args = <<>>) THEN Fails("arity", st)
  ELSE Answer(env, f, EvalAll(env, f, args, <<>>, st))

\* The second operand only if the first is a bool that does not decide.
Logical(env, op, args, st) ==
  LET l == EvalIn(env, args[1], st)
      r == EvalIn(env, args[2], l.st)
  IN IF ~l.ok THEN l
     ELSE IF l.v.t # "bool" THEN Fails("type", l.st)
     ELSE IF True(l.v) = (op = "||") THEN l
     ELSE IF r.ok /\ r.v.t # "bool" THEN Fails("type", r.st) ELSE r

Choice(env, args, st) ==
  LET c == EvalIn(env, args[1], st)
  IN IF ~c.ok THEN c
     ELSE IF c.v.t # "bool" THEN Fails("type", c.st)
     ELSE EvalIn(env, args[IF True(c.v) THEN 2 ELSE 3], c.st)

Coalesce(env, args, st) ==
  LET l == EvalIn(env, args[1], st) IN IF l.ok /\ l.v = Nil THEN EvalIn(env, args[2], l.st) ELSE l

Let(env, name, args, st) ==
  LET v == EvalIn(env, args[1], st) IN IF ~v.ok THEN v ELSE Pop(EvalIn(env, args[2], Push(v.st, name, v.v)))

\* Mutant: `finding` and the other bases are never hidden by a binding.
IndexBare(env, args, st) ==
  LET k == EvalIn(env, args[2], st)
      b == EvalIn(env, args[1], k.st)
  IN IF ~k.ok THEN k
     ELSE IF args[1].op = "ident" /\ args[1].name \in Bases
       THEN IF IsStr(k.v) THEN Fine(Get(Base(env, k.st, args[1].name), k.v.s), k.st) ELSE Fails("type", k.st)
     ELSE IF b.ok THEN Apply("[]", <<>>, <<b.v, k.v>>, b.st) ELSE b

\* The key comes before the base.
Index(env, args, st) ==
  LET k == EvalIn(env, args[2], st)
      b == EvalIn(env, args[1], k.st)
  IN IF ~k.ok THEN k
     ELSE IF args[1].op = "ident" /\ args[1].name \in Bases /\ Bindings(k.st.scope, args[1].name) = {}
       THEN IF IsStr(k.v) THEN Fine(Get(Base(env, k.st, args[1].name), k.v.s), k.st) ELSE Fails("type", k.st)
     ELSE IF b.ok THEN Apply("[]", <<>>, <<b.v, k.v>>, b.st) ELSE b

EvalIn(env, ast, st) ==
  LET op == ast.op
      name == IF op = "#" THEN Pointer ELSE ast.name
      values == EvalAll(env, <<op>>, ast.args, <<>>, st)
  IN CASE op = "num" -> Fine(Num(DigitValue[ast.name[1]]), st)
       [] op = "str" -> Fine(Str(ast.name), st)
       [] op \in {"true", "false"} -> Fine(Bool(op = "true"), st)
       [] op = "nil" -> Fine(Nil, st)
       [] op \in {"ident", "#"} ->
            IF Bindings(st.scope, name) = {} THEN Fails("unknown name", st) ELSE Fine(Lookup(st.scope, name), st)
       [] op = "closure" -> Fails("type", st)
       [] op = "let" -> Let(env, name, ast.args, st)
       [] op \in {"&&", "||"} -> Logical(env, op, ast.args, st)
       [] op = "?:" -> Choice(env, ast.args, st)
       [] op = "??" -> Coalesce(env, ast.args, st)
       [] op = "[]" -> Index(env, ast.args, st)
       [] op = "call" -> Call(env, Short(name), ast.args, st)
       [] OTHER -> IF values.ok THEN Apply(op, name, values.v.xs, values.st) ELSE values
=============================================================================
