------------------------------- MODULE Syntax -------------------------------
(***************************************************************************)
(* The expression language of rules (betterleaks exprruntime): lexer and   *)
(* parser.  A text is a sequence of pieces: words, digits, single marks,   *)
(* blanks.  A token is [k, s]; a node of the tree is [op, name, args], and *)
(* what a parsing function returns is a node and the index of the token    *)
(* past it, 0 when there is no node.                                       *)
(***************************************************************************)
EXTENDS Integers, Sequences, SequencesExt, FiniteSetsExt, TLC

DoubleQuote == "dq"
Backtick == "bt"
Backslash == "bs"
Digits == {"0", "1", "2", "3"}
Blanks == {" ", "nl"}
Quotes == {DoubleQuote, "'", Backtick}
Marks == {"(", ")", "[", "]", "{", "}", ",", ".", ";", ":", "?", "#", "+", "-", "*", "/", "&", "|", "<", ">", "=", "!", Backslash}
IsLetters(p) == p \notin Digits \cup Blanks \cup Quotes \cup Marks

Starts(s, i, needle) == i >= 1 /\ i + Len(needle) - 1 <= Len(s) /\ SubSeq(s, i, i + Len(needle) - 1) = needle
Find(s, needle, from) ==
  LET at == {i \in from..Len(s) : Starts(s, i, needle)} IN IF at = {} THEN 0 ELSE Min(at)
Cut(s, i, j, by) == SubSeq(s, 1, i - 1) \o by \o SubSeq(s, j + 1, Len(s))
RECURSIVE Replaced(_, _, _)
Replaced(s, what, by) ==
  LET at == Find(s, what, 1)
  IN IF what = <<>> THEN by \o FlattenSeq([i \in DOMAIN s |-> <<s[i]>> \o by])
     ELSE IF at = 0 THEN s ELSE SubSeq(s, 1, at - 1) \o by \o Replaced(SubSeq(s, at + Len(what), Len(s)), what, by)

(***************************************************************************)
(* Lexer.                                                                  *)
(***************************************************************************)
Token(k, s) == [k |-> k, s |-> s]
Bad == Token("bad", <<>>)
Pairs == {"??", "?.", "&&", "||", "<=", ">=", "==", "!="}
Alone == Marks \ {"&", "|", Backslash}
Keywords == {"true", "false", "let", "nil", "null"}

\* The string whose text starts at i, and the index past its quote.
Quoted(src, i, quote) ==
  LET Ends[j \in i..(Len(src) + 1)] ==
        CASE j > Len(src) -> 0
          [] j <= Len(src) /\ src[j] = quote -> j
          [] j < Len(src) /\ src[j] = Backslash /\ quote # Backtick -> IF j + 2 <= Len(src) THEN Ends[j + 2] ELSE 0
          [] OTHER -> Ends[j + 1]
      end == Ends[i]
      escapes == quote # Backtick
      Text[j \in i..end] ==
        IF j = end THEN <<>>
        ELSE IF escapes /\ src[j] = Backslash THEN <<IF src[j + 1] = "n" THEN "nl" ELSE src[j + 1]>> \o Text[j + 2]
        ELSE <<src[j]>> \o Text[j + 1]
  IN IF end = 0 THEN [end |-> 0, text |-> <<>>] ELSE [end |-> end + 1, text |-> Text[i]]

\* The first index from i on whose piece is not in set.
Past(src, i, set) ==
  CHOOSE j \in i..(Len(src) + 1) :
    (\A k \in i..(j - 1) : src[k] \in set) /\ (j <= Len(src) => src[j] \notin set)

\* What cannot be lexed becomes a token that no rule of the grammar accepts.
RECURSIVE LexFrom(_, _)
LexFrom(src, i) ==
  IF i > Len(src) THEN <<>> ELSE
  LET c == src[i]
      two == IF i < Len(src) THEN c \o src[i + 1] ELSE c
  IN CASE c \in Blanks -> LexFrom(src, i + 1)
       [] two = "//" -> LexFrom(src, Past(src, i, {p \in ToSet(src) : p # "nl"}))
       [] two \in Pairs -> <<Token("op", <<two>>)>> \o LexFrom(src, i + 2)
       [] c \in Quotes ->
            LET q == Quoted(src, i + 1, c)
            IN IF q.end = 0 THEN <<Bad>> ELSE <<Token("str", q.text)>> \o LexFrom(src, q.end)
       [] c \in Digits ->
            LET end == Past(src, i, Digits \cup {"."})
                run == SubSeq(src, i, end - 1)
            IN IF Len(SelectSeq(run, LAMBDA p : p = ".")) > 1 THEN <<Bad>>
               ELSE <<Token("num", run)>> \o LexFrom(src, end)
       [] IsLetters(c) -> <<Token(IF c \in Keywords THEN "keyword" ELSE "ident", <<c>>)>> \o LexFrom(src, i + 1)
       [] OTHER -> IF c \in Alone THEN <<Token("op", <<c>>)>> \o LexFrom(src, i + 1) ELSE <<Bad>>

Lex(src) == LexFrom(src, 1)

(***************************************************************************)
(* Parser: what it looks at, and what it builds.                           *)
(***************************************************************************)
NamespaceRoots == {"http", "crypto", "base64", "hex", "json", "strings", "time", "env", "filter", "validate",
                   "aws", "azure", "gcp"}

Ast(op, name, args) == [op |-> op, name |-> name, args |-> args]
NoNode == [i |-> 0, ast |-> Ast("none", <<>>, <<>>)]
Node(i, ast) == IF i = 0 THEN NoNode ELSE [i |-> i, ast |-> ast]

Is(t, i, mark) == i \in DOMAIN t /\ t[i] = Token("op", <<mark>>)
IsIdent(t, i) == i \in DOMAIN t /\ t[i].k = "ident"
IsWord(t, i, word) == i \in DOMAIN t /\ t[i] = Token("ident", <<word>>)
IsLet(t, i) == i \in DOMAIN t /\ t[i] = Token("keyword", <<"let">>)
Closed(t, i, mark, ast) == IF Is(t, i, mark) THEN Node(i + 1, ast) ELSE NoNode

\* Every descent into the grammar goes by here.
RECURSIVE Descend(_, _, _)

ParseProgram(t, i) ==
  IF ~IsLet(t, i) THEN Descend("expr", t, i)
  ELSE LET value == IF IsIdent(t, i + 1) /\ Is(t, i + 2, "=") THEN Descend("expr", t, i + 3) ELSE NoNode
           body == IF Is(t, value.i, ";") THEN Descend("program", t, value.i + 1) ELSE NoNode
       IN IF body.i = 0 THEN NoNode ELSE Node(body.i, Ast("let", t[i + 1].s, <<value.ast, body.ast>>))

ParseExpr(t, i) ==
  LET cond == Descend("??", t, i)
      then == IF Is(t, cond.i, "?") THEN Descend("expr", t, cond.i + 1) ELSE NoNode
      else == IF Is(t, then.i, ":") THEN Descend("expr", t, then.i + 1) ELSE NoNode
  IN IF Is(t, cond.i, "?") THEN Node(else.i, Ast("?:", <<>>, <<cond.ast, then.ast, else.ast>>)) ELSE cond

\* The rules whose operators group to the left: their operators, and the rule of their operands.
Operators == "??" :> {"??"} @@ "||" :> {"||"} @@ "&&" :> {"&&"} @@ "+" :> {"+", "-"} @@ "*" :> {"*", "/"}
Operand == "??" :> "||" @@ "||" :> "&&" @@ "&&" :> "not" @@ "+" :> "*" @@ "*" :> "unary"

RECURSIVE Chain(_, _, _)
Chain(t, rule, lhs) ==
  IF \E o \in Operators[rule] : Is(t, lhs.i, o)
  THEN LET rhs == Descend(Operand[rule], t, lhs.i + 1)
       IN Chain(t, rule, Node(rhs.i, Ast(t[lhs.i].s[1], <<>>, <<lhs.ast, rhs.ast>>)))
  ELSE lhs

\* One comparison at most; `in` and `contains` are operators unless a parenthesis follows.
ParseCmp(t, lhs) ==
  LET call == Is(t, lhs.i + 1, "(")
      Binary(op, rhs) == Node(rhs.i, Ast(op, <<>>, <<lhs.ast, rhs.ast>>))
      Right == Binary(t[lhs.i].s[1], Descend("+", t, lhs.i + 1))
      NotIn == Binary("in", Descend("+", t, lhs.i + 2))
  IN IF lhs.i = 0 THEN NoNode
     ELSE IF IsWord(t, lhs.i, "not") /\ IsWord(t, lhs.i + 1, "in") THEN Node(NotIn.i, Ast("!", <<>>, <<NotIn.ast>>))
     ELSE IF \/ ~call /\ (IsWord(t, lhs.i, "in") \/ IsWord(t, lhs.i, "contains"))
             \/ \E o \in {"<", "<=", ">", ">=", "==", "!="} : Is(t, lhs.i, o) THEN Right
     ELSE lhs

ParseNot(t, i) ==
  LET x == Descend("not", t, i + 1)
  IN IF Is(t, i, "!") THEN Node(x.i, Ast("!", <<>>, <<x.ast>>)) ELSE ParseCmp(t, Descend("+", t, i))

\* Expressions up to a closing mark; the last may have a comma after it.
RECURSIVE Items(_, _, _, _)
Items(t, i, close, items) ==
  IF Is(t, i, close) THEN Node(i + 1, Ast("list", <<>>, items))
  ELSE LET x == Descend("expr", t, i)
           all == Append(items, x.ast)
       IN IF Is(t, x.i, ",") THEN Items(t, x.i + 1, close, all) ELSE Closed(t, x.i, close, Ast("list", <<>>, all))

RECURSIVE Entries(_, _, _)
Entries(t, i, entries) ==
  IF Is(t, i, "}") THEN Node(i + 1, Ast("map", <<>>, entries))
  ELSE LET key == Descend("expr", t, i)
           value == IF Is(t, key.i, ":") THEN Descend("expr", t, key.i + 1) ELSE NoNode
           all == entries \o <<key.ast, value.ast>>
       IN IF entries = <<>> /\ Is(t, key.i, "}") THEN Node(key.i + 1, Ast("closure", <<>>, <<key.ast>>))
          ELSE IF Is(t, value.i, ",") THEN Entries(t, value.i + 1, all)
          ELSE Closed(t, value.i, "}", Ast("map", <<>>, all))

\* The three readings of `path(...)`: in a namespace, a method of what is before the last dot, a plain name.
CallOf(path, receiver, name, args) ==
  IF path # <<>> /\ path[1] \in NamespaceRoots THEN Ast("call", path, args)
  ELSE IF receiver # <<>> THEN Ast("call", name, receiver \o args)
  ELSE Ast("call", path, args)

\* path: the names up to here, joined by dots, or none; receiver: what is before the last dot, if it has just been read.
RECURSIVE ParsePostfix(_, _, _, _)
ParsePostfix(t, node, path, receiver) ==
  LET i == node.i
      opt == Is(t, i, "?.") /\ Is(t, i + 1, "[")
      first == Descend("expr", t, IF opt THEN i + 2 ELSE i + 1)
      high == IF Is(t, first.i, ":") THEN Descend("expr", t, first.i + 1) ELSE NoNode
      args == Items(t, i + 1, ")", <<>>)
  IN IF i = 0 THEN NoNode
     ELSE IF opt
       THEN ParsePostfix(t, Closed(t, first.i, "]", Ast("?.[]", <<>>, <<node.ast, first.ast>>)), <<>>, <<>>)
     ELSE IF Is(t, i, "[")
       THEN ParsePostfix(t, IF high.i = 0 THEN Closed(t, first.i, "]", Ast("[]", <<>>, <<node.ast, first.ast>>))
                            ELSE Closed(t, high.i, "]", Ast("[:]", <<>>, <<node.ast, first.ast, high.ast>>)), <<>>, <<>>)
     ELSE IF Is(t, i, ".") \/ Is(t, i, "?.")
       THEN IF ~IsIdent(t, i + 1) THEN NoNode
            ELSE LET name == t[i + 1].s
                     plain == Is(t, i, ".")
                 IN ParsePostfix(t, Node(i + 2, Ast(t[i].s[1], name, <<node.ast>>)),
                                 IF plain /\ path # <<>> THEN path \o name ELSE <<>>,
                                 IF plain THEN <<node.ast>> ELSE <<>>)
     ELSE IF Is(t, i, "(")
       THEN IF path = <<>> /\ receiver = <<>> THEN NoNode
            ELSE ParsePostfix(t, Node(args.i, CallOf(path, receiver, node.ast.name, args.ast.args)), <<>>, <<>>)
     ELSE node

ParsePrimary(t, i) ==
  CASE i \notin DOMAIN t -> NoNode
    [] IsLet(t, i) -> Descend("program", t, i)
    [] Is(t, i, "(") -> LET x == Descend("expr", t, i + 1) IN Closed(t, x.i, ")", x.ast)
    [] Is(t, i, "{") -> Entries(t, i + 1, <<>>)
    [] Is(t, i, "[") -> Items(t, i + 1, "]", <<>>)
    [] Is(t, i, "#") -> Node(i + 1, Ast("#", <<>>, <<>>))
    [] i \in DOMAIN t /\ t[i].k \in {"num", "str", "ident"} -> Node(i + 1, Ast(t[i].k, t[i].s, <<>>))
    [] i \in DOMAIN t /\ t[i].k = "keyword" /\ ~IsLet(t, i) ->
         Node(i + 1, Ast(IF t[i].s[1] = "null" THEN "nil" ELSE t[i].s[1], <<>>, <<>>))
    [] OTHER -> NoNode

ParseUnary(t, i) ==
  LET x == Descend("unary", t, i + 1)
  IN IF Is(t, i, "-") THEN Node(x.i, Ast("neg", <<>>, <<x.ast>>))
     ELSE ParsePostfix(t, ParsePrimary(t, i), IF IsIdent(t, i) THEN t[i].s ELSE <<>>, <<>>)

Descend(rule, t, i) ==
  CASE rule = "program" -> ParseProgram(t, i)
    [] rule = "expr" -> ParseExpr(t, i)
    [] rule = "not" -> ParseNot(t, i)
    [] rule = "unary" -> ParseUnary(t, i)
    [] rule \in DOMAIN Operators -> Chain(t, rule, Descend(Operand[rule], t, i))

\* A whole text, or NoNode.
WholeText(t, node) == IF node.i = Len(t) + 1 THEN node ELSE NoNode
ParseTokens(t) == WholeText(t, Descend("program", t, 1))
Parse(src) == ParseTokens(Lex(src))
=============================================================================
