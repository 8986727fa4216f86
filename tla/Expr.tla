-------------------------------- MODULE Expr --------------------------------
(***************************************************************************)
(* An expression from its text to its answer: compile (rewrite, lex,       *)
(* parse), check_functions, eval_bool or eval_validation.  A job is an     *)
(* expression as its author means it, [ast, style, env, probe], and the    *)
(* text is that expression spelled:                                        *)
(*   "tight"  with the parentheses the grammar asks for,                   *)
(*   "full"   with parentheses around every operand that has an operator,  *)
(*   "method" with calls in method position, "not in" in two words and     *)
(*            commas at the end of lists,                                  *)
(*   "cel"    the way a configuration written for CEL has it.              *)
(***************************************************************************)
EXTENDS Cel, Eval

CONSTANT Jobs

VARIABLES phase, \* "text" | "rewritten" | "built" | "checked" | "done", or "rejected" | "looping" | "aborted"
          job, text,
          ast,     \* what the text was parsed to
          unknown, \* the first function check_functions does not know
          result

vars == <<phase, job, text, ast, unknown, result>>

(***************************************************************************)
(* Spelling: the grammar as its documentation has it, parser.rs 36-58.     *)
(***************************************************************************)
Binding(op) ==
  CASE op \in {"let", "?:"} -> 0
    [] op = "??" -> 1 [] op = "||" -> 2 [] op = "&&" -> 3 [] op = "!" -> 4
    [] op \in {"==", "!=", "<", "<=", ">", ">=", "in", "contains"} -> 5
    [] op \in {"+", "-"} -> 6 [] op \in {"*", "/"} -> 7 [] op = "neg" -> 8
    [] OTHER -> 9

Pieces(op) ==
  CASE op = "==" -> <<"=", "=">> [] op = "!=" -> <<"!", "=">> [] op = "<=" -> <<"<", "=">> [] op = ">=" -> <<">", "=">>
    [] op = "&&" -> <<"&", "&">> [] op = "||" -> <<"|", "|">> [] op = "??" -> <<"?", "?">> [] OTHER -> <<op>>
Separated(xs, by) == FlattenSeq([k \in DOMAIN xs |-> IF k = 1 THEN xs[k] ELSE by \o xs[k]])
Comma == <<",", " ">>
Dotted(name) == Separated([k \in DOMAIN name |-> <<name[k]>>], <<".">>)
Quote(style, s) ==
  IF style = "cel" THEN <<"r">> \o RawQuote \o s \o RawQuote
  ELSE <<DoubleQuote>> \o FlattenSeq([k \in DOMAIN s |-> IF s[k] \in {DoubleQuote, Backslash} THEN <<Backslash, s[k]>>
                                                         ELSE IF s[k] = "nl" THEN <<Backslash, "n">> ELSE <<s[k]>>])
         \o <<DoubleQuote>>
\* `.contains(` is the operator's spelling, not the function's.
IsMethod(style, e) ==
  /\ e.args # <<>> /\ Len(e.name) = 1 /\ Binding(e.args[1].op) = 9 /\ e.args[1].op # "num"
  /\ (style = "method" /\ e.name # <<"contains">>) \/ (style = "cel" /\ e.name[1] \in {"replace", "substring", "lastIndexOf"})

RECURSIVE Spell(_, _, _)
Spell(style, least, e) ==
  LET b == Binding(e.op)
      Sub(k, l) == Spell(style, IF style = "full" THEN Max({l, 9}) ELSE l, e.args[k])
      Whole(k) == Spell(style, 0, e.args[k])
      All(from) == [k \in 1..(Len(e.args) - from + 1) |-> Whole(k + from - 1)]
      listed(from) == Separated(All(from), Comma)
                        \o (IF style = "method" /\ Len(e.args) >= from THEN <<",">> ELSE <<>>)
      pairs == [k \in 1..(Len(e.args) \div 2) |-> Whole(2 * k - 1) \o <<":", " ">> \o Whole(2 * k)]
      Infix(words, l, r) == Sub(1, l) \o <<" ">> \o words \o <<" ">> \o Sub(2, r)
      notIn == style = "method" /\ e.op = "!" /\ e.args[1].op = "in"
      s == CASE e.op \in {"num", "ident"} -> e.name
             [] e.op = "str" -> Quote(style, e.name)
             [] e.op \in {"true", "false", "nil", "#"} -> <<e.op>>
             [] e.op = "list" -> <<"[">> \o listed(1) \o <<"]">>
             [] e.op = "map" -> <<"{">> \o Separated(pairs, Comma) \o <<"}">>
             [] e.op = "closure" -> <<"{">> \o Whole(1) \o <<"}">>
             [] e.op = "let" ->
                  IF style = "cel" THEN Bind \o e.name \o Comma \o Whole(1) \o Comma \o Whole(2) \o <<")">>
                  ELSE <<"let", " ">> \o e.name \o <<" ", "=", " ">> \o Whole(1) \o <<";", " ">> \o Whole(2)
             [] e.op = "?:" -> Sub(1, 1) \o <<" ", "?", " ">> \o Whole(2) \o <<" ", ":", " ">> \o Whole(3)
             [] e.op = "??" /\ style = "cel" -> Sub(1, 9) \o OrValue \o Whole(2) \o <<")">>
             [] e.op = "contains" /\ style = "cel" -> Sub(1, 9) \o <<".", "contains", "(">> \o Whole(2) \o <<")">>
             [] notIn -> Spell(style, 6, e.args[1].args[1]) \o <<" ", "not", " ", "in", " ">> \o Spell(style, 6, e.args[1].args[2])
             [] e.op = "!" -> <<"!">> \o Sub(1, 4)
             [] e.op = "neg" -> <<"-">> \o Sub(1, 8)
             [] e.op = "." -> Sub(1, 9) \o <<".">> \o e.name
             [] e.op = "?." -> Sub(1, 9) \o (IF style = "cel" THEN <<".", "?">> ELSE <<"?", ".">>) \o e.name
             [] e.op = "[]" -> IF style = "cel" /\ e.args[2].op = "str"
                               THEN Sub(1, 9) \o <<"[", "?">> \o Quote("tight", e.args[2].name) \o <<"]">>
                               ELSE Sub(1, 9) \o <<"[">> \o Whole(2) \o <<"]">>
             [] e.op = "?.[]" -> Sub(1, 9) \o (IF style = "cel" THEN <<"[">> ELSE <<"?", ".", "[">>) \o Whole(2) \o <<"]">>
             [] e.op = "[:]" -> Sub(1, 9) \o <<"[">> \o Whole(2) \o <<":">> \o Whole(3) \o <<"]">>
             [] e.op = "call" /\ style = "cel" /\ e.name = <<"env", "get">> -> <<"env", "(">> \o listed(1) \o <<")">>
             [] e.op = "call" /\ style = "cel" /\ e.name = <<"time", "now_unix">> -> NowCast
             [] e.op = "call" /\ IsMethod(style, e) -> Sub(1, 9) \o <<".">> \o e.name \o <<"(">> \o listed(2) \o <<")">>
             [] e.op = "call" /\ ~IsMethod(style, e) -> Dotted(e.name) \o <<"(">> \o listed(1) \o <<")">>
             [] OTHER -> Infix(Pieces(e.op), IF b = 5 THEN 6 ELSE b, IF b = 5 THEN 6 ELSE b + 1)
  IN IF (notIn /\ least > 5) \/ (~notIn /\ b < least) THEN <<"(">> \o s \o <<")">> ELSE s

(***************************************************************************)
(* The steps.                                                              *)
(***************************************************************************)
Pending == [ok |-> FALSE, v |-> Nil, st |-> [scope |-> <<>>, attributes |-> {}, sent |-> <<>>], err |-> "pending"]
Start(env) == [Pending.st EXCEPT !.attributes = env.attributes]

Init ==
  /\ \E j \in Jobs : job = j /\ text = Spell(j.style, 0, j.ast)
  /\ phase = "text" /\ ast = NoNode.ast /\ unknown = <<>> /\ result = Pending

\* A rewriting that is refused leaves the text as it was.
Rewrite ==
  /\ phase = "text"
  /\ \E new \in {IF NeedsCelCompat(text) THEN RewriteCelCompat(text) ELSE text} :
       /\ phase' = IF Ended(new) \/ Last(new) = Refused THEN "rewritten"
                   ELSE IF Last(new) = Stuck THEN "looping" ELSE "aborted"
       /\ text' = IF Ended(new) THEN new ELSE text
  /\ UNCHANGED <<job, ast, unknown, result>>

Build ==
  /\ phase = "rewritten"
  /\ \E node \in {Parse(text)} :
       /\ phase' = IF node.i = 0 THEN "rejected" ELSE "built"
       /\ ast' = node.ast
  /\ UNCHANGED <<job, text, unknown, result>>

\* The first call, in the order the text has them, of a function that is not known.
RECURSIVE FirstUnknown(_)
FirstUnknown(e) ==
  IF e.op = "call" /\ ~KnownFunction(e.name) THEN e.name
  ELSE LET found == SelectSeq([k \in DOMAIN e.args |-> FirstUnknown(e.args[k])], LAMBDA name : name # <<>>)
       IN IF found = <<>> THEN <<>> ELSE Head(found)

CheckFunctions ==
  /\ phase = "built"
  /\ unknown' = FirstUnknown(ast) /\ phase' = "checked"
  /\ UNCHANGED <<job, text, ast, result>>

\* A filter has to be a bool; what a validation returns is its own affair.
Evaluate ==
  /\ phase = "checked"
  /\ \E r \in {EvalIn(job.env, ast, Start(job.env))} :
       result' = IF r.ok /\ ~job.env.validating /\ r.v.t # "bool" THEN Fails("not boolean", r.st) ELSE r
  /\ phase' = "done"
  /\ UNCHANGED <<job, text, ast, unknown>>

Next == Rewrite \/ Build \/ CheckFunctions \/ Evaluate

Spec == Init /\ [][Next]_vars

(***************************************************************************)
(* Properties.                                                             *)
(***************************************************************************)
RECURSIVE Nodes(_), Path(_), First(_)
Nodes(e) == {e} \cup UNION {Nodes(e.args[k]) : k \in DOMAIN e.args}

\* a, a.b, a?.b: names alone.
Path(e) == e.op \in {"ident", "num"} \/ (e.op \in {".", "?."} /\ Path(e.args[1]))
\* a?.b?.[0]?.c
Optional(e) ==
  LET item == e.args[1] IN
  /\ e.op = "?." /\ item.op = "?.[]" /\ item.args[2].op = "num"
  /\ item.args[1].op = "?." /\ item.args[1].args[1].op \in {"ident", "."} /\ Path(item.args[1].args[1])
\* What stands first in an operand.
First(e) == IF e.op \in {".", "?.", "[]", "?.[]", "[:]"} THEN First(e.args[1]) ELSE e

\* Seven things the language has and the code does not read, each with what it does instead.
RightOf(style, e) == Spell(style, IF style = "full" THEN 9 ELSE 6, e.args[2])
Method(style, e) == (e.op = "contains" /\ style = "cel") \/ (e.op = "call" /\ IsMethod(style, e) /\ e.name[1] \in ToSet(Methods))

\* An operand of `in` or `contains` that begins with a parenthesis makes the word a call's
\* name, and the text is refused; so it is with .contains(b) once that is an operator.
OpensCall(style, e) ==
  /\ e.op \in {"in", "contains"}
  /\ RightOf(style, e)[1] = "("
\* s.contains(b) becomes (s contains b) and r.orValue(b) becomes (r ?? b): an argument
\* that binds less than the operator is torn apart.
LooseArgument(style, e) ==
  /\ style = "cel"
  /\ \/ e.op = "contains" /\ Binding(e.args[2].op) < 6
     \/ e.op = "??" /\ e.args[2].op = "?:"
\* .orValue is left as it is, a method that nobody knows, when its argument has a parenthesis.
NestedArgument(style, e) == style = "cel" /\ e.op = "??" /\ "(" \in ToSet(Spell(style, 0, e.args[2]))
\* The way back from .orValue to what it belongs to does not match brackets, and may
\* end before what has been rewritten already.
LostReceiver(style, e) ==
  LET r == e.args[1] IN
  \/ /\ style = "cel" /\ e.op = "??"
     /\ ~(Path(r) \/ Optional(r) \/ (r.op = "[]" /\ Path(r.args[1]) /\ "(" \notin ToSet(Spell(style, 0, r.args[2]))))
  \/ Method(style, e) /\ (First(r).op = "map" \/ (First(r).op = "str" /\ (style = "cel" \/ ToSet(First(r).name) \cap Blanks # {})))
\* A string is rewritten like the rest of the text.
Spoken(style, e) == e.op = "str" /\ NeedsCelCompat(e.name)
\* The brackets of a binding are matched before raw strings are strings: a quote or a
\* backslash in one is taken for the text's own.
BoundQuotes(style, e) ==
  /\ style = "cel" /\ e.op = "let"
  /\ \E n \in Nodes(e) : n.op = "str" /\ ToSet(n.name) \cap (Quotes \cup {Backslash}) # {}
\* The rewriting does not come past a `.?` behind anything but a name.
Unending(style, e) ==
  \/ style = "cel" /\ e.op = "?." /\ Last(Spell(style, 9, e.args[1])) \in {")", "]", "}", DoubleQuote}
  \/ e.op = "str" /\ \E k \in DOMAIN e.name : Starts(e.name, k, <<".", "?">>) /\ (k > 1 => ~IsBase(e.name[k - 1]))

(* Whatever way an expression is spelled, with the fewest parentheses or   *)
(* all of them, with functions in method position, or in CEL's spelling    *)
(* that is rewritten as text, it is parsed to what its author meant: no    *)
(* precedence, no associativity, no reading of a dotted name or of a       *)
(* quoted bracket turns it into another expression or into none, but for   *)
(* the seven readings above, each with its own way out.                    *)
MeaningIsKept ==
  LET Somewhere(Reading(_, _)) == \E e \in Nodes(job.ast) : Reading(job.style, e)
      torn == Somewhere(LooseArgument) \/ Somewhere(NestedArgument) \/ Somewhere(LostReceiver) \/ Somewhere(Spoken)
              \/ Somewhere(BoundQuotes)
  IN /\ phase = "rejected" => torn \/ Somewhere(OpensCall)
     /\ phase = "looping" => Somewhere(Unending)
     /\ phase = "aborted" => Somewhere(LostReceiver)
     /\ phase \in {"built", "checked", "done"} => ast = job.ast \/ torn

(* The two lists of functions agree, the one a configuration is checked    *)
(* with and the one the evaluator answers for: what passes the check is    *)
(* never an unknown function when it runs, and a call the check complains  *)
(* of cannot be made.  (`get`, which only the check knows, is no job.)     *)
NamesResolve ==
  phase = "done" =>
    /\ unknown = <<>> => result.err # "unknown function"
    /\ (job.ast.op = "call" /\ unknown = job.ast.name) => result.err = "unknown function"

Leaf(op, name) == Ast(op, name, <<>>)
RECURSIVE Literal(_)
Literal(v) ==
  CASE v.t = "string" -> Leaf("str", v.s)
    [] v.t = "number" -> Leaf("num", <<CHOOSE d \in Digits : DigitValue[d] = v.n>>)
    [] v.t = "bool" -> Leaf(IF True(v) THEN "true" ELSE "false", <<>>)
    [] v.t = "nil" -> Leaf("nil", <<>>)
    [] v.t = "list" -> Ast("list", <<>>, [k \in DOMAIN v.xs |-> Literal(v.xs[k])])
    [] v.t = "map" -> LET es == SetToSeq(v.m)
                      IN Ast("map", <<>>, FlattenSeq([k \in DOMAIN es |-> <<Leaf("str", es[k].key), Literal(es[k].value)>>]))

\* e with every free use of a name, or of #, replaced.
RECURSIVE Subst(_, _, _)
Subst(e, what, by) ==
  IF e = what THEN by
  ELSE [e EXCEPT !.args = [k \in DOMAIN e.args |->
          IF \/ e.op = "closure" /\ what.op = "#"
             \/ e.op = "let" /\ k = 2 /\ what = Leaf("ident", e.name)
          THEN e.args[k] ELSE Subst(e.args[k], what, by)]]

RECURSIVE AnyOf(_)
AnyOf(es) == IF es = <<>> THEN Leaf("false", <<>>) ELSE Ast("||", <<>>, <<Head(es), AnyOf(Tail(es))>>)

(* A name is worth what it was bound to, everywhere in the body and only   *)
(* there, whatever the name hides and however bodies nest: `let` is the    *)
(* body with the value written in, `any` the disjunction of its body with  *)
(* the items written in, effects and requests included.                    *)
BindingsAreSubstitutions ==
  LET args == job.ast.args
      let == job.ast.op = "let"
      any == job.ast.op = "call" /\ job.ast.name = <<"any">> /\ Len(args) = 2 /\ args[2].op = "closure"
      WrittenIn(v) == IF let THEN Subst(args[2], Leaf("ident", job.ast.name), Literal(v))
                      ELSE AnyOf([k \in DOMAIN v.xs |-> Subst(args[2].args[1], Leaf("#", <<>>), Literal(v.xs[k]))])
  IN (phase = "done" /\ job.env.validating /\ (let \/ any)) =>
       \E r \in {EvalIn(job.env, args[1], Start(job.env))} :
         r.ok /\ (any => r.v.t = "list") => result = EvalIn(job.env, WrittenIn(r.v), r.st)

Reached(v, step) ==
  IF v.t = "map" /\ step.t = "string" THEN Get(v.m, step.s)
  ELSE IF v.t = "list" /\ step.t = "number" /\ step.n < Len(v.xs) THEN v.xs[step.n + 1] ELSE Nil

(* A response is what the server said: the value at the end of an optional *)
(* path is the one in the document that was rendered, the default if the   *)
(* path breaks off anywhere or the body is no JSON, and never a failure;   *)
(* and what json.string writes, the reader reads back.  A body that is cut *)
(* short is no JSON, unless only blanks are cut.                           *)
ResponsesAreRead ==
  (phase = "done" /\ job.probe # {}) =>
    \E p \in job.probe : \E v \in {FoldLeft(Reached, p.doc, p.path)} :
      /\ result.ok
      /\ result.v = IF v = Nil THEN p.default ELSE v
=============================================================================
