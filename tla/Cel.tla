-------------------------------- MODULE Cel ---------------------------------
(***************************************************************************)
(* The rewriting of CEL spellings, done on the text before it is lexed.    *)
(* Two rewritings may not come back with a text: one raises, and one does  *)
(* not advance; what they leave is a text that ends in a piece that says   *)
(* so.                                                                     *)
(***************************************************************************)
EXTENDS Syntax

Stuck == "stuck"      \* the loop goes on at the same index for ever
Panic == "panic"      \* a slice from a higher to a lower index
Refused == "refused"  \* the rewriting names what is wrong

Trimmed(s) ==
  LET solid == {i \in DOMAIN s : s[i] \notin Blanks}
  IN IF solid = {} THEN <<>> ELSE SubSeq(s, Min(solid), Max(solid))

Bind == <<"cel", ".", "bind", "(">>
RawQuote == <<DoubleQuote, DoubleQuote, DoubleQuote>>
OrValue == <<".", "orValue", "(">>
Env == <<"env", "(">>
NowCast == <<"string", "(", "time", ".", "now_unix", "(", ")", ")">>
Methods == <<"contains", "replace", "substring", "lastIndexOf">>

NeedsCelCompat(s) ==
  \E needle \in {Bind, <<"r">> \o RawQuote, <<".", "?">>, <<"[", "?", DoubleQuote>>, OrValue, NowCast, Env}
                  \cup {<<".", m, "(">> : m \in ToSet(Methods)} : Find(s, needle, 1) # 0

(***************************************************************************)
(* Brackets and quotes.                                                    *)
(***************************************************************************)
\* Before each piece from `from` on: the quote that is open, and whether the piece is escaped.
Quoting(s, from) ==
  LET Q[i \in from..(Len(s) + 1)] ==
        IF i = from THEN [quote |-> "", escaped |-> FALSE]
        ELSE LET before == Q[i - 1]  c == s[i - 1] IN
             IF before.escaped THEN [before EXCEPT !.escaped = FALSE]
             ELSE IF before.quote = "" THEN [before EXCEPT !.quote = IF c \in Quotes THEN c ELSE ""]
             ELSE IF c = Backslash THEN [before EXCEPT !.escaped = TRUE]
             ELSE IF c = before.quote THEN [before EXCEPT !.quote = ""]
             ELSE before
  IN Q

\* How deep each piece lies in one kind of bracket, the piece itself included; quoted ones do not count.
Depth(s, from, open, close) ==
  LET quoting == Quoting(s, from)
      D[i \in from..Len(s)] ==
        (IF i = from THEN 0 ELSE D[i - 1])
          + (IF quoting[i].quote # "" THEN 0 ELSE IF s[i] = open THEN 1 ELSE IF s[i] = close THEN -1 ELSE 0)
  IN D

\* Mutant: parentheses in a string count.
MatchingParenBlind(s, open) ==
  LET Of(i, p) == Len(SelectSeq(SubSeq(s, open, i), LAMBDA c : c = p))
      ends == {i \in open..Len(s) : s[i] = ")" /\ Of(i, "(") = Of(i, ")")}
  IN IF ends = {} THEN 0 ELSE Min(ends)

MatchingParen(s, open) ==
  LET depth == Depth(s, open, "(", ")")
      ends == {i \in open..Len(s) : depth[i] = 0 /\ s[i] = ")"}
  IN IF ends = {} THEN 0 ELSE Min(ends)

\* The same from the right, where a quote counts unless a backslash is before it.
MatchingOpen(s, close, open) ==
  LET Q[i \in 1..close] ==   \* the quote open after s[i], read from the right
        IF i = close THEN ""
        ELSE LET after == Q[i + 1]  c == s[i + 1] IN
             IF after # "" THEN IF c = after /\ s[i] # Backslash THEN "" ELSE after
             ELSE IF c \in Quotes THEN c ELSE ""
      D[i \in 1..close] ==
        (IF i = close THEN 0 ELSE D[i + 1])
          + (IF Q[i] # "" THEN 0 ELSE IF s[i] = s[close] THEN 1 ELSE IF s[i] = open THEN -1 ELSE 0)
      starts == {i \in 1..close : s[i] = open /\ Q[i] = "" /\ D[i] = 0}
  IN IF starts = {} THEN 0 ELSE Max(starts)

(***************************************************************************)
(* cel.bind(name, value, body).                                            *)
(***************************************************************************)
Brackets == { <<"(", ")">>, <<"[", "]">>, <<"{", "}">> }
Depths(s) == {Depth(s, 1, b[1], b[2]) : b \in Brackets}
Unbalanced(s) == \E depth \in Depths(s), i \in DOMAIN s : depth[i] < 0
SplitTopLevelArgs(s) ==
  LET quoting == Quoting(s, 1)
      commas == SetToSortSeq({i \in DOMAIN s : /\ s[i] = "," /\ quoting[i].quote = ""
                                               /\ \A depth \in Depths(s) : depth[i] = 0}, <)
      From(k) == IF k = 1 THEN 1 ELSE commas[k - 1] + 1
      To(k) == IF k > Len(commas) THEN Len(s) ELSE commas[k] - 1
  IN [k \in 1..(Len(commas) + 1) |-> Trimmed(SubSeq(s, From(k), To(k)))]

RECURSIVE RewriteBinds(_), Bound(_, _, _, _)
Bound(s, at, end, args) ==
  IF Len(args) # 3 \/ args[1] = <<>> THEN <<Refused>>
  ELSE RewriteBinds(Cut(s, at, end, <<"(", "let", " ">> \o args[1] \o <<" ", "=", " ">> \o args[2]
                                      \o <<";", " ">> \o args[3] \o <<")">>))
RewriteBinds(s) ==
  LET at == Find(s, Bind, 1)
      end == MatchingParen(s, at + 3)
      inside == SubSeq(s, at + 4, end - 1)
  IN IF at = 0 THEN s
     ELSE IF end = 0 \/ Unbalanced(inside) THEN <<Refused>>
     ELSE Bound(s, at, end, SplitTopLevelArgs(inside))

(***************************************************************************)
(* Raw strings, optional fields and indexes.                               *)
(***************************************************************************)
RECURSIVE RewriteRawStrings(_)
RewriteRawStrings(s) ==
  LET at == Find(s, <<"r">> \o RawQuote, 1)
      end == Find(s, RawQuote, at + 4)
  IN IF at = 0 \/ end = 0 THEN s
     ELSE SubSeq(s, 1, at - 1) \o <<Backtick>> \o SubSeq(s, at + 4, end - 1) \o <<Backtick>>
            \o RewriteRawStrings(SubSeq(s, end + 3, Len(s)))

IsBase(p) == IsLetters(p) \/ p \in Digits \/ p = "."
OptField(s, i) == Starts(s, i, <<".", "?">>) /\ i + 2 <= Len(s) /\ IsLetters(s[i + 2])

\* base.?a[0].?b.orValue(default) becomes (base?.a?.[0]?.b ?? default).
RECURSIVE RewriteOptionalArray(_, _)
RewriteOptionalArray(s, i) ==
  IF i > Len(s) THEN <<>>
  ELSE IF ~IsBase(s[i]) \/ (i > 1 /\ IsBase(s[i - 1])) THEN <<s[i]>> \o RewriteOptionalArray(s, i + 1)
  ELSE LET j == CHOOSE j \in i..(Len(s) + 1) :
                  /\ \A k \in i..(j - 1) : IsBase(s[k]) /\ ~Starts(s, k, <<".", "?">>)
                  /\ j <= Len(s) => ~IsBase(s[j]) \/ Starts(s, j, <<".", "?">>)
           close == Find(s, <<")">>, j + 12)
       IN IF /\ OptField(s, j) /\ j + 5 <= Len(s) /\ s[j + 3] = "[" /\ s[j + 4] \in Digits /\ s[j + 5] = "]"
             /\ OptField(s, j + 6) /\ Starts(s, j + 9, OrValue)
             /\ close # 0 /\ \A k \in (j + 12)..close : s[k] # "("
          THEN <<"(">> \o SubSeq(s, i, j - 1) \o <<"?", ".", s[j + 2], "?", ".", "[", s[j + 4], "]", "?", ".", s[j + 8]>>
                 \o <<" ", "?", "?", " ">> \o SubSeq(s, j + 12, close - 1) \o <<")">>
                 \o RewriteOptionalArray(s, close + 1)
          ELSE IF j = i THEN <<Stuck>>
          ELSE SubSeq(s, i, j - 1) \o RewriteOptionalArray(s, j)

RECURSIVE RewriteOptionalIndex(_)
RewriteOptionalIndex(s) ==
  LET at == Find(s, <<"[", "?", DoubleQuote>>, 1)
      end == Find(s, <<DoubleQuote>>, at + 3)
  IN IF at = 0 \/ end = 0 THEN s
     ELSE SubSeq(s, 1, at) \o SubSeq(s, at + 2, end) \o RewriteOptionalIndex(SubSeq(s, end + 1, Len(s)))

RewriteOptionalField(s) ==
  [i \in DOMAIN s |-> IF OptField(s, i) THEN "?" ELSE IF i > 1 /\ OptField(s, i - 1) THEN "." ELSE s[i]]

(***************************************************************************)
(* receiver.orValue(default) becomes (receiver ?? default).                *)
(***************************************************************************)
IsOrValueReceiver(p) == IsLetters(p) \/ p \in Digits \/ p \in {"]", ")", DoubleQuote, "?", "."}

\* One pass over the occurrences from `from` on; the first `copied` pieces are done.
RECURSIVE OrValuePass(_, _, _)
OrValuePass(s, copied, from) ==
  LET at == Find(s, OrValue, from)
      args == at + 3
      close == Find(s, <<")">>, args)
      open == {i \in 1..(at - 1) : s[i] = "["}
      indexed == IF at > 1 /\ s[at - 1] = "]" /\ open # {} THEN Max(open) ELSE at
      start == CHOOSE i \in 1..indexed : /\ \A k \in i..(indexed - 1) : k > copied /\ IsOrValueReceiver(s[k])
                                         /\ i > 1 => ~(i - 1 > copied /\ IsOrValueReceiver(s[i - 1]))
  IN IF at = 0 \/ close = 0 THEN SubSeq(s, copied + 1, Len(s))
     ELSE IF (\E k \in args..close : s[k] = "(") \/ start = at THEN OrValuePass(s, copied, args)
     ELSE IF start <= copied THEN <<Panic>>
     ELSE SubSeq(s, copied + 1, start - 1)
            \o <<"(">> \o SubSeq(s, start, at - 1) \o <<" ", "?", "?", " ">> \o SubSeq(s, args, close - 1) \o <<")">>
            \o OrValuePass(s, close, close + 1)

RECURSIVE RewriteOrValues(_)
RewriteOrValues(s) == LET next == OrValuePass(s, 0, 1) IN IF next = s THEN s ELSE RewriteOrValues(next)

(***************************************************************************)
(* receiver.method(args) becomes method(receiver, args), for `contains`    *)
(* (receiver contains args).                                               *)
(***************************************************************************)
IsReceiver(p) == IsLetters(p) \/ p \in Digits \/ p \in {".", "?", DoubleQuote, "'"}

\* Where the receiver that ends at i begins, 0 if one of its brackets has no partner.
RECURSIVE ReceiverStart(_, _)
ReceiverStart(s, i) ==
  IF i = 0 THEN 1
  ELSE IF s[i] \in {")", "]"}
    THEN LET open == MatchingOpen(s, i, IF s[i] = ")" THEN "(" ELSE "[")
         IN IF open = 0 THEN 0 ELSE ReceiverStart(s, open - 1)
  ELSE IF IsReceiver(s[i]) THEN ReceiverStart(s, i - 1)
  ELSE i + 1

RECURSIVE RewriteMethodCalls(_, _)
RewriteMethodCalls(s, method) ==
  LET dot == Find(s, <<".", method, "(">>, 1)
      solid == {i \in 1..(dot - 1) : \A k \in i..(dot - 1) : s[k] \in Blanks}
      last == IF solid = {} THEN dot - 1 ELSE Min(solid) - 1
      start == ReceiverStart(s, last)
      end == MatchingParen(s, dot + 2)
      receiver == Trimmed(SubSeq(s, start, dot - 1))
      args == Trimmed(SubSeq(s, dot + 3, end - 1))
      call == IF method = "contains" THEN <<"(">> \o receiver \o <<" ", "contains", " ">> \o args \o <<")">>
              ELSE <<method, "(">> \o receiver \o (IF args = <<>> THEN <<>> ELSE <<",", " ">> \o args) \o <<")">>
  IN IF dot = 0 THEN s
     ELSE IF start = 0 \/ end = 0 THEN <<Refused>>
     ELSE RewriteMethodCalls(Cut(s, start, end, call), method)

RECURSIVE RewriteEnvAlias(_, _)
RewriteEnvAlias(s, from) ==
  LET at == Find(s, Env, from)
  IN IF at = 0 THEN s ELSE RewriteEnvAlias(Cut(s, at, at, <<"env", ".", "get">>), at + 4)

RewriteNowCast(s) == Replaced(s, NowCast, <<"time", ".", "now_unix", "(", ")">>)

StripTopLevelLetParens(s) ==
  LET t == Trimmed(s)
  IN IF Starts(t, 1, <<"(", "let", " ">>) /\ MatchingParen(t, 1) = Len(t) THEN SubSeq(t, 2, Len(t) - 1) ELSE s

Ended(s) == s = <<>> \/ Last(s) \notin {Stuck, Panic, Refused}

\* The passes in turn, until one does not come back with a text.
Optionals(s) ==
  IF Ended(s) THEN RewriteOrValues(RewriteOptionalField(RewriteOptionalIndex(s))) ELSE s
Arrays(s) == IF Ended(s) THEN RewriteOptionalArray(RewriteRawStrings(s), 1) ELSE s
RECURSIVE Called(_, _)
Called(s, methods) ==
  IF Ended(s) /\ methods # <<>> THEN Called(RewriteMethodCalls(s, Head(methods)), Tail(methods)) ELSE s
Aliases(s) == IF Ended(s) THEN StripTopLevelLetParens(RewriteEnvAlias(RewriteNowCast(s), 1)) ELSE s

RewriteCelCompat(s) == Aliases(Called(Optionals(Arrays(RewriteBinds(s))), Methods))
=============================================================================
