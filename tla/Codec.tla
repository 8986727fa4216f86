------------------------------- MODULE Codec --------------------------------
(***************************************************************************)
(* Decoding a text in place (betterleaks codec): where the encoded runs    *)
(* are, what they decode to, and the arithmetic that leads from a range of *)
(* a decoded text back to the range of the file it came from.              *)
(*                                                                         *)
(* A text is a sequence of pieces.  A piece has a kind, a width in bytes,  *)
(* an identity (what a regular expression sees), what it decodes to if it  *)
(* is encoded (<<>>: not to printable text), and two fields that the       *)
(* program does not have and the properties need: the range of the file it *)
(* came from, and the pass that produced it.                               *)
(***************************************************************************)
EXTENDS Integers, Sequences, SequencesExt, FiniteSets, FiniteSetsExt

Piece(kind, id, width, inner) ==
  [kind |-> kind, id |-> id, width |-> width, inner |-> inner, from |-> <<0, 0>>, born |-> 0]

Encodings == {"percent", "code point", "escape", "hex", "base64"}

\* The characters [\w/+-]: such pieces side by side are one run to the scanner.
Base64Class == {"word", "hex", "base64", "code point"}

Precedence(kind) ==
  CASE kind = "percent" -> 4 [] kind \in {"code point", "escape"} -> 3 [] kind = "hex" -> 2 [] OTHER -> 1

StartOf(text, i) == FoldLeft(LAMBDA a, p : a + p.width, 0, SubSeq(text, 1, i - 1))
SpanOf(text, i, j) == <<StartOf(text, i), StartOf(text, j + 1)>>

(* StartEnd: both ends count, so ranges that touch overlap. *)
Overlaps(a, b) == b[1] <= a[2] /\ b[2] >= a[1]
Covers(a, b) == a[1] <= b[1] /\ b[2] <= a[2]
Merge(a, b) == <<Min({a[1], b[1]}), Max({a[2], b[2]})>>
Overflow(a, b) == <<Merge(a, b)[1] - a[1], Merge(a, b)[2] - a[2]>>
Hull(ranges) == <<Min({r[1] : r \in ranges}), Max({r[2] : r \in ranges})>>

(***************************************************************************)
(* The scanner: where the run that starts at piece i ends, 0 if none does. *)
(***************************************************************************)
Blank(piece) == piece.kind \in {"blank", "newline"}
Delimited(text, j) == j = Len(text) \/ Blank(text[j + 1])
SameKind(text, i, j, kinds) == \A k \in i..j : text[k].kind \in kinds

\* From the first %XX of a line to the last, whatever lies between them.
PercentRun(text, i) ==
  Max({j \in i..Len(text) : text[j].kind = "percent" /\ \A k \in i..j : text[k].kind # "newline"})
\* U+XXXX, each followed by white space or by the end.
CodePointRun(text, i) ==
  Max({j \in i..Len(text) : /\ text[j].kind = "code point"
                            /\ \A k \in i..j : \/ Blank(text[k])
                                               \/ text[k].kind = "code point" /\ Delimited(text, k)})
EscapeRun(text, i) == Max({j \in i..Len(text) : SameKind(text, i, j, {"escape"})})
Base64Run(text, i) == Max({j \in i..Len(text) : SameKind(text, i, j, Base64Class)})

RunEnd(text, i) ==
  CASE text[i].kind = "percent" -> PercentRun(text, i)
    [] text[i].kind = "code point" /\ Delimited(text, i) -> CodePointRun(text, i)
    [] text[i].kind = "escape" -> EscapeRun(text, i)
    [] text[i].kind \in Base64Class -> Base64Run(text, i)
    [] OTHER -> i

\* Other characters of [\w/+-] beside a hex or base64 piece leave a run that decodes to nothing.
IsMatch(text, i, j) ==
  \/ text[i].kind \in {"percent", "escape"}
  \/ text[i].kind = "code point" /\ Delimited(text, i)
  \/ i = j /\ text[i].kind \in {"hex", "base64"}

AllMatches(text) ==
  LET Scan[i \in 1..(Len(text) + 1)] ==
        IF i > Len(text) THEN <<>>
        ELSE LET j == RunEnd(text, i) IN
             (IF IsMatch(text, i, j) THEN <<[first |-> i, last |-> j, kind |-> text[i].kind]>> ELSE <<>>)
               \o Scan[j + 1]
  IN Scan[1]

\* A run that touches one of higher precedence is left for a later pass.
FindEncodingMatches(text) ==
  LET all == AllMatches(text)
      Extent(m) == SpanOf(text, m.first, m.last)
      Yields(m, n) == Overlaps(Extent(m), Extent(n)) /\ Precedence(n.kind) > Precedence(m.kind)
      kept == {x \in DOMAIN all : \A y \in {x - 1, x + 1} \cap DOMAIN all : ~Yields(all[x], all[y])}
  IN [x \in 1..Cardinality(kept) |-> all[CHOOSE k \in kept : Cardinality({z \in kept : z <= k}) = x]]

(***************************************************************************)
(* What a run decodes to: <<>> if any of it is not printable.              *)
(***************************************************************************)
DecodeForKind(text, m) ==
  LET run == SubSeq(text, m.first, m.last)
      bad == \E k \in DOMAIN run : run[k].kind = m.kind /\ run[k].inner = <<>>
      from == Hull({run[k].from : k \in DOMAIN run})
      Bare(piece) == IF piece.kind = m.kind THEN piece.inner
                     ELSE IF m.kind = "code point" THEN <<>> ELSE <<piece>>
      out == FlattenSeq([k \in DOMAIN run |-> Bare(run[k])])
  IN IF bad THEN <<>> ELSE [k \in DOMAIN out |-> [out[k] EXCEPT !.from = from]]

RECURSIVE ToOriginal(_, _)
ToOriginal(predecessors, range) ==
  LET over == SelectSeq(predecessors, LAMBDA p : Overlaps(p.decoded, range))
      whole == SelectSeq(over, LAMBDA p : Covers(p.decoded, range))
      Back(p) == LET o == Overflow(p.decoded, range) IN <<p.encoded[1] + o[1], p.encoded[2] + o[2]>>
  IN IF over = <<>> THEN range
     ELSE IF whole # <<>> THEN whole[1].original
     ELSE ToOriginal(predecessors[1].predecessors, Hull({Back(over[k]) : k \in DOMAIN over}))

Width(text) == StartOf(text, Len(text) + 1)

\* Mutant: a segment is not moved by what the ones before it gained or lost.
SegmentsUnshifted(text, predecessors) ==
  LET Segment(m) ==
        LET encoded == SpanOf(text, m.first, m.last)
            value == DecodeForKind(text, m)
            over == {k \in DOMAIN predecessors : Overlaps(encoded, predecessors[k].decoded)}
        IN [predecessors |-> predecessors, original |-> ToOriginal(predecessors, encoded),
            encoded |-> encoded, decoded |-> <<encoded[1], encoded[1] + Width(value)>>,
            value |-> value, run |-> <<m.first, m.last>>,
            encodings |-> {m.kind} \cup UNION {predecessors[k].encodings : k \in over},
            depth |-> IF predecessors = <<>> THEN 1 ELSE 1 + predecessors[1].depth]
      matches == SelectSeq(FindEncodingMatches(text), LAMBDA m : DecodeForKind(text, m) # <<>>)
  IN [k \in DOMAIN matches |-> Segment(matches[k])]

Shifted(flat) ==
  LET Grown(k) == Width(flat[k].value) - (flat[k].encoded[2] - flat[k].encoded[1])
      Shift(k) == MapThenSumSet(Grown, 1..(k - 1))
  IN [k \in DOMAIN flat |-> [flat[k] EXCEPT !.decoded = <<@[1] + Shift(k), @[2] + Shift(k)>>]]
FindEncodedSegments(text, predecessors) == Shifted(SegmentsUnshifted(text, predecessors))

Spliced(text, segments) ==
  LET depth == IF segments = <<>> THEN 0 ELSE segments[1].depth
      In(i) == {k \in DOMAIN segments : i \in segments[k].run[1]..segments[k].run[2]}
      At(i) == IF In(i) = {} THEN <<text[i]>>
               ELSE LET s == segments[CHOOSE k \in In(i) : TRUE]
                    IN IF i # s.run[1] THEN <<>>
                       ELSE [k \in DOMAIN s.value |-> [s.value[k] EXCEPT !.born = depth]]
  IN [text |-> FlattenSeq([i \in DOMAIN text |-> At(i)]), segments |-> segments]
Decode(text, predecessors) == Spliced(text, FindEncodedSegments(text, predecessors))

(***************************************************************************)
(* What a match in the decoded text says of itself.                        *)
(***************************************************************************)
SegmentsWithDecodedOverlap(segments, range) ==
  SelectSeq(segments, LAMBDA s : Overlaps(s.decoded, range))

AdjustMatchIndex(segments, range) == IF segments = <<>> THEN range ELSE ToOriginal(segments, range)

Tags(segments) ==
  IF segments = <<>> THEN [kinds |-> {}, depth |-> 0]
  ELSE [kinds |-> UNION {segments[k].encodings : k \in DOMAIN segments}, depth |-> segments[1].depth]
=============================================================================
