------------------------------- MODULE Detect -------------------------------
(***************************************************************************)
(* The detection engine (betterleaks detect): one fragment of a file, the  *)
(* keyword prefilter, the rules from the most specific down, the passes    *)
(* over what decodes, composite rules, and what is left out of the report. *)
(***************************************************************************)
EXTENDS Codec, Rules

CONSTANTS
  Jobs,    \* what may be asked: [root: a catalogue, text: a fragment, path,
           \*   options: [decodeDepth, minConfidence, redact], ignore: the ignore
           \*   file, <<path, rule, line>>, baseline: [rule, line, secret]]
  MaxSets  \* MAX_COMPONENT_SETS

AllowMark == "allow"
ConfigPath == "config"

VARIABLES
  phase,     \* "load", "pass", "rules", "decode", "report", "done", "failed"
  config,    \* the catalogue
  job,       \* what is asked
  raw,       \* current_raw
  segments,  \* encoded_segments
  depth,
  todo,      \* rules still to run in this pass
  findings,
  report,
  texts      \* the text of every pass so far

vars == <<phase, config, job, raw, segments, depth, todo, findings, report, texts>>

Placed(text) == [i \in DOMAIN text |-> [text[i] EXCEPT !.from = SpanOf(text, i, i)]]

Init ==
  /\ phase = "load"
  /\ \E j \in Jobs : job = [j EXCEPT !.text = Placed(@)]
  /\ config = Failed
  /\ raw = <<>> /\ segments = <<>> /\ depth = 0 /\ todo = <<>>
  /\ findings = <<>> /\ report = <<>> /\ texts = <<>>

(***************************************************************************)
(* Lines: location() on the fragment.                                      *)
(***************************************************************************)
Newlines == {StartOf(job.text, i) : i \in {i \in DOMAIN job.text : job.text[i].kind = "newline"}}
\* A fragment without a newline is given one at its end.
Breaks == IF Newlines = {} THEN {Width(job.text)} ELSE Newlines
\* line_set: not for a match behind the last newline, which is taken for a diff's last line.
LineSet(range) == \E n \in Breaks : n > range[1]
\* A match that begins on a line with a newline and ends behind the last one
\* has its end nowhere.
EndSet(range) == ~LineSet(range) \/ \E n \in Breaks : n >= range[2]
StartLine(range) == Cardinality({n \in Breaks : n <= range[1]})
EndLine(range) ==
  IF LineSet(range) /\ EndSet(range) THEN Cardinality({n \in Breaks : n < range[2]}) ELSE StartLine(range)
PrevNewline(pos) == Max({0} \cup {n \in Newlines : n <= pos})
StartColumn(range) == range[1] - PrevNewline(range[1]) + 1
EndColumn(range) == IF EndSet(range) THEN range[2] - Max({0} \cup {n \in Newlines : n < range[2]}) ELSE 0
LineEnd(pos) == IF \E n \in Newlines : n >= pos THEN Min({n \in Newlines : n >= pos}) ELSE Width(job.text)

\* finding.line: the lines of the file that the range is on, as the report shows
\* them.  start_line_index stays 0 where line_set is false, so a match behind the
\* last newline is shown with everything before it.
LineIds(range) ==
  LET from == IF LineSet(range) THEN PrevNewline(range[1]) ELSE 0
      to == IF EndSet(range) THEN LineEnd(range[2]) ELSE range[2]
  IN {job.text[i].id : i \in {i \in DOMAIN job.text :
        StartOf(job.text, i) >= from /\ StartOf(job.text, i) < to}}
ContainsAllowSignature(range) == AllowMark \in LineIds(range)

(***************************************************************************)
(* One rule over the current text: detect_fragment_with_rule.              *)
(***************************************************************************)
Ids(text, i, j) == [k \in 1..(j - i + 1) |-> text[i + k - 1].id]

\* Where a rule's regular expression matches, left to right.
RuleMatches(r, text) ==
  LET hits == {m \in (DOMAIN text) \X (DOMAIN text) : m[1] <= m[2] /\ Ids(text, m[1], m[2]) \in r.regex}
  IN SetToSortSeq(hits, LAMBDA a, b : a[1] < b[1])

\* The secret: the group the rule asks for; a group the expression has not yields none.
SecretOf(r, ids) == IF r.group >= Len(ids) THEN <<>> ELSE SubSeq(ids, r.group + 1, Len(ids))

IsSuppressedByHigher(f, others) ==
  \E k \in DOMAIN others :
    \/ /\ others[k].line = f.line /\ others[k].rule # f.rule
       /\ f.secret \in SubSeqs(others[k].secret) /\ others[k].specificity > f.specificity
    \/ \E c \in others[k].components :
         /\ c.line = f.line /\ c.rule # f.rule
         /\ f.secret \in SubSeqs(c.secret) /\ c.specificity > f.specificity

Finding(r, range, secret, tags, origin) ==
  [rule |-> r.id, specificity |-> r.specificity, confidence |-> r.confidence, range |-> range,
   line |-> StartLine(range), end |-> EndLine(range), column |-> StartColumn(range),
   endColumn |-> EndColumn(range), secret |-> secret, components |-> {}, tags |-> tags, origin |-> origin]

PathOnlyFinding(r) ==
  [Finding(r, <<0, 0>>, <<>>, Tags(<<>>), <<0, 0>>) EXCEPT !.line = 1, !.end = 1]

Dropped(r, f, prior) ==
  \/ ContainsAllowSignature(f.range)
  \/ r.group > r.groups
  \/ IsSuppressedByHigher(f, prior)
  \/ Skips(config.filter, config.allowlists, job.path, f.secret)
  \/ Skips(r.filter, r.allowlists, job.path, f.secret)
Kept(r, f, prior) == IF Dropped(r, f, prior) THEN <<>> ELSE <<f>>

\* What one match becomes, <<>> if nothing.
FromMatch(r, m, prior) ==
  LET here == SpanOf(raw, m[1], m[2])
      over == SegmentsWithDecodedOverlap(segments, here)
  IN IF segments # <<>> /\ over = <<>> THEN <<>>
     ELSE Kept(r, Finding(r, AdjustMatchIndex(over, here), SecretOf(r, Ids(raw, m[1], m[2])), Tags(over),
                          Hull({raw[k].from : k \in m[1]..m[2]})), prior)

OfRule(r, inherited, prior) ==
  LET matches == RuleMatches(r, raw)
  IN IF r.skipReport /\ ~inherited THEN <<>>
     ELSE IF r.path # {} /\ r.regex = {} /\ segments = <<>>
       THEN IF job.path \in r.path THEN <<PathOnlyFinding(r)>> ELSE <<>>
     ELSE IF r.path # {} /\ job.path \notin r.path THEN <<>>
     ELSE FlattenSeq([k \in DOMAIN matches |-> FromMatch(r, matches[k], prior)])

(***************************************************************************)
(* Composite rules: process_components.                                    *)
(***************************************************************************)
LineStart(n) == IF n = 0 THEN 0
                ELSE 1 + CHOOSE x \in Newlines : Cardinality({y \in Newlines : y <= x}) = n

WithinProximity(f, c, w) ==
  CASE w.mode = "none" -> TRUE
    [] w.mode = "columns" ->
         LET at == LineStart(c.line) + c.column - 1
         IN /\ at >= LineStart(f.line) + f.column - 1 - w.columns
            /\ at < Min({LineStart(f.end) + f.endColumn + w.columns, Width(job.text)})
    [] w.mode = "box" ->
         /\ c.line >= f.line - w.lines /\ c.line <= f.end + w.lines
         /\ (f.line = f.end /\ w.columns > 0) =>
              /\ c.column >= f.column - w.columns
              /\ c.column <= f.endColumn + w.columns

\* A component whose window cannot be parsed, or whose rule is not in the catalogue, has no findings.
ComponentFindings(c) ==
  IF c.within.mode = "bad" \/ c.id \notin DOMAIN config.rules THEN <<>>
  ELSE OfRule(config.rules[c.id], TRUE, <<>>)

\* build_component_sets: one finding per component rule, at most MaxSets combinations.
Surfaced(near) ==
  LET Rows[k \in 1..(Len(near) + 1)] ==
        IF k > Len(near) THEN <<<<>>>>
        ELSE LET all == FlattenSeq([i \in DOMAIN near[k] |->
                          [t \in DOMAIN Rows[k + 1] |-> <<near[k][i]>> \o Rows[k + 1][t]]])
             IN SubSeq(all, 1, Min({MaxSets, Len(all)}))
  IN UNION {ToSet(Rows[1][t]) : t \in DOMAIN Rows[1]}

\* found: the findings of each component's rule.
Completed(r, primaries, found) ==
  LET Near(f, k) == SelectSeq(found[k], LAMBDA x : WithinProximity(f, x, r.components[k].within))
      Complete(f) == \A k \in DOMAIN r.components : r.components[k].optional \/ Near(f, k) # <<>>
      Rendered(x) == [rule |-> x.rule, specificity |-> x.specificity, line |-> x.line, secret |-> x.secret]
      With(f) == \* a component's list that is empty is left out
        LET lists == SelectSeq([k \in DOMAIN r.components |-> Near(f, k)], LAMBDA l : l # <<>>)
        IN [f EXCEPT !.components = {Rendered(x) : x \in IF lists = <<>> THEN {} ELSE Surfaced(lists)}]
      complete == SelectSeq(primaries, Complete)
  IN [k \in DOMAIN complete |-> With(complete[k])]

ProcessComponents(r, primaries) ==
  IF r.components = <<>> THEN primaries
  ELSE Completed(r, primaries, [k \in DOMAIN r.components |-> ComponentFindings(r.components[k])])

DetectFragmentWithRule(r) == ProcessComponents(r, OfRule(r, FALSE, findings))

(***************************************************************************)
(* A fragment from the catalogue to the report.                            *)
(***************************************************************************)
Rank(confidence) == CASE confidence = "low" -> 1 [] confidence = "medium" -> 2 [] confidence = "high" -> 3 [] OTHER -> 0
Meets(value, minimum) == minimum = "" \/ Rank(value) = 0 \/ Rank(value) >= Rank(minimum)

LoadCatalogue ==
  /\ phase = "load"
  /\ config' = Load(job.root)
  /\ phase' = IF ~config'.ok THEN "failed"
              ELSE IF job.path = ConfigPath \/ Prefiltered(config', job.path) THEN "done" ELSE "pass"
  /\ raw' = job.text
  /\ UNCHANGED <<job, segments, depth, todo, findings, report, texts>>

\* Mutant: keywords are looked for in the file instead of in the decoded text.
VisitFile(keywords) == {k \in keywords : \E i \in DOMAIN job.text : job.text[i].id = k}

\* The keywords that occur in the text, whatever their case.
Visit(keywords) == {k \in keywords : \E i \in DOMAIN raw : raw[i].id = k}
Marked(c) == NoKeywordRules(c) \cup UNION {KeywordToRules(c, k) : k \in Visit(Keywords(c))}

BeginPass ==
  /\ phase = "pass"
  /\ todo' = SelectSeq(RulesBySpecificity(config), LAMBDA id : id \in Marked(config))
  /\ texts' = Append(texts, raw)
  /\ phase' = "rules"
  /\ UNCHANGED <<config, job, raw, segments, depth, findings, report>>

RunRule ==
  /\ phase = "rules" /\ todo # <<>>
  /\ findings' = findings \o SelectSeq(DetectFragmentWithRule(config.rules[Head(todo)]),
                   LAMBDA f : Meets(f.confidence, job.options.minConfidence))
  /\ todo' = Tail(todo)
  /\ UNCHANGED <<phase, config, job, raw, segments, depth, report, texts>>

EndPass ==
  /\ phase = "rules" /\ todo = <<>>
  /\ depth' = depth + 1
  /\ phase' = IF depth' > job.options.decodeDepth THEN "report" ELSE "decode"
  /\ UNCHANGED <<config, job, raw, segments, todo, findings, report, texts>>

DecodePass ==
  /\ phase = "decode"
  /\ \E d \in {Decode(raw, segments)} :
       /\ raw' = d.text /\ segments' = d.segments
       /\ phase' = IF d.segments = <<>> THEN "report" ELSE "pass"
  /\ UNCHANGED <<config, job, depth, todo, findings, report, texts>>

\* filter: what is a component of another finding, and what a more specific one contains.
Filtered(all) ==
  LET components == UNION {{<<c.line, c.secret>> : c \in all[k].components} : k \in DOMAIN all}
  IN SelectSeq(all, LAMBDA f : <<f.line, f.secret>> \notin components /\ ~IsSuppressedByHigher(f, all))

IsIgnored(f) == <<job.path, f.rule, f.line>> \in job.ignore
IsNew(f) == ~\E b \in job.baseline : /\ b.rule = f.rule /\ b.line = f.line
                                     /\ job.options.redact \/ b.secret = f.secret

Report ==
  /\ phase = "report"
  /\ report' = SelectSeq(Filtered(findings), LAMBDA f : ~IsIgnored(f) /\ IsNew(f))
  /\ phase' = "done"
  /\ UNCHANGED <<config, job, raw, segments, depth, todo, findings, texts>>

Next == LoadCatalogue \/ BeginPass \/ RunRule \/ EndPass \/ DecodePass \/ Report
Spec == Init /\ [][Next]_vars

(***************************************************************************)
(* Properties.                                                             *)
(***************************************************************************)

\* Types; the segments are those of the last decoding, and no more texts are
\* looked at than the fragment and decodeDepth decodings of it.
TypeOK ==
  /\ phase \in {"load", "pass", "rules", "decode", "report", "done", "failed"}
  /\ \A k \in DOMAIN segments : segments[k].depth \in {depth, depth - 1}
  /\ Len(texts) <= job.options.decodeDepth + 1
  /\ ToSet(todo) \subseteq (IF config.ok THEN DOMAIN config.rules ELSE {})

\* A finding is where its secret is: however many encodings lie between them,
\* its range holds the bytes of the file that its match was decoded from, and
\* reaches no further than a run that touches them.  (to_original)
LocationsAreTrue ==
  \A k \in DOMAIN findings :
    LET f == findings[k]
        beside == {p.from : p \in {q \in ToSet(job.text) : Overlaps(q.from, f.origin)}}
    IN f.secret # <<>> => /\ Covers(f.range, f.origin)
                          /\ Covers(Hull(beside), f.range)
                          /\ f.tags.depth = 0 => f.range = f.origin

Origin(text, m) == Hull({text[k].from : k \in m[1]..m[2]})
TrueLine(pos) == Cardinality({i \in DOMAIN job.text : job.text[i].kind = "newline" /\ job.text[i].from[2] <= pos})
OnLine(n) == {job.text[i].id : i \in {i \in DOMAIN job.text : TrueLine(job.text[i].from[1]) = n}}

\* The mark is on the line, or, where the line is the last and no newline ends
\* it, on any line before it: there location() takes the whole text for the line.
MarkCounts(pos) ==
  LET last == TrueLine(Width(job.text))
  IN \E n \in 0..last : AllowMark \in OnLine(n) /\ (n = TrueLine(pos) \/ TrueLine(pos) = last)

\* A match that pass p is the first to see, that no mark counts for, and that
\* no filter and no allowlist is about.
Due(p, r, m) ==
  LET text == texts[p]  secret == SecretOf(r, Ids(text, m[1], m[2]))
  IN /\ \E k \in m[1]..m[2] : text[k].born = p - 1
     /\ r.path # {} => job.path \in r.path
     /\ r.group <= r.groups
     /\ ~MarkCounts(Origin(text, m)[1])
     /\ ~Skips(config.filter, config.allowlists, job.path, secret)
     /\ ~Skips(r.filter, r.allowlists, job.path, secret)

\* Every component the rule needs is seen by the same pass, well inside its window.
Accompanied(p, r, m) ==
  \A k \in {k \in DOMAIN r.components : ~r.components[k].optional} :
    LET c == r.components[k]  here == Origin(texts[p], m) IN
    /\ c.id \in DOMAIN config.rules /\ c.within.mode # "bad"
    /\ \E n \in ToSet(RuleMatches(config.rules[c.id], texts[p])) :
         LET there == Origin(texts[p], n)
             apart == TrueLine(here[1]) - TrueLine(there[1]) IN
         /\ Due(p, config.rules[c.id], n)
         /\ c.within.mode = "box" => apart \in (-c.within.lines)..c.within.lines
         /\ c.within.columns > 0 => /\ apart = 0 /\ there[1] >= here[1] - c.within.columns
                                    /\ there[1] < here[2] + c.within.columns

\* No secret is lost: when a fragment has been scanned, every match that a pass
\* uncovered is in the report, or is of a finding that was made, as one of
\* its components or inside the secret of a more specific rule on its line, or
\* the ignore file or the baseline names it.  (Prefilter, passes, suppression,
\* components and filter together.)
NoSecretLost ==
  (phase = "done" /\ texts # <<>>) =>
    LET shown == ToSet(report) \cup {f \in ToSet(findings) : IsIgnored(f) \/ ~IsNew(f)}
        Says(x, r, secret, line) ==
          /\ x.line = line
          /\ \/ x.rule = r.id /\ x.secret = secret
             \/ x.specificity > r.specificity /\ secret \in SubSeqs(x.secret)
    IN \A p \in DOMAIN texts : \A id \in DOMAIN config.rules :
         LET r == config.rules[id] IN
         \A m \in ToSet(RuleMatches(r, texts[p])) :
           (/\ ~r.skipReport /\ Due(p, r, m) /\ Accompanied(p, r, m)
            /\ Meets(r.confidence, job.options.minConfidence)
            /\ r.keywords # {} => \E i \in DOMAIN texts[p] : texts[p][i].id \in r.keywords) =>
           LET secret == SecretOf(r, Ids(texts[p], m[1], m[2]))
               line == TrueLine(Origin(texts[p], m)[1])
           IN \/ \E f \in shown : Says(f, r, secret, line)
              \/ \E f \in ToSet(findings) : \E c \in f.components : Says(c, r, secret, line)

\* A catalogue of several documents has the rules of all of them but those a
\* nearer one disables; each has the keywords of all, and the filter and the
\* confidence of the nearest that gives one; and a scan goes by every rule.
ExtendKeepsRules ==
  (phase = "pass" /\ depth = 0) =>
    LET chain == Chain(job.root)
        Defining(id) == {k \in DOMAIN chain : /\ RawIn(chain[k], id) # {}
                                              /\ \A j \in 1..(k - 1) : id \notin Documents[chain[j]].extend.disabled}
        RawAt(k, id) == CHOOSE r \in RawIn(chain[k], id) : TRUE
        ids == {id \in ToSet(Alphabet) : Defining(id) # {}}
        Given(id) == {k \in Defining(id) : RawAt(k, id).filter # {}}
    IN /\ DOMAIN config.rules = ids /\ ToSet(config.ordered) = ids
       /\ \A id \in ids :
            /\ config.rules[id].keywords = UNION {RawAt(k, id).keywords : k \in Defining(id)}
            /\ config.rules[id].filter = IF Given(id) = {} THEN {} ELSE RawAt(Min(Given(id)), id).filter
            /\ \A k \in Defining(id) : RawAt(k, id).allowlists \subseteq config.rules[id].allowlists
=============================================================================
