------------------------------- MODULE Rules --------------------------------
(***************************************************************************)
(* Rule catalogues (betterleaks config): a TOML document, the documents it *)
(* extends, and the rules that come out.  A document is                    *)
(*   [rules, extend, filter, allowlists], with                             *)
(*   extend = [path, useDefault, disabled] and path "" for none.           *)
(* A rule's regular expression is the set of the sequences of pieces it    *)
(* matches; a filter is the set of the secrets it skips, {} when empty,    *)
(* {Broken} when it does not compile.  An allowlist is                     *)
(*   [all, paths, words, targets]: `all` is the condition AND.             *)
(***************************************************************************)
EXTENDS Integers, Sequences, SequencesExt, FiniteSets, Functions

CONSTANTS Documents, \* path -> document; "default" is the embedded one
          Missing,   \* paths that cannot be read
          Alphabet   \* the rule ids, in alphabetical order

MaxExtendDepth == 2
DefaultSpecificity == 100
Broken == "broken"
Failed == [ok |-> FALSE]

(* Allowlist::validate and translate_allowlist: the tests an allowlist makes. *)
ValidAllowlist(a) == a.paths # {} \/ a.words # {}
Allows(a, path, secret) ==
  LET byPath == a.paths # {} /\ path \in a.paths
      byWord == a.words # {} /\ secret \in a.words
  IN IF a.all THEN (a.paths = {} \/ byPath) /\ (a.words = {} \/ byWord) ELSE byPath \/ byWord

(* What the composed expression of a rule, or of the catalogue, answers; one  *)
(* that does not compile is dropped whole, its allowlists with it.            *)
Skips(filter, allowlists, path, secret) ==
  /\ Broken \notin filter
  /\ secret \in filter \/ \E a \in allowlists : Allows(a, path, secret)

\* An allowlist without targets whose condition is OR tests its paths before a file is read.
Prefiltered(c, path) == \E a \in c.allowlists : ~a.all /\ path \in a.paths

(***************************************************************************)
(* translate: a document's own rules, before it is extended.  Of two rules *)
(* with one id the later stays.                                            *)
(***************************************************************************)
FromRaw(raw) ==
  [raw EXCEPT !.specificity = IF @ = 0 THEN DefaultSpecificity ELSE @]

Own(doc) ==
  LET ids == [k \in DOMAIN doc.rules |-> doc.rules[k].id]
      LastOf(id) == FromRaw(doc.rules[CHOOSE k \in DOMAIN ids :
                      ids[k] = id /\ \A l \in DOMAIN ids : ids[l] = id => l <= k])
      targeted(id) == {a \in doc.allowlists : id \in a.targets}
  IN [ok |-> /\ \A a \in doc.allowlists : ValidAllowlist(a)
             /\ \A k \in DOMAIN ids : \A a \in doc.rules[k].allowlists : ValidAllowlist(a),
      rules |-> [id \in ToSet(ids) |-> [LastOf(id) EXCEPT !.allowlists = @ \cup targeted(id)]],
      ordered |-> ids,
      allowlists |-> {a \in doc.allowlists : a.targets = {}},
      pending |-> {x \in (UNION {a.targets : a \in doc.allowlists}) \X doc.allowlists :
                     x[1] \in x[2].targets \ ToSet(ids)},
      filter |-> doc.filter, extend |-> doc.extend]

(* extend_with, one rule of both: what the document says wins, else the base. *)
Merged(base, own) ==
  [base EXCEPT !.regex = IF own.regex # {} THEN own.regex ELSE @,
               !.group = IF own.group # 0 THEN own.group ELSE @,
               !.path = IF own.path # {} THEN own.path ELSE @,
               !.confidence = IF own.confidence # "" THEN own.confidence ELSE @,
               !.filter = IF own.filter # {} THEN own.filter ELSE @,
               !.keywords = @ \cup own.keywords,
               !.allowlists = @ \cup own.allowlists,
               !.components = IF own.componentsSet THEN own.components ELSE @,
               !.componentsSet = @ \/ own.componentsSet]
ExtendWith(c, base) ==
  LET taken == DOMAIN base.rules \ c.extend.disabled
      all == DOMAIN c.rules \cup taken
      ids == ToSet(c.ordered) \cup taken
  IN [c EXCEPT !.rules = [id \in all |->
                 IF id \notin taken THEN c.rules[id]
                 ELSE IF id \notin DOMAIN c.rules THEN base.rules[id]
                 ELSE Merged(base.rules[id], c.rules[id])],
               !.allowlists = @ \cup base.allowlists,
               !.pending = @ \cup base.pending,
               !.filter = IF @ = {} THEN base.filter ELSE @,
               !.ordered = SelectSeq(Alphabet, LAMBDA id : id \in ids)]

\* At the deepest level what the document extends is not looked at, not even for the conflict.
RECURSIVE Translate(_, _)
Translate(path, depth) ==
  LET c == Own(Documents[path])
      name == IF c.extend.useDefault THEN "default" ELSE c.extend.path
      base == Translate(name, depth + 1)
  IN IF path \in Missing \/ ~c.ok THEN Failed
     ELSE IF depth = MaxExtendDepth \/ (c.extend.path = "" /\ ~c.extend.useDefault) THEN c
     ELSE IF c.extend.path # "" /\ c.extend.useDefault THEN Failed
     ELSE IF ~base.ok THEN Failed
     ELSE ExtendWith(c, base)

(* The root's end of translate: allowlists whose rule came from a base. *)
Load(path) ==
  LET c == Translate(path, 0)
      Late(id) == {x[2] : x \in {y \in c.pending : y[1] = id}}
  IN IF ~c.ok THEN Failed
     ELSE IF \E x \in c.pending : x[1] \notin DOMAIN c.rules THEN Failed
     ELSE [c EXCEPT !.rules = [id \in DOMAIN c.rules |-> [c.rules[id] EXCEPT !.allowlists = @ \cup Late(id)]]]

(* build_keyword_index: over `ordered`, which is what a scan goes by. *)
NoKeywordRules(c) == {id \in ToSet(c.ordered) : c.rules[id].keywords = {}}
KeywordToRules(c, k) == {id \in ToSet(c.ordered) : k \in c.rules[id].keywords}
Keywords(c) == UNION {c.rules[id].keywords : id \in DOMAIN c.rules}

(* Detector::new: by falling specificity, in the order of `ordered` among equals. *)
RulesBySpecificity(c) ==
  LET first(id) == CHOOSE k \in DOMAIN c.ordered : c.ordered[k] = id /\ \A l \in 1..(k - 1) : c.ordered[l] # id
      Before(a, b) == \/ c.rules[a].specificity > c.rules[b].specificity
                      \/ c.rules[a].specificity = c.rules[b].specificity /\ first(a) < first(b)
  IN SetToSortSeq(DOMAIN c.rules, Before)

(***************************************************************************)
(* What a catalogue of several documents means, said without the code.     *)
(***************************************************************************)
\* The documents that a root reaches, nearest first, as deep as the code goes.
Chain(root) ==
  LET NextOf(p) == IF Documents[p].extend.useDefault THEN "default" ELSE Documents[p].extend.path
      Links[k \in 0..MaxExtendDepth] ==
        IF k = 0 THEN <<root>>
        ELSE LET s == Links[k - 1] IN
             IF Len(s) = k /\ NextOf(Last(s)) # "" THEN Append(s, NextOf(Last(s))) ELSE s
  IN Links[MaxExtendDepth]

RawIn(path, id) ==
  LET at == {k \in DOMAIN Documents[path].rules : Documents[path].rules[k].id = id}
  IN {Documents[path].rules[k] : k \in {k \in at : \A l \in at : l <= k}}
=============================================================================
