------------------------------- MODULE Runner -------------------------------
(***************************************************************************)
(* The library pipeline (appmain.rs, router.rs, runner.rs, shortcut.rs):   *)
(* an invocation is classified, its git vectors go through the gate, git   *)
(* and the audit log one by one, and each that ran is enriched by          *)
(* `git status`, a child whose output a thread reads under a deadline      *)
(* (enrich.rs).                                                            *)
(***************************************************************************)
EXTENDS Integers, FiniteSets, Sequences, SequencesExt, Functions

CONSTANTS
  None,
  Invocations,  \* argument vectors: [globals, sub, rest]; sub is None if there is no subcommand
  MetaCommands, \* gitc's own commands -> the exit codes they end with
  FirstClass,   \* those a plain `git <name>` reaches
  Shortcuts,    \* name -> [min, steps]; in a step "args" stands for the arguments of the shortcut,
                \* "arg" for the first of them
  Blocked,      \* subcommands the policy refuses -> the code
  Secrets,      \* argument -> the argument with its credentials masked
  Statuses,     \* what `git status` may print: lines [k, xy]
  Heirs         \* TRUE if a descendant of `git status` may keep its output open

GitcToken == "gitc"

VARIABLES
  inv,    \* the invocation: [argv, mode, name, code], and the vectors left in steps
  at,     \* where its process is
  store,  \* whether the audit database is open, and the rows it has
  status, \* the child: [state, left, pipe, got, reader, expired, waited]; waited while asking
          \* after it has not failed
  told    \* of the properties: the vectors dealt with, [argv, mode, code], and what was warned of

(***************************************************************************)
(* Classification.                                                         *)
(***************************************************************************)

Classify(a) ==
  CASE a.sub = None -> "passthrough"
    [] a.sub = GitcToken \/ a.sub \in FirstClass -> "meta"
    [] a.sub \in DOMAIN Shortcuts -> "shortcut"
    [] OTHER -> "passthrough"

MetaArgs(a) == IF a.sub = GitcToken THEN a.rest ELSE <<a.sub>> \o a.rest

HelpAsked(args) == \E i \in DOMAIN args : args[i] \in {"-h", "--help"}

\* A command asked for help prints its usage; a shell is never launched.
MetaCodes(args) ==
  CASE args = <<>> -> {0}
    [] args # <<>> /\ HelpAsked(Tail(args)) /\ Head(args) # "help" ->
         {IF Head(args) \in DOMAIN MetaCommands THEN 0 ELSE 1}
    [] args # <<>> /\ Head(args) = "audit" /\ ~store.open -> {1}
    [] args # <<>> /\ Head(args) \in {"sh", "bash"} -> {1}
    [] OTHER -> IF Head(args) \in DOMAIN MetaCommands THEN MetaCommands[Head(args)] ELSE {2}

Vector(words) == [globals |-> <<>>, sub |-> Head(words), rest |-> Tail(words)]

Steps(name, args) ==
  LET Fill(words) == FlattenSeq([i \in DOMAIN words |->
                       CASE words[i] = "args" -> args
                         [] words[i] = "arg" -> SubSeq(args, 1, 1)
                         [] OTHER -> <<words[i]>>])
  IN [i \in DOMAIN Shortcuts[name].steps |-> Vector(Fill(Shortcuts[name].steps[i]))]

\* `init` names the branch, unless the user or the backend cannot.
WithBranch(a, supported) ==
  IF a.sub = "init" /\ "-b" \notin ToSet(a.rest) /\ supported
  THEN [a EXCEPT !.rest = <<"--initial-branch=main">> \o @] ELSE a

Auditable(a) ==
  /\ a.sub \notin {None, "help", "version"}
  /\ ToSet(a.globals \o a.rest) \cap {"-h", "--help", "--version"} = {}

Masked(args) == [i \in DOMAIN args |-> IF args[i] \in DOMAIN Secrets THEN Secrets[args[i]] ELSE args[i]]
Redacted(a) == [a EXCEPT !.globals = Masked(@), !.rest = Masked(@)]

(***************************************************************************)
(* What `git status --porcelain=v2 --branch` says.                         *)
(***************************************************************************)

Count(lines, Is(_)) == Cardinality({i \in DOMAIN lines : Is(lines[i])})

ParseStatus(lines) ==
  LET changed(l) == l.k \in {"1", "2"}
  IN [staged |-> Count(lines, LAMBDA l : changed(l) /\ l.xy[1] # "."),
      unstaged |-> Count(lines, LAMBDA l : changed(l) /\ l.xy[2] # "."),
      untracked |-> Count(lines, LAMBDA l : l.k = "?"),
      conflicts |-> Count(lines, LAMBDA l : l.k = "u")]

(***************************************************************************)
(* The invocation.                                                         *)
(***************************************************************************)

NoChild == [state |-> "none", left |-> <<>>, pipe |-> <<>>, got |-> <<>>,
            reader |-> "none", expired |-> FALSE, waited |-> TRUE]

Row(a, mode, code, enrichment) ==
  [argv |-> Redacted(a), mode |-> mode, code |-> code, enrichment |-> enrichment]

\* Whether a row is written depends on the database; either way the command goes on.
WritesRow(row) ==
  \/ store.open /\ store' = [store EXCEPT !.rows = Append(@, row)] /\ told' = told
  \/ store' = store /\ told' = [told EXCEPT !.warned = TRUE]

Ends(code) == inv' = [inv EXCEPT !.code = code, !.steps = <<>>] /\ at' = "done"

Starts ==
  LET a == inv.argv IN
  /\ at = "start"
  /\ CASE inv.mode = "meta" -> \E code \in MetaCodes(MetaArgs(a)) : Ends(code)
       [] inv.mode = "passthrough" ->
            \/ Ends(1)  \* no backend
            \/ \E supported \in BOOLEAN :
                 inv' = [inv EXCEPT !.steps = <<WithBranch(a, supported)>>] /\ at' = "gate"
       [] inv.mode = "shortcut" ->
            \/ Ends(1)
            \/ IF Len(a.rest) < Shortcuts[a.sub].min THEN Ends(2)
               ELSE inv' = [inv EXCEPT !.steps = Steps(a.sub, a.rest)] /\ at' = "gate"
  /\ UNCHANGED <<store, status, told>>

\* A shortcut goes on while its vectors succeed, and then has a row of its own.
Goes(code) ==
  /\ inv' = [inv EXCEPT !.code = code, !.steps = Tail(@)]
  /\ at' = CASE inv.mode = "passthrough" -> "done"
             [] inv.mode = "shortcut" -> IF code # 0 \/ Len(inv.steps) = 1 THEN "sum" ELSE "gate"

Tells(mode, code) ==
  told.vectors \o <<[argv |-> Head(inv.steps), mode |-> mode, code |-> code]>>

GatePasses ==
  /\ at = "gate" /\ Head(inv.steps).sub \notin DOMAIN Blocked
  /\ at' = "git" /\ UNCHANGED <<inv, store, status, told>>

\* A refused vector never reaches git and is recorded.
GateBlocks ==
  LET a == Head(inv.steps)
      code == Blocked[a.sub]
      vectors == Tells("blocked", code)
  IN /\ at = "gate" /\ a.sub \in DOMAIN Blocked
     /\ \/ ~Auditable(a) /\ store' = store /\ told' = [told EXCEPT !.vectors = vectors]
        \/ /\ Auditable(a) /\ store.open
           /\ store' = [store EXCEPT !.rows = Append(@, Row(a, "blocked", code, None))]
           /\ told' = [told EXCEPT !.vectors = vectors]
        \/ Auditable(a) /\ store' = store /\ told' = [vectors |-> vectors, warned |-> TRUE]
     /\ Goes(code) /\ UNCHANGED status

\* git runs with the arguments as they are; -1 stands for a failed spawn.
GitRuns ==
  LET a == Head(inv.steps) IN
  /\ at = "git"
  /\ \E code \in {-1, 0, 1} :
       /\ told' = [told EXCEPT !.vectors = Tells("passthrough", code)]
       /\ IF Auditable(a)
          THEN /\ inv' = [inv EXCEPT !.code = code] /\ at' = "enrich"
               /\ \/ status' = NoChild  \* git status cannot be spawned
                  \/ \E lines \in Statuses :
                       status' = [NoChild EXCEPT !.state = "running", !.left = lines,
                                                 !.reader = "reading"]
          ELSE Goes(code) /\ UNCHANGED status
  /\ UNCHANGED store

(***************************************************************************)
(* run_bounded: the child writes into a pipe of one line, a thread empties *)
(* it, the command polls the child and, past the deadline, kills it.       *)
(***************************************************************************)

ChildSets(s) == status' = s /\ UNCHANGED <<inv, at, store, told>>

ChildWrites ==
  /\ status.state = "running" /\ status.left # <<>> /\ status.pipe = <<>>
  /\ ChildSets([status EXCEPT !.pipe = <<Head(status.left)>>, !.left = Tail(@)])

ChildExits ==
  /\ status.state = "running" /\ status.left = <<>>
  /\ \E s \in {"succeeded", "failed"} : ChildSets([status EXCEPT !.state = s])

\* The end of the output is when nobody has it open for writing.
ReaderReads ==
  /\ status.reader = "reading" /\ status.pipe # <<>>
  /\ ChildSets([status EXCEPT !.got = @ \o status.pipe, !.pipe = <<>>])

ReaderEnds ==
  /\ status.reader = "reading" /\ status.pipe = <<>> /\ status.state # "running" /\ ~Heirs
  /\ ChildSets([status EXCEPT !.reader = "done"])

Expires == status.state = "running" /\ ~status.expired /\ ChildSets([status EXCEPT !.expired = TRUE])

\* Mutant: the deadline is not looked at.
NeverKills == at = "enrich" /\ status.expired /\ status.state = "killed" /\ ChildSets(status)

Kills ==
  /\ at = "enrich" /\ status.state = "running" /\ status.expired /\ status.waited
  /\ ChildSets([status EXCEPT !.state = "killed"])

\* try_wait fails: the child is neither asked after nor killed again, only its output awaited.
Loses ==
  /\ at = "enrich" /\ status.state \in {"running", "succeeded", "failed"} /\ status.waited
  /\ ChildSets([status EXCEPT !.waited = FALSE])

Gives(enrichment) ==
  /\ WritesRow(Row(Head(inv.steps), "passthrough", inv.code, enrichment))
  /\ status' = NoChild /\ Goes(inv.code)

NoStatus == at = "enrich" /\ status.state = "none" /\ Gives(None)

\* Mutant: what has been read when the child is gone is taken.
TakesWhatIsRead ==
  /\ at = "enrich" /\ status.state \in {"succeeded", "failed", "killed"}
  /\ Gives(IF status.state = "succeeded" /\ status.waited THEN ParseStatus(status.got) ELSE None)

Joins ==
  /\ at = "enrich" /\ status.state \in {"succeeded", "failed", "killed"} /\ status.reader = "done"
  /\ Gives(IF status.state = "succeeded" /\ status.waited THEN ParseStatus(status.got) ELSE None)

\* The globals before a shortcut are dropped.
Bare(a) == [a EXCEPT !.globals = <<>>]

\* The shortcut itself, after its steps.
Sums ==
  /\ at = "sum"
  /\ WritesRow(Row(Bare(inv.argv), "shortcut", inv.code, None))
  /\ at' = "done" /\ UNCHANGED <<inv, status>>

Init ==
  \E a \in Invocations, open \in BOOLEAN :
    /\ inv = [argv |-> a, mode |-> Classify(a), steps |-> <<>>, code |-> 0]
    /\ at = "start" /\ status = NoChild
    /\ store = [open |-> open, rows |-> <<>>]
    /\ told = [vectors |-> <<>>, warned |-> FALSE]

Command ==
  \/ Starts \/ GatePasses \/ GateBlocks \/ GitRuns
  \/ Expires \/ Kills \/ NoStatus \/ Joins \/ Sums \/ ReaderReads \/ ReaderEnds

Next == Command \/ Loses \/ ChildWrites \/ ChildExits

(***************************************************************************)
(* Properties.                                                             *)
(***************************************************************************)

Plain(row) == [argv |-> row.argv, mode |-> row.mode, code |-> row.code]

\* The rows that vectors leave: those that are audited, with their credentials masked.
Audited(v) ==
  LET rows[n \in 0..Len(v)] ==
        IF n = 0 THEN <<>>
        ELSE IF Auditable(v[n].argv) THEN Append(rows[n - 1], [v[n] EXCEPT !.argv = Redacted(@)])
        ELSE rows[n - 1]
  IN rows[Len(v)]

\* runner.rs:12-20, 178-180, 220-223: no vector the policy refuses reaches git, nor one after
\* a vector that failed; and unless a warning says otherwise the log tells the whole story,
\* blocked vectors and the shortcut included, in order.
LogTellsTheStory ==
  LET v == told.vectors
      rows == [i \in DOMAIN store.rows |-> Plain(store.rows[i])]
      sum == [argv |-> Redacted(Bare(inv.argv)), mode |-> "shortcut", code |-> inv.code]
  IN /\ \A i \in DOMAIN v : v[i].mode = "blocked" <=> v[i].argv.sub \in DOMAIN Blocked
     /\ \A i \in 1..(Len(v) - 1) : v[i].code = 0
     /\ at = "done" /\ ~told.warned =>
          rows = Audited(v) \o IF inv.mode = "shortcut" /\ v # <<>> THEN <<sum>> ELSE <<>>

\* enrich.rs:124-125, 143: the state of the repository in a row is what the whole of the
\* status says, however long it is and whenever its reader runs.
StatusIsWhole ==
  \A i \in DOMAIN store.rows :
    store.rows[i].enrichment \in {None} \cup {ParseStatus(lines) : lines \in Statuses}

\* enrich.rs:15-16: a stalled status holds up neither the command nor its audit row, unless
\* asking after it failed (enrich.rs:146-149).
CommandEnds == at = "start" ~> at = "done" \/ (at = "enrich" /\ ~status.waited)
=============================================================================
