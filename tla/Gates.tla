------------------------------- MODULE Gates -------------------------------
(* What the gate of the pipeline decides about one command: how it reads  *)
(* the command line (gitargs.rs), which remotes it has git resolve and    *)
(* vets (policy.rs, gates.rs), and what its secret scan looks at.         *)
(* A command line is a sequence of tokens; the tokens that are URLs and   *)
(* `key=value` settings are given by what they say.                       *)
EXTENDS Naturals, Sequences, SequencesExt, FiniteSets

CONSTANTS Cases,      \* [argv, pol, tree, upstream]: a command, the policy, what is in the
                      \* repository, the remotes configured for its branch
          Flags,      \* the tokens that begin with a dash
          Urls,       \* URL token |-> its host and the segments of its path
          Overrides,       \* token of a `-c` |-> its key, and the verb an alias runs
          Rewrites,   \* the keys that change where a command connects
          Remotes,    \* configured remote |-> the URL tokens it is fetched from and pushed to
          Takes,      \* verb, or "git" |-> the options git itself reads a separate value for
          None

VARIABLES argv, pol, tree, upstream, \* the command, the policy, the repository
          pc, refs, urls, found, blocked,
          unseen                       \* history: the files whose staged and whose working
                                       \* content a scan did not get to see

given == <<argv, pol, tree, upstream>>
vars  == <<given, pc, refs, urls, found, blocked, unseen>>

-----------------------------------------------------------------------------
(* gitargs.rs: the verb and its arguments.                                  *)

ValueGlobals == {"-C", "-c", "--git-dir", "--work-tree", "--namespace", "--super-prefix",
                 "--config-env"}
\* subcommand_index, 0 when there is none.
VerbAt(a) ==
    LET at[i \in 1..(Len(a) + 2)] ==
          IF i > Len(a) THEN 0
          ELSE IF a[i] = "--" THEN (IF i < Len(a) THEN i + 1 ELSE 0)
          ELSE IF a[i] \in Flags THEN at[IF a[i] \in ValueGlobals /\ i < Len(a) THEN i + 2 ELSE i + 1]
          ELSE i
    IN  at[1]
Verb(a) == IF VerbAt(a) = 0 THEN "" ELSE a[VerbAt(a)]
Rest(a) == SubSeq(a, VerbAt(a) + 1, Len(a))

-----------------------------------------------------------------------------
(* policy.rs: the remotes a command names.                                  *)

\* value_consuming_flags.
Consuming(verb) ==
    CASE verb = "push"  -> {"-o", "--push-option", "--receive-pack", "--exec", "--repo",
                            "--force-with-lease"}
      [] verb = "fetch" -> {"--upload-pack", "--exec", "--depth", "--deepen", "--refmap",
                            "--shallow-since", "--shallow-exclude", "--negotiation-tip",
                            "--server-option", "-o"}
      [] verb = "pull"  -> {"--upload-pack", "--exec", "--depth", "--deepen", "-s", "--strategy",
                            "-X", "--strategy-option", "--shallow-since", "--shallow-exclude",
                            "--server-option"}
      [] verb = "clone" -> {"-u", "--upload-pack", "-b", "--branch", "-o", "--origin", "-c",
                            "--config", "--reference", "--reference-if-able", "--depth",
                            "--template", "-j", "--jobs", "--filter", "--separate-git-dir",
                            "--shallow-since", "--shallow-exclude", "--server-option",
                            "--bundle-uri"}
      [] verb = "send-pack" -> {"--receive-pack", "--exec", "--max-pack-size"}
      [] OTHER -> {}


\* positionals_for.
Positionals(verb, rest) ==
    LET from[i \in 1..(Len(rest) + 2)] ==
          IF i > Len(rest) THEN <<>>
          ELSE IF rest[i] = "--" THEN SubSeq(rest, i + 1, Len(rest))
          ELSE IF rest[i] \in Flags
          THEN from[IF rest[i] \in Consuming(verb) /\ i < Len(rest) THEN i + 2 ELSE i + 1]
          ELSE <<rest[i]>> \o from[i + 1]
    IN  from[1]

IsUrl(t) == t \in DOMAIN Urls
RemoteVerbs == {"push", "fetch", "pull", "clone", "remote", "send-pack", "http-push"}

\* Policy::remote_refs: the references to vet, and whether the default remote is one.
RemoteRefs(a) ==
    LET verb == Verb(a)
        pos  == Positionals(verb, Rest(a))
    IN  IF ~pol.allowlist \/ verb \notin RemoteVerbs THEN [refs |-> <<>>, default |-> FALSE]
        ELSE IF verb = "remote" THEN [refs |-> SelectSeq(pos, IsUrl), default |-> FALSE]
        ELSE IF pos = <<>> THEN [refs |-> <<>>, default |-> verb # "clone"]
        ELSE [refs |-> IF verb = "clone" THEN <<pos[1]>>
                       ELSE <<pos[1]>> \o SelectSeq(Tail(pos), IsUrl),
              default |-> FALSE]

\* remote_host_owner, of a URL of the form scheme://[user@]host/owner/... or
\* user@host:owner/...
HostOwner(url) == SubSeq(Urls[url], 1, 2)

\* Policy::remote_allowed: an entry names a host, or a host and an owner.
Allowed(url) == \E h \in pol.hosts : IsPrefix(h, HostOwner(url))

\* alias_injection: an alias for this very verb, given on the command line.
GatedVerbs == RemoteVerbs \cup {"commit"}
Given(a, flag) == {a[i + 1] : i \in {i \in 1..(Len(a) - 1) : a[i] = flag}} \cap DOMAIN Overrides
AliasInjected(a) ==
    \E t \in Given(a, "-c") : /\ Overrides[t].key = Verb(a)
                              /\ Overrides[t].runs \in GatedVerbs \cup {"!"}

\* remote_rewrite_override.
Overridden(a) == \E t \in Given(a, "-c") \cup Given(a, "--config-env") : Overrides[t].key \in Rewrites

-----------------------------------------------------------------------------
(* The secret scan: what of the repository it looks at.                     *)

\* scan_file, is_binary: an empty, huge or binary file is passed over.
Findings(path, content) == {[path |-> path, secret |-> s] : s \in content.secrets}
Scannable(content) == content.size = "normal" /\ ~content.binary

\* walk_dir, scan_dir: .git, vendored trees and what is no regular file are passed
\* over; so is, without a word, what cannot be read.
Walked(f) == f.work # None /\ f.regular /\ ~f.skipped /\ Scannable(f.work)
TreeFindings(dark) == UNION {Findings(f.path, f.work) : f \in {f \in tree \ dark : Walked(f)}}

\* scan_staged: git lists added, copied and modified paths, and is to show each one.
\* One that it does not show is passed over, and all are if it does not list them.
Staged(f) == f.index # None /\ f.index # f.head /\ ~f.renamed
StagedFindings(silent) == UNION {Findings(f.path, f.index) : f \in {f \in tree \ silent : Staged(f)}}

\* git is asked where gitc runs, whatever -C says, and for names as git quotes them.
NeverShown == IF "-C" \in ToSet(SubSeq(argv, 1, VerbAt(argv))) THEN tree ELSE {f \in tree : f.quoted}

\* Policy::secret_gate_applies.
SecretGateApplies ==
    /\ pol.secrets # "off"
    /\ Verb(argv) \in (IF pol.commands = {} THEN {"commit", "push"} ELSE pol.commands)

-----------------------------------------------------------------------------
TypeOK ==
    /\ upstream \in [push : DOMAIN Remotes \cup {None}, fetch : DOMAIN Remotes \cup {None}, tracked : BOOLEAN]
    /\ pc \in {"gate", "vet", "secret", "done"}
    /\ \A i \in DOMAIN refs : refs[i] \in STRING
    /\ urls \subseteq DOMAIN Urls
    /\ \A f \in found : f.path \in {g.path : g \in tree}
    /\ blocked \in BOOLEAN
    /\ unseen.staged \subseteq tree /\ unseen.work \subseteq tree

Init ==
    /\ \E c \in Cases : argv = c.argv /\ pol = c.pol /\ tree = c.tree /\ upstream = c.upstream
    /\ pc = "gate" /\ refs = <<>> /\ urls = {} /\ found = {} /\ blocked = FALSE
    /\ unseen = [staged |-> {}, work |-> {}]

Refuse == pc' = "done" /\ blocked' = TRUE /\ UNCHANGED <<given, refs, urls, found, unseen>>
Allow  == pc' = "done" /\ UNCHANGED <<given, refs, urls, found, blocked, unseen>>

\* Mutant: the pre-flight scan looks at the working tree only.
PreflightTree ==
    /\ pc = "gate" /\ Verb(argv) = "commit"
    /\ found' = TreeFindings({}) /\ UNCHANGED unseen
    /\ blocked' = (found' # {} /\ SecretGateApplies /\ pol.secrets = "block")
    /\ pc' = "done" /\ UNCHANGED <<given, refs, urls>>

\* enforce_gates of a commit: the scan is made whatever the policy says, of what git
\* shows of the index and of what can be read where git says that the tree is.
Preflight ==
    /\ pc = "gate" /\ Verb(argv) = "commit"
    /\ \E silent, dark \in SUBSET tree :
         /\ NeverShown \subseteq silent
         /\ found' = StagedFindings(silent) \cup TreeFindings(dark)
         /\ unseen' = [staged |-> silent, work |-> dark]
    /\ blocked' = (found' # {} /\ SecretGateApplies /\ pol.secrets = "block")
    /\ pc' = "done" /\ UNCHANGED <<given, refs, urls>>

\* enforce_gates of any other command, up to the references it must resolve.
Enforce ==
    /\ pc = "gate" /\ Verb(argv) # "commit"
    /\ LET named == RemoteRefs(argv)
       IN  IF pol.secrets = "off" /\ ~pol.allowlist THEN Allow
           ELSE IF AliasInjected(argv) THEN Refuse
           ELSE IF named.refs = <<>> /\ ~named.default
           THEN pc' = "secret" /\ UNCHANGED <<given, refs, urls, found, blocked, unseen>>
           ELSE IF Overridden(argv) THEN Refuse
           ELSE /\ refs' = IF named.default THEN Append(named.refs, "@{push}") ELSE named.refs
                /\ pc' = "vet" /\ UNCHANGED <<given, urls, found, blocked, unseen>>

\* git's own defaults: the remote a branch is pushed to, and the one it is fetched from.
FetchRemote == IF upstream.fetch = None THEN "origin" ELSE upstream.fetch
PushRemote  == IF upstream.push = None THEN FetchRemote ELSE upstream.push

\* resolve_default_remote: the remote of @{push}, which is there if git tracks the
\* branch that is pushed to; else origin.
NameOf(ref) ==
    IF ref # "@{push}" THEN ref ELSE IF upstream.tracked THEN PushRemote ELSE "origin"

\* git answers `remote get-url`, which is the URL it fetches from; or it knows no
\* such remote and will say so itself.
Resolve ==
    /\ pc = "vet" /\ refs # <<>>
    /\ LET name == NameOf(Head(refs))
       IN  urls' = urls \cup (IF IsUrl(name) THEN {name}
                              ELSE IF name \in DOMAIN Remotes THEN {Remotes[name].fetch} ELSE {})
    /\ refs' = Tail(refs)
    /\ UNCHANGED <<given, pc, found, blocked, unseen>>

\* block_unverifiable: git could not be run to a verdict.
Unverifiable == pc = "vet" /\ refs # <<>> /\ ~IsUrl(Head(refs)) /\ Refuse

Vet ==
    /\ pc = "vet" /\ refs = <<>>
    /\ IF \A u \in urls : Allowed(u)
       THEN pc' = "secret" /\ UNCHANGED <<given, refs, urls, found, blocked, unseen>>
       ELSE Refuse

\* enforce_secret_gate.
SecretGate ==
    /\ pc = "secret" /\ pc' = "done"
    /\ \E dark \in SUBSET tree :
         /\ found' = IF SecretGateApplies THEN TreeFindings(dark) ELSE {}
         /\ unseen' = [unseen EXCEPT !.work = dark]
    /\ blocked' = (found' # {} /\ pol.secrets = "block")
    /\ UNCHANGED <<given, refs, urls>>

\* The scanner or the walk of the root fails.
SecretGateFails == pc = "secret" /\ SecretGateApplies /\ Refuse
PreflightFails ==
    /\ pc = "gate" /\ Verb(argv) = "commit"
    /\ IF SecretGateApplies /\ pol.secrets = "block" THEN Refuse ELSE Allow

Finished == pc = "done" /\ UNCHANGED vars

Next == \/ Preflight \/ PreflightFails \/ Enforce \/ Resolve \/ Unverifiable \/ Vet
        \/ SecretGate \/ SecretGateFails \/ Finished
Spec == Init /\ [][Next]_vars

-----------------------------------------------------------------------------
(* init_default_branch: a new repository's branch.                          *)

\* init_needs_branch, inject_initial_branch.
InitArgs(a) ==
    IF \/ Verb(a) # "init"
       \/ \E i \in DOMAIN Rest(a) : Rest(a)[i] \in {"-b", "--initial-branch", "--initial-branch=x"}
    THEN a
    ELSE SubSeq(a, 1, VerbAt(a)) \o <<"--initial-branch=main">> \o Rest(a)

-----------------------------------------------------------------------------
(* Correctness, against git's own reading of a command line.                *)

\* git's reading of a list of tokens, of which those of takes are options that read
\* the next one: what each token is, by what the one before it is.
Labels(takes, tokens) ==
    LET label[i \in DOMAIN tokens] ==
          LET before == IF i = 1 THEN "" ELSE label[i - 1]
          IN  CASE before \in {"end", "after"} -> "after"
                [] before = "option" /\ tokens[i - 1] \in takes -> "value"
                [] ~(before = "option" /\ tokens[i - 1] \in takes) /\ tokens[i] = "--" -> "end"
                [] ~(before = "option" /\ tokens[i - 1] \in takes) /\ tokens[i] \in Flags \ {"--"} -> "option"
                [] OTHER -> "argument"
    IN  label

\* The verbs that connect to a remote.
Connecting == {"push", "fetch", "pull", "clone", "send-pack", "http-push"}

\* What git reads in a command line.  Its verb is its first argument (it knows no `--`
\* before it, and runs nothing then), or what an alias makes of it that the command line
\* sets; `--repo` names the remote of a push without arguments.
GitReads(a) ==
    LET global == Labels(Takes["git"], a)
        at     == Min({i \in DOMAIN a : global[i] = "argument"} \cup {Len(a) + 1})
        sets   == {a[i] : i \in {i \in 2..(at - 1) : global[i] = "value" /\ a[i - 1] \in {"-c", "--config-env"}}}
        word   == IF at > Len(a) THEN "" ELSE a[at]
        alias  == {Overrides[t].runs : t \in {t \in sets : Overrides[t].key = word}}
        verb   == IF alias = {} THEN word ELSE CHOOSE v \in alias : TRUE
        rest   == SubSeq(a, at + 1, Len(a))
        label  == Labels(IF verb \in Connecting THEN Takes[verb] ELSE {}, rest)
        places == SelectSeq([i \in DOMAIN rest |-> i], LAMBDA i : label[i] \in {"argument", "after"})
    IN  [at |-> at, sets |-> sets, verb |-> verb,
         arguments |-> [k \in DOMAIN places |-> rest[places[k]]],
         repo |-> {rest[i] : i \in {i \in 2..Len(rest) : label[i] = "value" /\ rest[i - 1] = "--repo"}}]

\* Where git connects to: the URL it is given; for the verbs that know remotes by
\* name, the URL configured for the verb, of the remote named or of the default one;
\* "" if nowhere, and None if a setting of the command line sends it elsewhere.
Destination(g) ==
    LET name == IF g.arguments # <<>> THEN g.arguments[1]
                ELSE IF g.verb = "push" THEN CHOOSE n \in g.repo \cup {PushRemote} : n \in g.repo \/ g.repo = {}
                ELSE IF g.verb \in {"fetch", "pull"} THEN FetchRemote ELSE ""
    IN  IF name = "" THEN ""
        ELSE IF \E t \in g.sets : Overrides[t].key \in Rewrites THEN None
        ELSE IF IsUrl(name) THEN name
        ELSE IF name \notin DOMAIN Remotes THEN ""
        ELSE CASE g.verb = "push" -> Remotes[name].push
               [] g.verb \in {"fetch", "pull"} -> Remotes[name].fetch
               [] OTHER -> ""

\* The command lines that the gate and git are known to read differently: the options
\* whose separate value only one of them knows of, or that name the remote themselves;
\* the remotes that are pushed to at another URL than they are fetched from; and the
\* default remotes that are not that of @{push}.
Misread(verb) ==
    CASE verb = "push" -> {"--force-with-lease", "--recurse-submodules", "--repo"}
      [] verb \in {"fetch", "pull"} -> {"-j", "--jobs", "--filter"}
      [] OTHER -> {}
ReadDifferently(a, g) ==
    LET name == IF g.arguments # <<>> THEN g.arguments[1] ELSE PushRemote
    IN  \/ "--attr-source" \in ToSet(SubSeq(a, 1, g.at - 1))
        \/ \E i \in (g.at + 1)..(Len(a) - 1) : a[i] \in Misread(g.verb)
        \/ g.verb = "push" /\ name \in DOMAIN Remotes /\ Remotes[name].push # Remotes[name].fetch
        \/ /\ g.arguments = <<>>
           /\ \/ ~upstream.tracked /\ (IF g.verb = "push" THEN PushRemote ELSE FetchRemote) # "origin"
              \/ upstream.tracked /\ g.verb # "push" /\ PushRemote # FetchRemote

\* When the allowlist is on, no command goes through to a remote, as git itself
\* reads the command line, aliases and overrides of it included, that is not on
\* the list: whatever stands between the verb and the remote, whichever of its
\* names the remote is given by, and whatever git answered when it was asked; but
\* for the command lines known to be read differently.
DestinationIsVetted ==
    pc = "done" /\ ~blocked /\ pol.allowlist =>
        \A g \in {GitReads(argv)} :
            g.verb \in Connecting /\ ~ReadDifferently(argv, g) =>
                \A d \in {Destination(g)} : d = "" \/ (d # None /\ Allowed(d))

\* What git commit records: what is staged, or with -a the tracked files as they are.
Recorded(f) == IF "-a" \in ToSet(argv) /\ f.head # None /\ f.work # None THEN f.work ELSE f.index

\* When the gate blocks, a commit it let through adds no secret that the commit's own
\* version of a file brings: not when the working copy has been cleaned since it was
\* staged, and not when -a commits what was never staged.  What is staged escapes only
\* as the R of git or when git did not show it, and then only if the file's working
\* copy is another or was not scanned either; what -a adds, only by the exceptions
\* of scan_file and walk_dir or when it could not be read.
CommitIsClean ==
    (pc = "done" /\ ~blocked /\ pol.secrets = "block" /\ Verb(argv) = "commit" /\ SecretGateApplies) =>
        \A f \in tree :
           LET scanned == ~f.skipped /\ f.regular /\ f.work # None /\ Scannable(f.work) /\ f \notin unseen.work
           IN  \/ Recorded(f) = None \/ Recorded(f) = f.head \/ Recorded(f).secrets = {}
               \/ /\ Recorded(f) = f.index /\ (f.renamed \/ f \in unseen.staged)
                  /\ ~(f.work = f.index /\ scanned)
               \/ Recorded(f) = f.work /\ Recorded(f) # f.index /\ ~scanned

\* The branch `git init` starts: the last choice on its command line.
Branch(a) ==
    LET chosen == {i \in DOMAIN a : a[i] \in {"-b", "-bx", "--initial-branch", "--initial-branch=x", "--initial-branch=main"}}
    IN  IF chosen = {} THEN "master"
        ELSE LET last == CHOOSE i \in chosen : \A j \in chosen : j <= i
             IN  IF a[last] \in {"-b", "--initial-branch"} THEN a[last + 1]
                 ELSE IF a[last] = "--initial-branch=main" THEN "main" ELSE "x"

\* A new repository starts on main, unless its command line says otherwise in
\* any of the ways git reads; and nothing else of the command line changes.
InitChoiceWins ==
    Verb(argv) = "init" =>
        /\ Branch(InitArgs(argv)) = (IF Branch(argv) = "master" THEN "main" ELSE Branch(argv))
        /\ SelectSeq(InitArgs(argv), LAMBDA t : t # "--initial-branch=main") = argv
        /\ Verb(InitArgs(argv)) = "init"
=============================================================================
