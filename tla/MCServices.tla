------------------------------ MODULE MCServices ------------------------------
(* Four services that keep state between calls and share none of it, side  *)
(* by side: the governor of validation requests, the ledger of a clone,    *)
(* the library pipeline and the installer of the launchers.  The initial   *)
(* state says which one runs; the others stay idle.                        *)
EXTENDS Integers, Sequences, TLC

CONSTANTS None,
          Workers, Second, LongestGap, Timeout, MaxAsked, MaxPause, \* of the governor
          Procs, MaxCalls, MaxEdits,                                \* of the ledger and the installer
          Configs, Urls, Findings, Calls, Cap,
          Invocations, MetaCommands, FirstClass, Shortcuts,         \* of the pipeline
          Blocked, Secrets, Statuses, Heirs,
          Versions, Platforms, Foreign, MaxOps                      \* of the installer

(* What they are given. *)

\* Governor: an origin spelled two ways and another; limits of every kind.
name(s) == <<s, s>>
url(origin, scheme, host, port) == [origin |-> origin, scheme |-> scheme, host |-> host, port |-> port, raw |-> host]
Api == {url("api", name("https"), name("api"), ""), url("api", <<"https", "HTTPS">>, <<"api", "API">>, "443")}
GovernorUrls == Api \cup {url("other", name("http"), name("api"), "443")}
GovernorFindings == {[rule |-> "aws", url |-> u] : u \in Api}
                      \cup {[rule |-> "jwt", url |-> url("api", name("https"), name("api"), "")]}

rated(raw, rule, rate) == [raw |-> raw, rule |-> rule, rate |-> rate]
GovernorConfigs == {
  [max |-> 2, rate |-> <<2, 1>>, rules |-> <<rated(" aws", "aws", <<2, 1>>), rated("aws", "aws", <<1, 1>>)>>],
  [max |-> 1, rate |-> <<0, 1>>, rules |-> <<rated("jwt", "jwt", <<1, 1>>)>>],
  [max |-> 0, rate |-> <<0, 1>>, rules |-> <<>>],
  [max |-> 0, rate |-> <<0, 1>>, rules |-> <<rated("aws", "aws", <<0, 1>>)>>],
  [max |-> 1, rate |-> <<8, 1>>, rules |-> <<>>]}

\* Ledger: a clone and a linked worktree of it, one that is told its directory, none at all.
dir(kind, git) == [kind |-> kind, git |-> git]
inside == [env |-> "none", up |-> <<dir("plain", "none"), dir("dir", "clone")>>]
linked == [env |-> "none", up |-> <<dir("file", "worktree"), dir("dir", "clone")>>]
instructed == [env |-> "clone", up |-> <<dir("bare", "mirror")>>]
nowhere == [env |-> "none", up |-> <<dir("plain", "none"), dir("file", "none")>>]
row(place, section, keys) == [place |-> place, section |-> section, keys |-> keys]
LedgerCalls == {
  row(inside, "gates", <<"allow">>), row(instructed, "gates", <<"block">>),
  row(nowhere, "gates", <<"allow">>), row(linked, "leaks", <<"x", "x">>),
  row(inside, "leaks", <<"x", "y">>), row(inside, "leaks", <<>>)}
LedgerCap == [gates |-> 2, leaks |-> 1, vulns |-> 2]

\* Runner.
line(sub, rest) == [globals |-> <<>>, sub |-> sub, rest |-> rest]
RunnerInvocations == {
  line(None, <<>>), line("status", <<>>), line("init", <<>>), line("init", <<"-b", "dev">>),
  line("push", <<"url with token">>), line("sync", <<>>), line("quick-commit", <<>>),
  line("quick-commit", <<"message", "more">>), line("log-graph", <<"-n">>), line("log", <<"--help">>),
  line("gitc", <<>>), line("gitc", <<"sh">>), line("gitc", <<"nope">>), line("audit", <<>>),
  line("scan", <<"-h">>), line("help", <<>>),
  [line("sync", <<>>) EXCEPT !.globals = <<"-c", "x=y">>],
  [line("log", <<>>) EXCEPT !.globals = <<"-c", "url with token">>]}
RunnerMetaCommands == [c \in {"help", "version", "audit", "scan"} |-> IF c = "scan" THEN {0, 1, 2} ELSE {0}]
RunnerShortcuts ==
  "sync" :> [min |-> 0, steps |-> <<<<"fetch", "--prune">>, <<"rebase">>, <<"push">>>>]
  @@ "log-graph" :> [min |-> 0, steps |-> <<<<"log", "--graph", "--oneline", "--decorate", "--all", "args">>>>]
  @@ "quick-commit" :> [min |-> 1, steps |-> <<<<"add", "-A">>, <<"commit", "-m", "arg">>>>]
RunnerBlocked == "push" :> 3
RunnerSecrets == "url with token" :> "url masked"
RunnerStatuses == {<<>>, <<[k |-> "1", xy |-> <<"M", ".">>], [k |-> "?", xy |-> <<".", ".">>]>>}

\* The governor's clock is an integer; a URL has a host, however it is spelled, and its
\* origin is its scheme, its host and the port it reaches.
Port(u) ==
  CASE u.port # "" -> u.port
    [] u.port = "" /\ u.scheme[1] = "https" -> "443"
    [] u.port = "" /\ u.scheme[1] = "http" -> "80"
    [] OTHER -> ""

ASSUME GovernorAssumption ==
  /\ Second \in Nat /\ LongestGap \in Nat /\ Timeout \in Nat /\ MaxPause \in Nat
  /\ \A cfg \in Configs :
       /\ cfg.max \in Int /\ cfg.rate \in Int \X Int
       /\ cfg.rules \in Seq([raw : STRING, rule : STRING, rate : Int \X Int])
  /\ \A f \in Findings : f.url \in Urls
  /\ \A u \in Urls : u.host[1] # ""
  /\ \A u, v \in Urls :
       u.origin = v.origin <=>
         u.scheme[1] = v.scheme[1] /\ u.host[1] = v.host[1] /\ Port(u) = Port(v)

\* A ledger has three sections, and what is put into it has a section and keys.
ASSUME LedgerAssumption ==
  /\ Cap \in [{"gates", "leaks", "vulns"} -> Nat]
  /\ \A c \in Calls : c.section \in DOMAIN Cap /\ c.keys \in Seq(STRING)

ASSUME RunnerAssumption ==
  \A lines \in Statuses : lines \in Seq([k : STRING, xy : Seq(STRING)])

\* Nothing else is taken for a gitc or for the shim directory.
ASSUME LaunchersAssumption ==
  /\ Platforms \subseteq {"launchers", "copies", "unix"}
  /\ Versions \cap {None, "torn", "launcher"} = {}
  /\ "shims" \notin Foreign

VARIABLES limiter, state, work, asked, granted
VARIABLES file, update, calls, edits, history
VARIABLES inv, at, store, status, told
VARIABLES platform, bin, shims, path, op, ops, changes, last

governor == <<limiter, state, work, asked, granted>>
ledger == <<file, update, calls, edits, history>>
pipeline == <<inv, at, store, status, told>>
installer == <<platform, bin, shims, path, op, ops, changes, last>>
vars == <<governor, ledger, pipeline, installer>>

V == INSTANCE Governor
B == INSTANCE Ledger WITH work <- update
R == INSTANCE Runner
I == INSTANCE Launchers WITH edits <- changes

GovernorIdle == limiter = None /\ state = None /\ asked = None /\ granted = None /\ work = [w \in Workers |-> V!Idle]
LedgerIdle == file = None /\ update = None /\ calls = None /\ edits = None /\ history = None
PipelineIdle == inv = None /\ at = None /\ store = None /\ status = None /\ told = None
InstallerIdle == platform = None /\ bin = None /\ shims = None /\ path = None /\ op = None
                   /\ ops = None /\ changes = None /\ last = None

Init ==
  \/ V!Init /\ LedgerIdle /\ PipelineIdle /\ InstallerIdle
  \/ GovernorIdle /\ B!Init /\ PipelineIdle /\ InstallerIdle
  \/ GovernorIdle /\ LedgerIdle /\ R!Init /\ InstallerIdle
  \/ GovernorIdle /\ LedgerIdle /\ PipelineIdle /\ I!Init
Next ==
  \/ limiter # None /\ V!Next /\ UNCHANGED <<ledger, pipeline, installer>>
  \/ file # None /\ B!Next /\ UNCHANGED <<governor, pipeline, installer>>
  \/ at # None /\ R!Next /\ UNCHANGED <<governor, ledger, installer>>
  \/ platform # None /\ I!Next /\ UNCHANGED <<governor, ledger, pipeline>>

\* Time passes and a worker that has a finding goes on; the pipeline is a running process
\* and its reader a running thread.  git status need not go on, nor the other services.
Spec ==
  /\ Init /\ [][Next]_vars
  /\ WF_vars(limiter # None /\ V!Tick /\ UNCHANGED <<ledger, pipeline, installer>>)
  /\ \A w \in Workers :
       WF_vars(limiter # None /\ V!Step(w) /\ ~V!Takes(w) /\ UNCHANGED <<ledger, pipeline, installer>>)
  /\ WF_vars(at # None /\ R!Command /\ UNCHANGED <<governor, ledger, installer>>)

\* The properties of the four, each part stated in its module.

\* However an origin is spelled and whoever races for it, its budget holds and is spent.
BudgetHolds == limiter # None => V!BudgetHolds
\* The rate of all requests and the rate of a rule hold together.
RatesCompose == V!RatesCompose
\* No worker waits for its turn for ever.
EveryoneIsAnswered == V!EveryoneIsAnswered
\* The ledger can always be read and is, updates that overlap aside, the history of its clone.
LedgerHolds == file # None => B!LedgerIsWhole /\ B!LedgerIsTheHistory
\* The audit rows tell what was run and refused, and what state it left the repository in.
RowsAreTrue == at # None => R!LogTellsTheStory /\ R!StatusIsWhole
\* A command ends, whatever `git status` does, while it can be asked after.
CommandEnds == R!CommandEnds
\* An install puts its gitc in place or leaves the old one, and keeps what others have in PATH.
LaunchersHold == platform # None => I!InstallHolds /\ I!PathKept
=============================================================================
