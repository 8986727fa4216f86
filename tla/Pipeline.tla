------------------------------ MODULE Pipeline ------------------------------
(* One git command through gitc: src/src/main.rs and src/src/stage.rs, with  *)
(* the enforcement gate of src/src/gates.rs and src/src/policy.rs.           *)
(*                                                                           *)
(* The post stages are armed, the pre stages run (the gate, then the         *)
(* programs the machine policy names), git core runs, and the exit handler   *)
(* runs the post stages (the audit writer, then the policy's programs).      *)
(* Around the process, an administrator rewrites the policy, the programs    *)
(* answer or hang, git core ends as it likes, and the process may be killed. *)
(* A command line is abstracted to its verb and whether an `init` names its  *)
(* branch; what the gate meets to a world; time to "the limit is reached".   *)
(* Processes share only files, which other modules are about: one is enough. *)
EXTENDS Integers, SequencesExt

CONSTANTS
    Policies,  \* the contents of policy.json that parse
    Verbs,     \* git subcommands, and the pseudo-command "scan"
    Worlds,    \* what the gate may meet: backend, scanner, remote, overrides
    Edits,     \* bound: how often the administrator writes the policy
    Running,   \* a program that has not ended
    None

PolicyType ==
    [secrets : {"off", "warn", "block"}, commands : SUBSET Verbs,
     allowlist : BOOLEAN, pre : Seq(STRING), post : Seq(STRING)]
WorldType ==
    [backend : BOOLEAN, scanner : {"ready", "fails"}, scan : {"clean", "found", "fails"},
     remote : {"listed", "unlisted", "unknown", "unverifiable"},
     alias : BOOLEAN, rewrite : BOOLEAN]

ASSUME PipelineAssumption ==
    /\ Policies \subseteq PolicyType /\ Worlds \subseteq WorldType
    /\ Edits \in Nat
    /\ None \notin PolicyType /\ None \notin [verb : Verbs, branch : BOOLEAN]
    /\ {None, Running} \cap Int = {} /\ None # Running

VARIABLES
    file,     \* policy.json
    enforce,  \* the ENFORCE marker is there
    edits,    \* how often the administrator has written the policy
    meddled,  \* history: which of its readings a rewriting has come between
    pc,
    request,  \* the command line typed
    marked,   \* GITC_IN_STAGE is set, as it is for the programs of stages
    world,    \* what the gate meets
    found,    \* policy.json was there when file_exists looked
    argv,     \* ARGV: None until the post stages are armed
    registry, \* REGISTRY: the load of the policy its stages were taken from
    vetting,  \* the policy the gate decided by, None before it has
    at,       \* the stage whose turn it is: 0 is the gate, or the audit writer
    child,    \* the program a stage waits for: None, Running, or its exit code
    code, known, blocked, \* CODE, CODE_KNOWN, BLOCKED
    core,     \* git core: not entered, running, returned or exited
    ran,      \* the command line git core was given
    status,   \* the exit status, None until it is committed
    notes,    \* the verdicts noted in the repository's ledger
    seen,     \* the outcomes the post stages were given
    row,      \* the audit row, None when there is none
    fate      \* history: how the process was cut short

machine == <<file, enforce, edits, meddled>>
typed   == <<request, marked, world>>
armed   == <<argv, registry>>
result  == <<code, known, blocked>>
git     == <<core, ran>>
after   == <<seen, row>>
vars == <<machine, pc, typed, found, armed, vetting, at, child, result, git, status, notes,
          after, fate>>

ZeroPolicy ==
    [secrets |-> "off", commands |-> {}, allowlist |-> FALSE, pre |-> <<>>, post |-> <<>>]
Files ==
    [kind : {"absent", "broken"}, policy : {ZeroPolicy}] \cup [kind : {"whole"}, policy : Policies]
NoPolicy == [ok |-> TRUE, path |-> FALSE, policy |-> ZeroPolicy]
Programs(when) == registry.policy[when]
Answers == {-1, 0, 1} \* exit codes; -1 is that of a signal
Blocked(c)  == [kind |-> "blocked",  code |-> c]
Returned(c) == [kind |-> "returned", code |-> c]
Exited      == [kind |-> "exited",   code |-> -1] \* as the audit row has it
Mode(outcome) == IF outcome.kind = "blocked" THEN "blocked" ELSE "passthrough"

-----------------------------------------------------------------------------
(* gates.rs and policy.rs.                                                   *)

\* Mutant: without a policy file there is nothing to enforce.
LoadIgnoresMarker(there, now) ==
    IF ~there THEN NoPolicy
    ELSE [ok |-> now.kind # "broken", path |-> now.kind # "broken", policy |-> now.policy]

\* resolve_policy: file_exists looked at one moment, load_policy reads at
\* another.  A file that is gone by then is a policy that enforces nothing.
Load(there, now) ==
    IF ~there THEN [ok |-> ~enforce, path |-> FALSE, policy |-> ZeroPolicy]
    ELSE [ok |-> now.kind # "broken", path |-> now.kind # "broken", policy |-> now.policy]

SecretGateApplies(pol, verb) ==
    /\ pol.secrets # "off"
    /\ verb \in (IF pol.commands = {} THEN {"commit", "push"} ELSE pol.commands)

\* preflight_commit_scan: what cannot be scanned has no findings.
PreflightBlocks(pol, w) ==
    /\ SecretGateApplies(pol, "commit") /\ pol.secrets = "block"
    /\ w.scanner = "fails" \/ w.scan = "found"

\* Mutant: a remote that cannot be resolved is let through.
AllowlistFailsOpen(pol, verb, w) ==
    /\ pol.allowlist /\ verb \in {"push", "fetch", "pull", "clone", "remote"}
    /\ w.rewrite \/ w.remote = "unlisted"

\* A remote unknown to git is left to git to refuse.
AllowlistBlocks(pol, verb, w) ==
    /\ pol.allowlist /\ verb \in {"push", "fetch", "pull", "clone", "remote"}
    /\ w.rewrite \/ w.remote \in {"unlisted", "unverifiable"}

SecretGateBlocks(pol, verb, w) ==
    /\ SecretGateApplies(pol, verb)
    /\ \/ w.scanner = "fails" \/ w.scan = "fails"
       \/ w.scan = "found" /\ pol.secrets = "block"

EnforceGates(pol, verb, w) ==
    IF verb = "commit" THEN PreflightBlocks(pol, w)
    ELSE /\ pol.secrets # "off" \/ pol.allowlist
         /\ w.alias \/ AllowlistBlocks(pol, verb, w) \/ SecretGateBlocks(pol, verb, w)

\* Whether the gate has anything to ask git: where the content to be scanned is,
\* or where a remote leads.
AsksGit(pol, verb, w) ==
    IF verb = "commit" THEN w.scanner = "ready"
    ELSE /\ ~w.alias
         /\ \/ pol.allowlist /\ verb \in {"push", "fetch", "pull", "clone", "remote"} /\ ~w.rewrite
            \/ SecretGateApplies(pol, verb) /\ w.scanner = "ready"

-----------------------------------------------------------------------------
(* From the command line to git core.                                        *)

Init ==
    /\ file \in Files /\ enforce \in BOOLEAN /\ edits = 0 /\ meddled = {}
    /\ request \in {r \in [verb : Verbs, branch : BOOLEAN] : r.branch => r.verb = "init"}
    /\ marked \in BOOLEAN /\ world \in Worlds
    /\ pc = (IF request.verb = "scan" THEN "gone" ELSE "arm")
    /\ found = FALSE /\ argv = None /\ registry = NoPolicy /\ vetting = None
    /\ at = 0 /\ child = None /\ code = 0 /\ known = FALSE /\ blocked = FALSE
    /\ core = "not entered" /\ ran = None /\ status = None
    /\ notes = <<>> /\ seen = <<>> /\ row = None /\ fate = {}

\* init_default_branch: a bare `init` is given --initial-branch=main.
Effective == [request EXCEPT !.branch = @ \/ request.verb = "init"]

\* arm_post: nothing in a stage's child; else it builds the registry first.
Look(here, there) ==
    /\ pc = here /\ pc' = there
    /\ found' = (file.kind # "absent")

Arm ==
    \/ /\ pc = "arm" /\ marked /\ pc' = "pre"
       /\ UNCHANGED <<found, armed>>
    \/ /\ ~marked /\ Look("arm", "armed")
       /\ UNCHANGED armed
    \/ /\ pc = "armed" /\ pc' = "pre"
       /\ registry' = Load(found, file)
       /\ argv' = Effective
       /\ UNCHANGED found

ArmPost ==
    /\ Arm
    /\ UNCHANGED <<machine, typed, vetting, at, child, result, git, status, notes, after, fate>>

\* record_exit, and the return of main with the same code.
RecordExit(c) == code' = c /\ known' = TRUE /\ status' = c /\ pc' = "exit"

\* A stage's verdict: it notes it, and Flow::Block ends the command.
Block(verdict, c) ==
    /\ notes' = notes \o verdict
    /\ blocked' = TRUE /\ RecordExit(c)
    /\ child' = None
    /\ UNCHANGED <<machine, typed, found, armed, at, git, after, fate>>

Continue ==
    /\ notes' = Append(notes, "allow")
    /\ at' = at + 1 /\ child' = None /\ pc' = "pre"
    /\ UNCHANGED <<machine, typed, found, armed, result, git, status, after, fate>>

RefuseMarked ==
    /\ pc = "pre" /\ marked
    /\ Block(<<>>, 1)
    /\ UNCHANGED vetting

\* GateStage: the backend it asks, the policy (looked for, then read), the verdict.
NoBackend ==
    /\ pc = "pre" /\ ~marked /\ at = 0 /\ ~world.backend
    /\ Block(<<"block">>, 1)
    /\ UNCHANGED vetting

GateLooks ==
    /\ ~marked /\ at = 0 /\ world.backend
    /\ Look("pre", "gate")
    /\ UNCHANGED <<machine, typed, armed, vetting, at, child, result, git, status, notes,
                   after, fate>>

\* A policy that cannot be had, or that asks git nothing, decides by itself.
GateDecides ==
    /\ pc = "gate"
    /\ LET load == Load(found, file)
       IN  /\ ~(load.ok /\ AsksGit(load.policy, Effective.verb, world))
           /\ vetting' = IF load.ok THEN load.policy ELSE None
           /\ IF load.ok /\ ~EnforceGates(load.policy, Effective.verb, world)
              THEN Continue ELSE Block(<<"block">>, 1)

GateAsks ==
    /\ pc = "gate" /\ pc' = "ask"
    /\ LET load == Load(found, file)
       IN  /\ load.ok /\ AsksGit(load.policy, Effective.verb, world)
           /\ vetting' = load.policy
    /\ UNCHANGED <<machine, typed, found, armed, at, child, result, git, status, notes, after,
                   fate>>

\* real_git_query and real_git_bytes wait for git with no deadline; what git
\* says, or how it fails, is in the world.
GitAnswers ==
    /\ pc = "ask"
    /\ IF ~EnforceGates(vetting, Effective.verb, world) THEN Continue ELSE Block(<<"block">>, 1)
    /\ UNCHANGED vetting

-----------------------------------------------------------------------------
(* ExecStage: a program of the policy, as a pre and as a post stage.         *)

\* spawn, with GITC_IN_STAGE in the program's environment.
Spawn(here, there, programs) ==
    /\ pc = here /\ at \in 1..Len(programs)
    /\ child' = Running /\ pc' = there
    /\ UNCHANGED <<machine, typed, found, armed, vetting, at, result, git, status, notes, row,
                   fate>>

SpawnPre == ~marked /\ Spawn("pre", "pre wait", Programs("pre")) /\ UNCHANGED seen

\* The program ends, if and when it likes.
Answer ==
    /\ child = Running
    /\ child' \in Answers
    /\ UNCHANGED <<machine, pc, typed, found, armed, vetting, at, result, git, status, notes,
                   after, fate>>

PreAnswered ==
    /\ pc = "pre wait" /\ child \in Answers
    /\ IF child = 0 THEN Continue ELSE Block(<<"block">>, child)
    /\ UNCHANGED vetting

\* Mutant: wait_timeout never gives up.
PreFailsOnlyAtSpawn ==
    /\ pc = "pre" /\ ~marked /\ at \in 1..Len(Programs("pre"))
    /\ Block(<<"error">>, 1)
    /\ UNCHANGED vetting

\* The spawn failed; or the limit is reached and the program is killed, though
\* it may have answered since try_wait looked.
PreFails ==
    /\ \/ pc = "pre" /\ ~marked /\ at \in 1..Len(Programs("pre"))
       \/ pc = "pre wait"
    /\ Block(<<"error">>, 1)
    /\ UNCHANGED vetting

EnterCore ==
    /\ pc = "pre" /\ ~marked /\ at > Len(Programs("pre")) /\ pc' = "core"
    /\ core' = "running" /\ ran' = Effective
    /\ UNCHANGED <<machine, typed, found, armed, vetting, at, child, result, status, notes,
                   after, fate>>

\* cmd_main returns, and its code is recorded; or git calls exit.
CoreReturns ==
    /\ pc = "core" /\ core' = "returned"
    /\ \E c \in {0, 1} : RecordExit(c)
    /\ UNCHANGED <<machine, typed, found, armed, vetting, at, child, blocked, ran, notes,
                   after, fate>>

CoreExits ==
    /\ pc = "core" /\ core' = "exited" /\ pc' = "exit"
    /\ status' \in {0, 1, 128}
    /\ UNCHANGED <<machine, typed, found, armed, vetting, at, child, result, ran, notes,
                   after, fate>>

-----------------------------------------------------------------------------
(* exit: post_trampoline and the post stages; and what cuts them short.      *)

Outcome == IF blocked THEN Blocked(code) ELSE IF known THEN Returned(code) ELSE Exited
Auditable == argv.verb # "help"

Row == [argv |-> argv, mode |-> Mode(Outcome), code |-> Outcome.code,
        policy |-> Load(found, file).path]

\* Mutant: the post stages are a plain call after cmd_main.
TrampolineAsCall ==
    /\ pc = "exit"
    /\ pc' = IF argv = None \/ ~known THEN "gone" ELSE "post"
    /\ at' = 0
    /\ UNCHANGED <<machine, typed, found, armed, vetting, child, result, git, status, notes,
                   after, fate>>

\* The handler is registered only when the stages were armed.
Trampoline ==
    /\ pc = "exit"
    /\ pc' = IF argv = None THEN "gone" ELSE "post"
    /\ at' = 0
    /\ UNCHANGED <<machine, typed, found, armed, vetting, child, result, git, status, notes,
                   after, fate>>

Observe == seen' = Append(seen, Outcome)

NextPost == at' = at + 1 /\ child' = None /\ pc' = "post"

\* AuditStage: nothing to record, or no store to record it in.
AuditSkips ==
    /\ pc = "post" /\ at = 0
    /\ Observe /\ NextPost
    /\ UNCHANGED <<machine, typed, found, armed, vetting, result, git, status, notes, row, fate>>

\* The store is open: the policy's path is asked for, then the row is inserted.
AuditLooks ==
    /\ Look("post", "record") /\ at = 0 /\ Auditable
    /\ Observe
    /\ UNCHANGED <<machine, typed, armed, vetting, at, child, result, git, status, notes, row,
                   fate>>

AuditWrites ==
    /\ pc = "record"
    /\ row' \in {None, Row}
    /\ NextPost
    /\ UNCHANGED <<machine, typed, found, armed, vetting, result, git, status, notes, seen, fate>>

SpawnPost == Spawn("post", "post wait", Programs("post")) /\ Observe

\* Whatever the program answers, it is a post stage; so is one that cannot run.
PostEnds ==
    /\ \/ pc = "post wait" /\ UNCHANGED seen
       \/ pc = "post" /\ at \in 1..Len(Programs("post")) /\ Observe
    /\ NextPost
    /\ UNCHANGED <<machine, typed, found, armed, vetting, result, git, status, notes, row, fate>>

Finish ==
    /\ pc = "post" /\ at > Len(Programs("post")) /\ pc' = "gone"
    /\ UNCHANGED <<machine, typed, found, armed, vetting, at, child, result, git, status, notes,
                   after, fate>>

\* main catches a panic of a pre stage and returns 128; the trampoline one of a
\* post stage.
Panic ==
    /\ \/ /\ pc \in {"arm", "armed", "pre", "gate", "ask", "pre wait"} /\ pc' = "exit"
          /\ status' = 128 /\ fate' = fate \cup {"panicked"}
       \/ /\ pc \in {"post", "record", "post wait"} /\ pc' = "gone"
          /\ fate' = fate \cup {"post panicked"} /\ UNCHANGED status
    /\ UNCHANGED <<machine, typed, found, armed, vetting, at, child, result, git, notes, after>>

\* A fatal signal, TerminateProcess, abort or _exit: no handler runs.
Kill ==
    /\ pc # "gone" /\ pc' = "gone" /\ fate' = fate \cup {"killed"}
    /\ UNCHANGED <<machine, typed, found, armed, vetting, at, child, result, git, status, notes,
                   after>>

\* The administrator replaces, damages or removes policy.json.
EditPolicy ==
    /\ edits < Edits /\ edits' = edits + 1
    /\ file' \in Files \ {file}
    /\ meddled' = meddled
         \cup {m \in {"changed"} : pc \in {"armed", "gate"} \/ (pc = "pre" /\ at = 0)}
         \cup {m \in {"vanished"} : pc = "gate" /\ found /\ file'.kind = "absent"}
    /\ UNCHANGED <<enforce, pc, typed, found, armed, vetting, at, child, result, git, status,
                   notes, after, fate>>

\* What gitc does by itself.  Git core, the git that the gate asks and the
\* programs end when they like.
Gitc ==
    \/ ArmPost \/ RefuseMarked \/ NoBackend \/ GateLooks \/ GateDecides \/ GateAsks
    \/ SpawnPre \/ PreAnswered \/ PreFails \/ EnterCore
    \/ Trampoline \/ AuditSkips \/ AuditLooks \/ AuditWrites \/ SpawnPost \/ PostEnds \/ Finish

Next == Gitc \/ GitAnswers \/ Answer \/ CoreReturns \/ CoreExits \/ Panic \/ Kill \/ EditPolicy

\* A process that is scheduled goes on: but for git itself, it waits for
\* nothing without a limit.
Spec == Init /\ [][Next]_vars /\ WF_vars(Gitc)

-----------------------------------------------------------------------------
(* Properties.                                                               *)

LoadType == [ok : BOOLEAN, path : BOOLEAN, policy : Policies \cup {ZeroPolicy}]
CommandType == [verb : Verbs, branch : BOOLEAN]
OutcomeType == [kind : {"blocked", "returned", "exited"}, code : Answers]
NotesType == Seq({"allow", "block", "error"})
RowType == [argv : CommandType \cup {None}, mode : {"blocked", "passthrough"}, code : Answers,
            policy : BOOLEAN]

\* Every variable keeps its type, a stage's turn never runs past the end of its
\* list, and while gitc is itself at work only a stage that waits has a program.
TypeOK ==
    /\ file \in Files /\ enforce \in BOOLEAN /\ edits \in 0..Edits
    /\ meddled \subseteq {"changed", "vanished"}
    /\ pc \in {"arm", "armed", "pre", "gate", "ask", "pre wait", "core", "exit", "post", "record",
               "post wait", "gone"}
    /\ request \in CommandType /\ marked \in BOOLEAN /\ world \in Worlds /\ found \in BOOLEAN
    /\ argv \in CommandType \cup {None} /\ registry \in LoadType
    /\ vetting \in Policies \cup {ZeroPolicy, None}
    /\ at \in Nat /\ child \in Answers \cup {None, Running}
    /\ code \in Answers /\ known \in BOOLEAN /\ blocked \in BOOLEAN
    /\ core \in {"not entered", "running", "returned", "exited"}
    /\ ran \in CommandType \cup {None} /\ status \in Answers \cup {128, None}
    /\ notes \in NotesType /\ seen \in Seq(OutcomeType) /\ row \in RowType \cup {None}
    /\ fate \subseteq {"killed", "panicked", "post panicked"}
    /\ pc \in {"arm", "armed", "pre", "gate", "ask", "pre wait"} => at <= 1 + Len(Programs("pre"))
    /\ pc \in {"post", "record", "post wait"} => at <= 1 + Len(Programs("post"))
    /\ child # None => pc \in {"pre wait", "post wait"} \/ fate # {}

\* What the policy asks of a command, said without the order of the checks.
Permitted(pol, verb, w) ==
    /\ pol.allowlist /\ verb \in {"push", "fetch", "pull", "clone", "remote"} =>
         w.remote \in {"listed", "unknown"} /\ ~w.rewrite
    /\ SecretGateApplies(pol, verb) /\ pol.secrets = "block" =>
         w.scanner = "ready" /\ w.scan # "found"
    /\ (pol.secrets # "off" \/ pol.allowlist) /\ verb # "commit" => ~w.alias

\* Git core is entered only after the gate loaded a policy that permits the
\* command it is given, and after every program named when the stages were
\* built answered 0; none of them is still running, and the ledger says so.
CoreIsVetted ==
    core # "not entered" =>
       /\ ~marked /\ vetting # None /\ world.backend
       /\ Permitted(vetting, ran.verb, world)
       /\ notes = [i \in 1..(1 + Len(Programs("pre"))) |-> "allow"]

\* A policy demanded by the ENFORCE marker is never taken for no policy at all:
\* only one removed after resolve_policy saw it and before load_policy reads it is.
MarkerIsHonoured ==
    enforce /\ core # "not entered" => vetting \in Policies \/ "vanished" \in meddled

\* The programs that ran before git core are those of the policy the gate decided
\* by, though the two are read apart, unless it was rewritten between the readings.
ProgramsAreOfThePolicy ==
    core # "not entered" /\ "changed" \notin meddled => registry.ok /\ vetting = registry.policy

\* One policy stands behind all that admitted a command, and a demanded one.
PolicyIsHonoured == MarkerIsHonoured /\ ProgramsAreOfThePolicy

\* Post stages are told how the command really ended: refused, with the exit
\* status; returned, with the exit status; or, without a code, that git left
\* by itself (or that a stage panicked).
OutcomeIsTrue ==
    \A i \in DOMAIN seen :
       CASE seen[i].kind = "blocked"  -> /\ core = "not entered"
                                         /\ seen[i].code = status /\ status # 0
         [] seen[i].kind = "returned" -> core = "returned" /\ seen[i].code = status
         [] seen[i].kind = "exited"   -> core = "exited" \/ "panicked" \in fate

\* A command that ran, or was refused, to its end was shown once to every post
\* stage; only a stage's child is refused unseen.
EveryEndIsObserved ==
    /\ Len(seen) <= 1 + Len(Programs("post"))
    /\ pc = "gone" /\ status # None /\ fate \subseteq {"panicked"} /\ argv # None =>
         Len(seen) = 1 + Len(Programs("post"))
    /\ (blocked \/ core # "not entered") /\ argv = None => marked

\* The audit row names the command git was given, says "blocked" of refused
\* commands only, and says 0 only of a git that returned 0.
RowIsTrue ==
    row # None =>
       /\ ran # None => row.argv = ran
       /\ row.mode = "blocked" <=> blocked
       /\ row.code = 0 => core = "returned" /\ status = 0

\* A gitc that a stage's program calls never runs git core nor a program of its
\* own, so stages do not recurse; and it fails.
NoRecursion ==
    marked => core = "not entered" /\ child = None /\ seen = <<>> /\ status # 0

\* The exit status, once committed, is out of the post stages' reach.
StatusStands == [][status # None => status' = status]_vars

\* A stage that hangs holds neither the command nor the end of it up for ever; of
\* all that gitc waits for, only git, as core or as the gate's oracle, can do that.
StagesEnd == (pc \notin {"ask", "core", "gone"}) ~> (pc \in {"ask", "core", "gone"})

\* How a command ends is what the post stages and the audit row are told: truly, once, and
\* never by a gitc that a stage's program called.
EndsAreTrue == TypeOK /\ OutcomeIsTrue /\ EveryEndIsObserved /\ RowIsTrue /\ NoRecursion
=============================================================================
