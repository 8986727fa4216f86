----------------------------- MODULE ScrubProofs -----------------------------
(* What `gitc scrub` guarantees for any refs, any commands in any order and   *)
(* any number of them, whichever calls fail and wherever the process dies;    *)
(* and what the walks it relies on show, for any history, any packs and any   *)
(* caps, whatever gc and branches do meanwhile.                               *)
EXTENDS Scrub, Walk, FiniteSetTheorems, SequenceTheorems, WellFoundedInduction, TLAPS

\* A command begins at most one bundle, and takes a number no bundle has.
Numbering ==
    /\ Indices \subseteq 0..(count - 1)
    /\ pc # "idle" => count \in 1..MaxCommands
    /\ pc \in {"collect", "check", "backup"} => Indices \subseteq 0..(count - 2)

\* Which commands are where, and that a running command has no exit code yet.
Running ==
    /\ pc # "idle" => code = None
    /\ pc = "collect" \/ pc = "verify" => cmd.op = "secret"
    /\ pc = "rollback" => cmd.op = "rollback"
    /\ pc = "cleanup" => cmd.op = "cleanup"

\* The fence: between the backup and the rewrite a bundle holds what the rewrite
\* is about to replace.
Fenced ==
    pc \in {"sanity", "rewrite"} /\ cmd.backup /\ ~cmd.dry =>
        \E i \in Indices : backups[i] = refs

\* Past the fence an unforced command has only edits made since.
Spared == pc \in {"rewrite", "reset"} /\ ~cmd.force => edits # "early"

\* No ref moves before the rewrite, and none at all if it is dry or refused.
Unmoved ==
    /\ pc \in Labels \ {"idle", "reset", "gc", "verify"} => refs = before
    /\ cmd # None /\ cmd.dry /\ cmd.op # "rollback" => refs = before
    /\ cmd # None /\ code = Precondition => refs = before

\* A secret left in a ref is one that was collected, or one that was passed over.
Hunted ==
    pc \in {"check", "backup", "sanity", "rewrite", "reset", "gc", "verify"} /\ cmd.op = "secret"
        => \A x \in Present : x[2] \in known \/ x \in unread

ScrubInv ==
    /\ TypeOK /\ Numbering /\ Running /\ Fenced /\ Spared /\ Unmoved /\ Hunted
    /\ BackupHolds /\ EditsSurvive /\ ZeroMeansScanned

-----------------------------------------------------------------------------
\* The largest of some numbers below a bound: what Latest denotes.
LEMMA MaxFacts ==
    ASSUME NEW n \in Int, NEW S, S \subseteq 0..n, S # {}
    PROVE  Max(S) \in S /\ \A y \in S : Max(S) >= y
<1> DEFINE Above(y) == {z \in S : z > y}
           T == {Above(y) : y \in S}
           R == StrictSubsetOrdering(S)
<1>1. IsFiniteSet(S)
  BY FS_Interval, FS_Subset, 0 \in Int
<1>2. IsWellFoundedOn(R, SUBSET S)
  BY <1>1, FS_FiniteSubsetsOfFinite, FS_StrictSubsetOrderingWellFounded, Zenon
<1>3. T \subseteq SUBSET S /\ T # {}
  OBVIOUS
<1>4. PICK t \in T : \A u \in T : <<u, t>> \notin R
  <2> HIDE DEF R, T
  <2> QED
    BY <1>2, <1>3, WFMin
<1>5. PICK x \in S : t = Above(x)
  OBVIOUS
<1>6. \A y \in S : x >= y
  <2> SUFFICES ASSUME NEW y \in S, y > x PROVE FALSE
    OBVIOUS
  <2>1. Above(y) \subseteq Above(x)
    <3> SUFFICES ASSUME NEW z \in S, z > y PROVE z > x
      OBVIOUS
    <3>1. x \in Int /\ y \in Int /\ z \in Int
      OBVIOUS
    <3> QED
      BY ONLY <3>1, z > y, y > x
  <2>2. y \in Above(x) /\ y \notin Above(y)
    OBVIOUS
  <2>3. Above(x) \in SUBSET S /\ Above(y) \in SUBSET S /\ Above(y) \in T
    OBVIOUS
  <2> HIDE DEF Above
  <2>4. <<Above(y), Above(x)>> \in R
    BY <2>1, <2>2, <2>3 DEF StrictSubsetOrdering
  <2> QED
    BY <1>4, <1>5, <2>3, <2>4
<1> QED
  BY <1>5, <1>6 DEF Max

LEMMA LatestFacts ==
    ASSUME TypeOK, Indices # {}
    PROVE  Latest \in Indices /\ \A i \in Indices : Latest >= i
  <1>1. MaxCommands - 1 \in Int /\ Indices \subseteq 0..(MaxCommands - 1)
    BY ScrubAssumption DEF TypeOK
  <1> HIDE DEF Indices
  <1> QED
    BY <1>1, MaxFacts DEF Latest

LEMMA NoCommand == None \notin Commands /\ None # Clean /\ None # Precondition
  BY ScrubAssumption DEF Clean, Precondition

LEMMA CommandFacts ==
    ASSUME NEW c \in Commands
    PROVE  /\ c.op \in {"secret", "path", "rollback", "cleanup"}
           /\ c.force \in BOOLEAN /\ c.dry \in BOOLEAN /\ c.backup \in BOOLEAN
           /\ c # None
  BY NoCommand, ScrubAssumption DEF CommandType

LEMMA ScrubInit == Init => ScrubInv
<1> SUFFICES ASSUME Init PROVE ScrubInv
  OBVIOUS
<1>1. Indices = {}
  BY DEF Init, Indices
<1>2. refs \in [Refs -> History] /\ before = refs
  BY ScrubAssumption DEF Init
<1>3. TypeOK
  <2>1. head \in Heads /\ fresh \in BOOLEAN /\ known = {} /\ unread = {}
    BY DEF Init
  <2>2. cmd \in Commands \cup {None} /\ pc = "idle" /\ pc \in Labels
    BY DEF Init, Labels
  <2>3. code \in {Clean, Runtime, VerifyFailed, Precondition, None}
    BY DEF Init
  <2>4. count \in 0..MaxCommands /\ replaced = {} /\ wiped = {}
    BY ScrubAssumption DEF Init
  <2>5. edits \in {"none", "early", "late"}
    BY DEF Init
  <2> QED
    BY <1>1, <1>2, <2>1, <2>2, <2>3, <2>4, <2>5 DEF TypeOK
<1>4. Numbering
  BY <1>1 DEF Numbering, Init
<1>5. Running /\ Fenced /\ Spared /\ Hunted
  BY DEF Running, Fenced, Spared, Hunted, Init
<1>6. Unmoved
  BY DEF Unmoved, Init
<1>7. BackupHolds /\ EditsSurvive /\ ZeroMeansScanned
  BY DEF BackupHolds, EditsSurvive, ZeroMeansScanned, Ends, Init
<1> QED
  BY <1>3, <1>4, <1>5, <1>6, <1>7 DEF ScrubInv

-----------------------------------------------------------------------------
(* A step of a running command that moves no ref and touches no bundle.       *)

Edges == {<<"collect", "check">>, <<"check", "backup">>, <<"backup", "sanity">>,
          <<"sanity", "rewrite">>, <<"reset", "gc">>, <<"gc", "verify">>}

\* A step that collects and verifies nothing, or whose finds are in order.
HuntKept ==
    \/ UNCHANGED hunt /\ (pc = "collect" => pc' = "idle")
    \/ known' \subseteq Secrets /\ unread' \subseteq Refs \X Secrets /\ Hunted'

LEMMA StepKeeps ==
    ASSUME ScrubInv, pc # "idle",
           refs' = refs, head' = head, backups' = backups, before' = before,
           replaced' = replaced, count' = count, cmd' = cmd,
           fresh' \in BOOLEAN, HuntKept,
           edits' \in {"none", "early", "late"}, wiped' \subseteq {"early", "late"},
           "early" \notin wiped',
           code' \in {Clean, Runtime, VerifyFailed, Precondition, None},
           pc' = "idle" \/ (<<pc, pc'>> \in Edges /\ code' = None),
           pc' = "verify" => cmd.op = "secret",
           pc' = "sanity" => ~cmd.backup \/ cmd.dry,
           pc' = "rewrite" /\ ~cmd.force => edits' # "early",
           edits' = edits \/ edits' = "none",
           code' = Precondition => refs = before,
           code' = Clean /\ cmd.op = "secret" /\ ~cmd.dry => Present \subseteq unread'
    PROVE  ScrubInv'
<1> USE DEF ScrubInv
<1>1. pc' \in Labels /\ (pc' # "idle" => <<pc, pc'>> \in Edges)
  BY DEF Edges, Labels
<1>2. TypeOK'
  <2>1. known' \subseteq Secrets /\ unread' \subseteq Refs \X Secrets
    BY DEF HuntKept, TypeOK, hunt
  <2> QED
    BY <1>1, <2>1 DEF TypeOK, Indices
<1>3. Numbering'
  BY <1>1 DEF Numbering, Indices, Edges
<1>4. Running'
  BY <1>1 DEF Running, Edges
<1>5. Fenced'
  BY <1>1 DEF Fenced, Edges, Indices
<1>6. Spared'
  BY <1>1 DEF Spared, Edges
<1>7. Unmoved'
  BY <1>1 DEF Unmoved, Edges, Labels
<1>8. BackupHolds' /\ EditsSurvive'
  BY DEF BackupHolds, EditsSurvive, Indices
<1>9. Present' = Present
  BY DEF Present
<1>10. Hunted'
  BY <1>1, <1>9 DEF HuntKept, hunt, Hunted, Edges
<1>11. ZeroMeansScanned'
  BY <1>1, <1>9, NoCommand DEF ZeroMeansScanned, Ends, At
<1> QED
  BY <1>2, <1>3, <1>4, <1>5, <1>6, <1>7, <1>8, <1>10, <1>11

\* The step of a command that makes no progress: it failed, or the process died.
LEMMA FaultKeeps ==
    ASSUME ScrubInv, pc # "idle", UNCHANGED <<disk, hunt, hist>>, pc' = "idle",
           cmd' = cmd,
           code' \in {Runtime, Precondition, None}, code' = Precondition => refs = before
    PROVE  ScrubInv'
<1>1. fresh' \in BOOLEAN /\ edits' \in {"none", "early", "late"}
      /\ wiped' \subseteq {"early", "late"} /\ "early" \notin wiped'
  BY DEF ScrubInv, TypeOK, EditsSurvive, disk, hist
<1>2. code' # Clean
  BY NoCommand DEF Clean, Runtime, Precondition
<1>3. HuntKept
  BY DEF HuntKept
<1> QED
  BY <1>1, <1>2, <1>3, StepKeeps DEF disk, hist

LEMMA CollectKeeps == ScrubInv /\ Collect => ScrubInv'
<1> SUFFICES ASSUME ScrubInv, Collect PROVE ScrubInv'
  OBVIOUS
<1>1. pc = "collect" /\ code = None /\ refs = before
  BY DEF Collect, At, ScrubInv, Running, Unmoved, Labels
<1>2. CASE Fault(Runtime)
  BY <1>1, <1>2, FaultKeeps DEF Fault, Exit, Runtime
<1>3. CASE /\ \E missed \in SUBSET Present :
                  known' = {x[2] : x \in Present \ missed} /\ unread' = missed
           /\ IF known' # {} THEN Goto("check") ELSE Exit(Clean)
           /\ UNCHANGED <<disk, hist>>
  <2>1. PICK missed \in SUBSET Present :
            known' = {x[2] : x \in Present \ missed} /\ unread' = missed
    BY <1>3
  <2>2. Present \subseteq Refs \X Secrets /\ Present' = Present
    BY <1>3 DEF Present, disk
  <2>3. \A x \in Present : x[2] \in known' \/ x \in unread'
    BY <2>1
  <2>4. HuntKept
    BY <2>1, <2>2, <2>3 DEF HuntKept, Hunted
  <2>5. \/ pc' = "check" /\ code' = None
        \/ pc' = "idle" /\ code' = Clean /\ Present \subseteq unread'
    BY <1>1, <1>3, <2>3 DEF Goto, Exit
  <2>6. cmd' = cmd
    BY <1>3 DEF Goto, Exit
  <2> QED
    BY <1>1, <1>3, <2>4, <2>5, <2>6, StepKeeps, NoCommand
    DEF ScrubInv, TypeOK, EditsSurvive, disk, hist, Edges
<1> QED
  BY <1>2, <1>3 DEF Collect

LEMMA CheckKeeps == ScrubInv /\ Check => ScrubInv'
<1> SUFFICES ASSUME ScrubInv, Check PROVE ScrubInv'
  OBVIOUS
<1>1. pc = "check" /\ code = None /\ refs = before
  BY DEF Check, At, ScrubInv, Running, Unmoved, Labels
<1>2. CASE Fault(Precondition)
  BY <1>1, <1>2, FaultKeeps DEF Fault, Exit
<1>3. CASE \/ /\ IF cmd.force \/ edits = "none" THEN Goto("backup") ELSE Exit(Precondition)
              /\ UNCHANGED <<disk, hunt, hist>>
           \/ ~cmd.force /\ Goto("backup") /\ UNCHANGED <<disk, hunt, hist>>
  <2>1. \/ pc' = "backup" /\ code' = None
        \/ pc' = "idle" /\ code' = Precondition
    BY <1>1, <1>3 DEF Goto, Exit
  <2>2. cmd' = cmd /\ UNCHANGED <<disk, hist>>
    BY <1>3 DEF Goto, Exit
  <2>3. HuntKept
    BY <1>1, <1>3 DEF HuntKept
  <2>4. Precondition # Clean
    BY DEF Precondition, Clean
  <2> QED
    BY <1>1, <2>1, <2>2, <2>3, <2>4, StepKeeps, NoCommand
    DEF ScrubInv, TypeOK, EditsSurvive, disk, hist, Edges
<1> QED
  BY <1>2, <1>3 DEF Check

LEMMA SkipBackupKeeps == ScrubInv /\ SkipBackup => ScrubInv'
<1> SUFFICES ASSUME ScrubInv, SkipBackup PROVE ScrubInv'
  OBVIOUS
<1>1. pc = "backup" /\ pc' = "sanity" /\ code' = None /\ cmd' = cmd
      /\ (~cmd.backup \/ cmd.dry)
  BY DEF SkipBackup, At, Goto, ScrubInv, Running
<1>2. UNCHANGED <<disk, hunt, hist>> /\ HuntKept
  BY <1>1 DEF SkipBackup, HuntKept
<1> QED
  BY <1>1, <1>2, StepKeeps, NoCommand
  DEF ScrubInv, TypeOK, EditsSurvive, disk, hist, Edges

LEMMA SanityKeeps == ScrubInv /\ Sanity => ScrubInv'
<1> SUFFICES ASSUME ScrubInv, Sanity PROVE ScrubInv'
  OBVIOUS
<1>1. pc = "sanity" /\ code = None /\ refs = before
  BY DEF Sanity, At, ScrubInv, Running, Unmoved, Labels
<1>2. CASE \E c \in {Runtime, Precondition} : Fault(c)
  BY <1>1, <1>2, FaultKeeps DEF Fault, Exit
<1>3. CASE /\ IF cmd.force \/ (fresh /\ edits = "none")
                THEN Goto("rewrite") ELSE Exit(Precondition)
           /\ UNCHANGED <<disk, hunt, hist>>
  <2>1. \/ pc' = "rewrite" /\ code' = None /\ (cmd.force \/ edits = "none")
        \/ pc' = "idle" /\ code' = Precondition
    BY <1>1, <1>3 DEF Goto, Exit
  <2>2. cmd' = cmd
    BY <1>3 DEF Goto, Exit
  <2>3. Precondition # Clean /\ HuntKept
    BY <1>1, <1>3 DEF Precondition, Clean, HuntKept
  <2> QED
    BY <1>1, <1>3, <2>1, <2>2, <2>3, StepKeeps, NoCommand
    DEF ScrubInv, TypeOK, EditsSurvive, disk, hist, Edges
<1> QED
  BY <1>2, <1>3 DEF Sanity

LEMMA DryRunKeeps == ScrubInv /\ (DryRun \/ RewriteFails) => ScrubInv'
<1> SUFFICES ASSUME ScrubInv, DryRun \/ RewriteFails PROVE ScrubInv'
  OBVIOUS
<1>1. pc = "rewrite"
  BY DEF DryRun, RewriteFails, At
<1>2. CASE Fault(Runtime)
  BY <1>1, <1>2, FaultKeeps DEF Fault, Exit, Runtime, Precondition
<1>3. CASE cmd.dry /\ Exit(Clean) /\ UNCHANGED <<disk, hunt, hist>>
  <2>1. pc' = "idle" /\ code' = Clean /\ cmd' = cmd
    BY <1>3 DEF Exit
  <2>2. Clean # Precondition /\ HuntKept
    BY <1>1, <1>3 DEF Clean, Precondition, HuntKept
  <2> QED
    BY <1>1, <1>3, <2>1, <2>2, StepKeeps
    DEF ScrubInv, TypeOK, EditsSurvive, disk, hist
<1> QED
  BY <1>2, <1>3 DEF DryRun, RewriteFails

LEMMA ResetKeeps == ScrubInv /\ Reset => ScrubInv'
<1> SUFFICES ASSUME ScrubInv, Reset PROVE ScrubInv'
  OBVIOUS
<1>1. pc = "reset" /\ code = None
  BY DEF Reset, At, ScrubInv, Running
<1>2. CASE Fault(Runtime)
  BY <1>1, <1>2, FaultKeeps DEF Fault, Exit, Runtime, Precondition
<1>3. CASE /\ Goto("gc")
           /\ edits' = "none"
           /\ wiped' = IF cmd.force THEN wiped ELSE wiped \cup ({edits} \ {"none"})
           /\ UNCHANGED <<refs, head, fresh, backups, hunt, before, replaced, count>>
  <2>1. pc' = "gc" /\ code' = None /\ cmd' = cmd
    BY <1>1, <1>3 DEF Goto
  <2>2. wiped' \subseteq {"early", "late"} /\ "early" \notin wiped'
    BY <1>1, <1>3 DEF ScrubInv, TypeOK, EditsSurvive, Spared
  <2>3. HuntKept
    BY <1>1, <1>3 DEF HuntKept
  <2> QED
    BY <1>1, <1>3, <2>1, <2>2, <2>3, StepKeeps, NoCommand DEF ScrubInv, TypeOK, Edges
<1> QED
  BY <1>2, <1>3 DEF Reset

LEMMA GcKeeps == ScrubInv /\ Gc => ScrubInv'
<1> SUFFICES ASSUME ScrubInv, Gc PROVE ScrubInv'
  OBVIOUS
<1>1. pc = "gc" /\ code = None
  BY DEF Gc, At, ScrubInv, Running
<1>2. CASE Fault(Runtime)
  BY <1>1, <1>2, FaultKeeps DEF Fault, Exit, Runtime, Precondition
<1>3. CASE /\ fresh' = TRUE
           /\ IF cmd.op = "secret" THEN Goto("verify") ELSE Exit(Clean)
           /\ UNCHANGED <<refs, head, edits, backups, hunt, hist>>
  <2>1. \/ pc' = "verify" /\ code' = None /\ cmd.op = "secret"
        \/ pc' = "idle" /\ code' = Clean /\ cmd.op # "secret"
    BY <1>1, <1>3 DEF Goto, Exit
  <2>2. cmd' = cmd
    BY <1>3 DEF Goto, Exit
  <2>3. fresh' \in BOOLEAN
    BY <1>3, Zenon
  <2>4. Clean # Precondition /\ HuntKept
    BY <1>1, <1>3 DEF Clean, Precondition, HuntKept
  <2> QED
    BY <1>1, <1>3, <2>1, <2>2, <2>3, <2>4, StepKeeps, NoCommand
    DEF ScrubInv, TypeOK, EditsSurvive, hist, Edges
<1> QED
  BY <1>2, <1>3 DEF Gc

LEMMA VerifyKeeps == ScrubInv /\ Verify => ScrubInv'
<1> SUFFICES ASSUME ScrubInv, Verify PROVE ScrubInv'
  OBVIOUS
<1>1. pc = "verify" /\ code = None
  BY DEF Verify, At, ScrubInv, Running
<1>2. CASE Fault(Runtime)
  BY <1>1, <1>2, FaultKeeps DEF Fault, Exit, Runtime, Precondition
<1>3. CASE Verdict(Present)
  <2>1. PICK missed \in SUBSET Present :
            /\ Exit(IF \E x \in Present \ missed : x[2] \in known THEN VerifyFailed ELSE Clean)
            /\ unread' = unread \cup missed
            /\ UNCHANGED <<disk, known, hist>>
    BY <1>3 DEF Verdict
  <2>2. pc' = "idle" /\ cmd' = cmd /\ code' \in {Clean, VerifyFailed}
        /\ (code' = Clean => \A x \in Present \ missed : x[2] \notin known)
    BY <2>1 DEF Exit, Clean, VerifyFailed
  <2>3. code' # Precondition
    BY <2>2 DEF Clean, VerifyFailed, Precondition
  <2>4. \A x \in Present : x[2] \in known \/ x \in unread
    BY <1>1 DEF ScrubInv, Hunted, Running
  <2>5. code' = Clean => Present \subseteq unread'
    BY <2>1, <2>2, <2>4
  <2>6. HuntKept
    <3>1. Present \subseteq Refs \X Secrets
      BY DEF Present
    <3> QED
      BY <2>1, <2>2, <3>1 DEF HuntKept, Hunted, ScrubInv, TypeOK
  <2> QED
    BY <1>1, <2>1, <2>2, <2>3, <2>5, <2>6, StepKeeps, NoCommand
    DEF ScrubInv, TypeOK, EditsSurvive, disk, hist, Edges
<1> QED
  BY <1>2, <1>3 DEF Verify

LEMMA DiesKeeps == ScrubInv /\ Dies => ScrubInv'
<1> SUFFICES ASSUME ScrubInv, Dies PROVE ScrubInv'
  OBVIOUS
<1> QED
  BY FaultKeeps, NoCommand DEF Dies, At

-----------------------------------------------------------------------------
(* The steps that move refs or touch the bundles, and the user's.             *)

LEMMA BeginKeeps == ScrubInv /\ Begin => ScrubInv'
<1> SUFFICES ASSUME ScrubInv, Begin PROVE ScrubInv'
  OBVIOUS
<1>1. PICK c \in Commands :
        /\ cmd' = c
        /\ pc' = CASE c.op = "secret" -> "collect" [] c.op = "path" -> "check"
                   [] OTHER -> c.op
  BY DEF Begin
<1>2. /\ pc = "idle" /\ count < MaxCommands /\ code' = None
      /\ before' = refs /\ count' = count + 1
      /\ edits' = IF edits = "late" THEN "early" ELSE edits
      /\ UNCHANGED <<refs, head, fresh, backups, replaced, wiped>>
  BY DEF Begin, At
<1>3. known' = {} /\ unread' = {}
  BY DEF Begin
<1>4. /\ pc' \in {"collect", "check", "rollback", "cleanup"}
      /\ pc' = "collect" => c.op = "secret"
      /\ pc' \in {"rollback", "cleanup"} => c.op = pc'
  BY <1>1, CommandFacts
<1>5. count \in Nat /\ MaxCommands \in Nat /\ count' \in 1..MaxCommands
  BY <1>2, ScrubAssumption DEF ScrubInv, TypeOK
<1>6. TypeOK'
  <2>1. edits' \in {"none", "early", "late"}
    BY <1>2 DEF ScrubInv, TypeOK
  <2>2. cmd' \in Commands \cup {None} /\ pc' \in Labels /\ cmd' # None
    BY <1>1, <1>4, NoCommand DEF Labels
  <2>3. code' \in {Clean, Runtime, VerifyFailed, Precondition, None}
    BY <1>2
  <2> QED
    BY <1>2, <1>3, <1>5, <2>1, <2>2, <2>3 DEF ScrubInv, TypeOK, Indices
<1>7. Numbering'
  <2>1. Indices' = Indices /\ Indices \subseteq 0..(count - 1)
    BY <1>2 DEF Indices, ScrubInv, Numbering
  <2> HIDE DEF Indices
  <2>2. Indices' \subseteq 0..(count' - 2) /\ Indices' \subseteq 0..(count' - 1)
    BY <1>2, <1>5, <2>1
  <2> QED
    BY <1>5, <2>2 DEF Numbering
<1>8. Running' /\ Fenced' /\ Spared' /\ Hunted'
  <2>1. pc' = "check" => c.op = "path"
    BY <1>1, CommandFacts
  <2> QED
    BY <1>1, <1>2, <1>4, <2>1 DEF Running, Fenced, Spared, Hunted
<1>9. Unmoved' /\ ZeroMeansScanned'
  BY <1>2, <1>4, NoCommand DEF Unmoved, ZeroMeansScanned, Ends, At
<1>10. BackupHolds' /\ EditsSurvive'
  BY <1>2 DEF ScrubInv, BackupHolds, EditsSurvive, Indices
<1> QED
  BY <1>6, <1>7, <1>8, <1>9, <1>10 DEF ScrubInv

\* The number of a new bundle is free, and within the bound of the old ones.
LEMMA NextIndexFacts ==
    ASSUME TypeOK, Numbering, pc = "backup"
    PROVE  NextIndex \notin Indices /\ NextIndex \in 0..(count - 1)
<1>1. count \in 1..MaxCommands /\ Indices \subseteq 0..(count - 2)
      /\ MaxCommands \in Nat
  BY ScrubAssumption DEF Numbering
<1>2. CASE Indices = {}
  BY <1>1, <1>2 DEF NextIndex
<1>3. CASE Indices # {}
  <2>1. Latest \in Indices /\ \A i \in Indices : Latest >= i
    BY <1>3, LatestFacts
  <2>2. NextIndex = Latest + 1
    BY <1>3 DEF NextIndex
  <2> HIDE DEF Indices, Latest, NextIndex
  <2>3. Latest \in 0..(count - 2) /\ count \in Int
    BY <1>1, <2>1
  <2>4. NextIndex \in 0..(count - 1)
    BY ONLY <2>2, <2>3
  <2>5. NextIndex \notin Indices
    <3> SUFFICES ASSUME NextIndex \in Indices PROVE FALSE
      OBVIOUS
    <3>1. Latest >= Latest + 1
      BY <2>1, <2>2
    <3> QED
      BY ONLY <2>3, <3>1
  <2> QED
    BY <2>4, <2>5
<1> QED
  BY <1>2, <1>3

LEMMA MakeBackupKeeps == ScrubInv /\ MakeBackup => ScrubInv'
<1> SUFFICES ASSUME ScrubInv, MakeBackup PROVE ScrubInv'
  OBVIOUS
<1>1. pc = "backup" /\ code = None /\ refs = before
  BY DEF MakeBackup, At, ScrubInv, Running, Unmoved, Labels
<1>2. CASE Fault(Runtime)
  BY <1>1, <1>2, FaultKeeps DEF Fault, Exit, Runtime, Precondition
<1>3. CASE /\ backups' = Snapshot(NextIndex)
           /\ UNCHANGED <<refs, head, fresh, edits, hunt, hist>>
           /\ Goto("sanity") \/ Exit(Runtime)
  <2> DEFINE n == NextIndex
  <2>1. n \notin Indices /\ n \in 0..(count - 1)
    BY <1>1, NextIndexFacts DEF ScrubInv
  <2> HIDE DEF n
  <2>2. /\ Indices' = Indices \cup {n} /\ backups'[n] = refs
        /\ \A i \in Indices : backups'[i] = backups[i]
    BY <1>3, <2>1 DEF Snapshot, Indices, n
  <2> HIDE DEF Indices
  <2>3. /\ cmd' = cmd /\ \/ pc' = "sanity" /\ code' = None
                         \/ pc' = "idle" /\ code' = Runtime
    BY <1>1, <1>3 DEF Goto, Exit
  <2>4. UNCHANGED <<known, unread>>
    BY <1>3 DEF hunt
  <2>5. UNCHANGED <<refs, head, fresh, edits, before, replaced, wiped, count>>
    BY <1>3 DEF hist
  <2>6. count \in 1..MaxCommands /\ MaxCommands \in Nat
    BY <1>1, ScrubAssumption DEF ScrubInv, Numbering
  <2>7. Indices' \subseteq 0..(count - 1)
    BY <2>1, <2>2 DEF ScrubInv, Numbering
  <2>8. TypeOK'
    <3>1. Indices' \subseteq 0..(MaxCommands - 1)
      BY <2>6, <2>7
    <3>2. \A i \in Indices' : backups'[i] \in [Refs -> History]
      BY <2>2 DEF ScrubInv, TypeOK
    <3> QED
      BY <1>1, <2>3, <2>4, <2>5, <3>1, <3>2 DEF ScrubInv, TypeOK, Labels
  <2>9. Numbering'
    BY <2>3, <2>5, <2>6, <2>7 DEF Numbering
  <2>10. Running' /\ Spared' /\ Hunted'
    BY <1>1, <2>3, <2>4, <2>5 DEF ScrubInv, Running, Spared, Hunted, Present
  <2>11. Fenced'
    BY <2>2, <2>3, <2>5 DEF Fenced
  <2>12. Unmoved' /\ ZeroMeansScanned'
    BY <1>1, <2>3, <2>5 DEF Unmoved, ZeroMeansScanned, Ends, At, Clean, Runtime
  <2>13. BackupHolds' /\ EditsSurvive'
    BY <2>2, <2>5 DEF ScrubInv, BackupHolds, EditsSurvive
  <2> QED
    BY <2>8, <2>9, <2>10, <2>11, <2>12, <2>13 DEF ScrubInv
<1> QED
  BY <1>2, <1>3 DEF MakeBackup

\* A rewrite makes a history of a history.
LEMMA RewrittenIsHistory ==
    ASSUME NEW h \in History, NEW g \in Rewritten(h)
    PROVE  g \in History /\ g.secret \subseteq h.secret
  BY DEF Rewritten, History

LEMMA RewriteKeeps == ScrubInv /\ Rewrite => ScrubInv'
<1> SUFFICES ASSUME ScrubInv, Rewrite PROVE ScrubInv'
  OBVIOUS
<1>1. pc = "rewrite" /\ code = None /\ ~cmd.dry /\ refs = before
  BY DEF Rewrite, At, ScrubInv, Running, Unmoved, Labels
<1>2. /\ cmd' = cmd
      /\ \/ pc' = "reset" /\ code' = None
         \/ pc' = "idle" /\ code' = Runtime
  BY <1>1 DEF Rewrite, Goto, Exit
<1>3. UNCHANGED <<known, unread>>
  BY DEF Rewrite, hunt
<1>4. UNCHANGED <<head, edits, backups, before, wiped, count>> /\ Indices' = Indices
  BY DEF Rewrite, Indices
<1>5. PICK moved \in SUBSET Scope(cmd) :
        /\ refs' \in [Refs -> UNION {Rewritten(refs[r]) : r \in moved} \cup Range(refs)]
        /\ \A r \in Refs : IF r \in moved THEN refs'[r] \in Rewritten(refs[r])
                                          ELSE refs'[r] = refs[r]
  BY DEF Rewrite, Imports
<1>6. refs \in [Refs -> History] /\ refs' \in [Refs -> History]
  <2>1. refs \in [Refs -> History]
    BY DEF ScrubInv, TypeOK
  <2>2. \A r \in Refs : refs'[r] \in History
    BY <1>5, <2>1, RewrittenIsHistory
  <2> QED
    BY <1>5, <2>1, <2>2
<1>7. fresh' \in BOOLEAN
  BY Zenon DEF Rewrite, Imports, ScrubInv, TypeOK
<1>8. replaced' = IF cmd.backup
             THEN replaced \cup {<<r, refs[r]>> : r \in {q \in Refs : refs'[q] # refs[q]}}
             ELSE replaced
  BY DEF Rewrite, Imports
<1>9. TypeOK'
  <2>1. replaced' \subseteq Refs \X History
    BY <1>6, <1>8 DEF ScrubInv, TypeOK
  <2>2. cmd' \in Commands \cup {None} /\ pc' \in Labels /\ cmd' # None
        /\ code' \in {Clean, Runtime, VerifyFailed, Precondition, None}
    BY <1>1, <1>2 DEF ScrubInv, TypeOK, Labels
  <2> QED
    BY <1>3, <1>4, <1>6, <1>7, <2>1, <2>2 DEF ScrubInv, TypeOK
<1>10. Numbering' /\ Running' /\ Fenced'
  BY <1>1, <1>2, <1>4 DEF ScrubInv, Numbering, Running, Fenced
<1>11. Spared'
  BY <1>1, <1>2, <1>4 DEF ScrubInv, Spared
<1>12. Unmoved' /\ ZeroMeansScanned'
  <2>1. cmd \in Commands /\ Runtime # Precondition /\ Runtime # Clean
    BY <1>1 DEF ScrubInv, TypeOK, Runtime, Precondition, Clean
  <2> QED
    BY <1>1, <1>2, <2>1, NoCommand DEF Unmoved, ZeroMeansScanned, Ends, At
<1>13. BackupHolds'
  <2>1. \A x \in replaced : \E i \in Indices : backups[i][x[1]] = x[2]
    BY DEF ScrubInv, BackupHolds
  <2>2. CASE ~cmd.backup
    BY <1>4, <1>8, <2>1, <2>2 DEF BackupHolds
  <2>3. CASE cmd.backup
    <3>1. PICK i \in Indices : backups[i] = refs
      BY <1>1, <2>3 DEF ScrubInv, Fenced
    <3>2. \A r \in Refs : backups[i][<<r, refs[r]>>[1]] = <<r, refs[r]>>[2]
      BY <3>1
    <3> QED
      BY <1>4, <1>8, <2>1, <2>3, <3>2 DEF BackupHolds
  <2> QED
    BY <2>2, <2>3
<1>14. EditsSurvive'
  BY <1>4 DEF ScrubInv, EditsSurvive
<1>15. Hunted'
  <2>1. \A r \in Refs : refs'[r].secret \subseteq refs[r].secret
    BY <1>5, <1>6, RewrittenIsHistory
  <2>2. Present' \subseteq Present
    BY <2>1 DEF Present
  <2> QED
    BY <1>1, <1>2, <1>3, <2>2 DEF ScrubInv, Hunted
<1> QED
  BY <1>9, <1>10, <1>11, <1>12, <1>13, <1>14, <1>15 DEF ScrubInv

LEMMA RollbackKeeps == ScrubInv /\ Rollback => ScrubInv'
<1> SUFFICES ASSUME ScrubInv, Rollback PROVE ScrubInv'
  OBVIOUS
<1>1. pc = "rollback" /\ code = None /\ cmd.op = "rollback" /\ refs = before
  BY DEF Rollback, At, ScrubInv, Running, Unmoved, Labels
<1>2. CASE \E c \in {Runtime, Precondition} : Fault(c)
  BY <1>1, <1>2, FaultKeeps DEF Fault, Exit
<1>3. CASE Exit(Precondition) /\ UNCHANGED <<disk, hunt, hist>>
  BY <1>1, <1>3, FaultKeeps DEF Exit
<1>4. CASE Exit(Runtime) /\ UNCHANGED <<disk, hunt, hist>>
  BY <1>1, <1>4, FaultKeeps DEF Exit, Runtime, Precondition
<1>5. CASE /\ Indices # {} /\ Exit(Clean) /\ refs' = backups[Latest]
           /\ edits' \in {"none", edits}
           /\ UNCHANGED <<head, fresh, backups, hunt, hist>>
  <2>1. pc' = "idle" /\ code' = Clean /\ cmd' = cmd
    BY <1>5 DEF Exit
  <2>2. refs' \in [Refs -> History]
    BY <1>5, LatestFacts DEF ScrubInv, TypeOK
  <2>3. Indices' = Indices
    BY <1>5 DEF Indices
  <2>4. TypeOK'
    BY <1>1, <1>5, <2>1, <2>2, <2>3 DEF ScrubInv, TypeOK, Labels, hunt, hist
  <2>5. Numbering' /\ Running' /\ Fenced' /\ Spared' /\ Hunted'
    BY <1>5, <2>1, <2>3 DEF ScrubInv, Numbering, Running, Fenced, Spared, Hunted, hist
  <2>6. Unmoved' /\ ZeroMeansScanned'
    BY <1>1, <2>1 DEF Unmoved, ZeroMeansScanned, Ends, At, Clean, Precondition
  <2>7. BackupHolds' /\ EditsSurvive'
    BY <1>5, <2>3 DEF ScrubInv, BackupHolds, EditsSurvive, hist
  <2> QED
    BY <2>4, <2>5, <2>6, <2>7 DEF ScrubInv
<1> QED
  BY <1>2, <1>3, <1>4, <1>5 DEF Rollback

LEMMA CleanupKeeps == ScrubInv /\ CleanupCmd => ScrubInv'
<1> SUFFICES ASSUME ScrubInv, CleanupCmd PROVE ScrubInv'
  OBVIOUS
<1>1. pc = "cleanup" /\ code = None /\ cmd.op = "cleanup" /\ refs = before
  BY DEF CleanupCmd, At, ScrubInv, Running, Unmoved, Labels
<1>2. CASE \E c \in {Runtime, Precondition} : Fault(c)
  BY <1>1, <1>2, FaultKeeps DEF Fault, Exit
<1>3. CASE cmd.dry /\ Exit(Clean) /\ UNCHANGED <<disk, hunt, hist>>
  <2>1. pc' = "idle" /\ code' = Clean /\ cmd' = cmd
    BY <1>3 DEF Exit
  <2>2. Clean # Precondition /\ HuntKept
    BY <1>1, <1>3 DEF Clean, Precondition, HuntKept
  <2> QED
    BY <1>1, <1>3, <2>1, <2>2, StepKeeps
    DEF ScrubInv, TypeOK, EditsSurvive, disk, hist
<1>4. CASE /\ Exit(Clean) /\ fresh' = TRUE
           /\ IF cmd.backup THEN UNCHANGED <<backups, replaced>>
              ELSE /\ replaced' = {}
                   /\ \E kept \in SUBSET Indices : backups' = [i \in kept |-> backups[i]]
           /\ UNCHANGED <<refs, head, edits, hunt, before, wiped, count>>
  <2>1. pc' = "idle" /\ code' = Clean /\ cmd' = cmd
    BY <1>4 DEF Exit
  <2>2. fresh' \in BOOLEAN
    BY <1>4, Zenon
  <2>3. Indices' \subseteq Indices /\ \A i \in Indices' : backups'[i] = backups[i]
    BY <1>4 DEF Indices
  <2>4. replaced' \subseteq replaced /\ BackupHolds'
    <3>1. CASE cmd.backup
      BY <1>4, <3>1 DEF ScrubInv, BackupHolds, Indices
    <3>2. CASE ~cmd.backup
      BY <1>4, <3>2 DEF BackupHolds
    <3> QED
      BY <3>1, <3>2
  <2> HIDE DEF Indices
  <2>5. TypeOK'
    BY <1>1, <1>4, <2>1, <2>2, <2>3, <2>4 DEF ScrubInv, TypeOK, Labels, hunt
  <2>6. Numbering' /\ Running' /\ Fenced' /\ Spared' /\ Hunted'
    BY <1>4, <2>1, <2>3 DEF ScrubInv, Numbering, Running, Fenced, Spared, Hunted
  <2>7. Unmoved' /\ ZeroMeansScanned' /\ EditsSurvive'
    BY <1>1, <1>4, <2>1
    DEF ScrubInv, Unmoved, ZeroMeansScanned, Ends, At, EditsSurvive, Clean, Precondition
  <2> QED
    BY <2>4, <2>5, <2>6, <2>7 DEF ScrubInv
<1> QED
  BY <1>2, <1>3, <1>4 DEF CleanupCmd

LEMMA EditKeeps == ScrubInv /\ Edit => ScrubInv'
<1> SUFFICES ASSUME ScrubInv, Edit PROVE ScrubInv'
  OBVIOUS
<1>1. /\ edits = "none" /\ edits' = IF pc = "idle" THEN "early" ELSE "late"
      /\ UNCHANGED <<refs, head, fresh, backups, cmd, pc, code, hunt, hist>>
  BY DEF Edit, At
<1>2. UNCHANGED <<before, replaced, wiped, count>> /\ Indices' = Indices
  BY <1>1 DEF hist, Indices
<1>3. TypeOK' /\ Numbering'
  BY <1>1, <1>2 DEF ScrubInv, TypeOK, Numbering, hunt
<1>4. Running' /\ Fenced' /\ Spared' /\ Hunted'
  BY <1>1, <1>2 DEF ScrubInv, Running, Fenced, Spared, Hunted, hunt, Present
<1>5. Unmoved' /\ ZeroMeansScanned'
  BY <1>1, <1>2 DEF ScrubInv, Unmoved, ZeroMeansScanned, Ends, At, Present, hunt
<1>6. BackupHolds' /\ EditsSurvive'
  BY <1>1, <1>2 DEF ScrubInv, BackupHolds, EditsSurvive
<1> QED
  BY <1>3, <1>4, <1>5, <1>6 DEF ScrubInv

LEMMA CommitKeeps == ScrubInv /\ Commit => ScrubInv'
<1> SUFFICES ASSUME ScrubInv, Commit PROVE ScrubInv'
  OBVIOUS
<1>1. /\ pc = "idle" /\ edits' = "none" /\ cmd' = None /\ code' = None
      /\ UNCHANGED <<head, backups, pc, hunt, before, replaced, wiped, count>>
  BY DEF Commit, At, hist
<1>2. PICK r \in Refs : /\ refs[r].work < MaxWork
                        /\ refs' = [refs EXCEPT ![r].work = @ + 1]
  BY DEF Commit
<1>3. refs' \in [Refs -> History]
  <2>1. refs \in [Refs -> History] /\ refs[r] \in History
    BY DEF ScrubInv, TypeOK
  <2>2. [refs[r] EXCEPT !.work = @ + 1] \in History
    BY <1>2, <2>1, ScrubAssumption DEF History
  <2>3. refs' = [refs EXCEPT ![r] = [refs[r] EXCEPT !.work = @ + 1]]
    BY <1>2, <2>1
  <2> QED
    BY <2>1, <2>2, <2>3
<1>4. fresh' \in BOOLEAN
  BY Zenon DEF Commit, ScrubInv, TypeOK
<1>5. Indices' = Indices
  BY <1>1 DEF Indices
<1>6. TypeOK' /\ Numbering'
  BY <1>1, <1>3, <1>4, <1>5 DEF ScrubInv, TypeOK, Numbering, hunt
<1>7. Running' /\ Fenced' /\ Spared' /\ Hunted'
  BY <1>1 DEF Running, Fenced, Spared, Hunted
<1>8. Unmoved' /\ ZeroMeansScanned'
  BY <1>1, NoCommand DEF Unmoved, ZeroMeansScanned, Ends, Labels
<1>9. BackupHolds' /\ EditsSurvive'
  BY <1>1, <1>5 DEF ScrubInv, BackupHolds, EditsSurvive
<1> QED
  BY <1>6, <1>7, <1>8, <1>9 DEF ScrubInv

-----------------------------------------------------------------------------
LEMMA ScrubNext == ScrubInv /\ [Next]_vars => ScrubInv'
<1> SUFFICES ASSUME ScrubInv, [Next]_vars PROVE ScrubInv'
  OBVIOUS
<1>1. CASE UNCHANGED vars
  BY <1>1 DEF ScrubInv, TypeOK, Numbering, Running, Fenced, Spared, Unmoved, Hunted,
     BackupHolds, EditsSurvive, ZeroMeansScanned, Ends, At, Present, Indices, vars, disk,
     hunt, hist
<1>2. CASE Begin \/ Collect \/ Check \/ MakeBackup \/ SkipBackup \/ Sanity
  BY <1>2, BeginKeeps, CollectKeeps, CheckKeeps, MakeBackupKeeps, SkipBackupKeeps,
     SanityKeeps
<1>3. CASE DryRun \/ Rewrite \/ RewriteFails \/ Reset \/ Gc \/ Verify
  BY <1>3, DryRunKeeps, RewriteKeeps, ResetKeeps, GcKeeps, VerifyKeeps
<1>4. CASE Rollback \/ CleanupCmd \/ Dies \/ Edit \/ Commit
  BY <1>4, RollbackKeeps, CleanupKeeps, DiesKeeps, EditKeeps, CommitKeeps
<1> QED
  BY <1>1, <1>2, <1>3, <1>4 DEF Next

LEMMA ScrubHolds == Spec => []ScrubInv
  BY ScrubInit, ScrubNext, PTL DEF Spec

\* Nothing a user had is lost: what a command that backs up replaced is in a bundle,
\* the edits an unforced one found are there, and a refused or dry one moved no ref.
THEOREM NothingLost == Spec => []NothingIsLost
<1>1. ScrubInv => NothingIsLost
  BY DEF ScrubInv, NothingIsLost, RefusalIsHarmless, Unmoved
<1> QED
  BY <1>1, ScrubHolds, PTL

\* Exit code 0 of `scrub secret`: what is left in a ref is in what the command passed over.
THEOREM ZeroScanned == Spec => []ZeroMeansScanned
<1>1. ScrubInv => ZeroMeansScanned
  BY DEF ScrubInv
<1> QED
  BY <1>1, ScrubHolds, PTL

-----------------------------------------------------------------------------
(* The invariant of a read.                                                  *)

\* gc never takes the last copy of an object.
SomeCopy ==
    \A o \in Oids : Stored(o) => o \in loose \/ \E p \in idxs : o \in DOMAIN Entry[p]

StoreKept ==
    /\ loose \subseteq LooseAtStart /\ idxs \subseteq datas /\ datas \subseteq Packs
    /\ SomeCopy

ReadTyped ==
    /\ read \in [at : {"idle", "loose", "list", "lookup", "open", "done"},
                 oid : Oids, cur : Oids, todo : SUBSET Packs, pack : Packs \cup {NoPack},
                 depth : 0 .. MaxDeltaDepth + 1, found : BOOLEAN]
    /\ disturbed \in BOOLEAN
    /\ read.at = "open" => read.pack \in Packs /\ read.cur \in DOMAIN Entry[read.pack]

\* From here the object is whole within the hops that are left, whichever pack
\* gives each of them.
WithinReach(p) == read.cur \in WholeWithin[MaxDeltaDepth - read.depth][p]

OnTheWay ==
    /\ read.at = "loose" => read.cur = read.oid /\ read.depth = 0
    /\ read.at \in {"list", "lookup"} =>
         /\ read.depth <= MaxDeltaDepth /\ \A q \in Packs : WithinReach(q)
         /\ \E p \in idxs : /\ read.cur \in DOMAIN Entry[p]
                            /\ read.at = "lookup" => p \in read.todo
    /\ read.at = "open" =>
         /\ read.depth <= MaxDeltaDepth /\ read.pack \in idxs /\ WithinReach(read.pack)
    /\ read.at = "done" => read.found

ReadKept == ~disturbed /\ read.oid \in Readable => OnTheWay

-----------------------------------------------------------------------------
(* The invariant of a walk.                                                  *)

Stages == {"tips", "stopref", "stop", "commits", "trees", "tagrefs", "tags", "done"}

\* Entries of a tree.
RawItem == [mode : {"file", "exec", "dir", "symlink", "gitlink"}, oid : Oids]
ItemType == {i \in RawItem : /\ EntryKind(i.mode) = "blob" => i.oid \in Blobs
                             /\ EntryKind(i.mode) = "tree" => i.oid \in Trees}

WalkTyped ==
    walk \in [stage : Stages, unread : SUBSET RefNames, got : SUBSET Oids, tips : SUBSET Oids,
              queue : Seq(Oids), outside : SUBSET Oids, seen : SUBSET Oids,
              commits : Seq(Commits), frames : Seq(Seq(ItemType)), pending : Seq(Trees),
              here : Seq(Commits), from : Nat, blobs : Seq([oid : Blobs, commit : Commits]),
              seenTrees : SUBSET Trees, tags : SUBSET Oids, truncated : BOOLEAN,
              missed : SUBSET Oids]

Busy == read.at # "idle"
Signing == job.mode = "signed"

\* What a stage may have in hand, and for whom an object is being read.
InOrder ==
    /\ walk.pending # <<>> => walk.pending = <<walk.pending[1]>>
    /\ walk.here # <<>> => walk.here = <<walk.here[1]>> /\ walk.here[1] \in walk.seen
    /\ walk.pending # <<>> \/ walk.frames # <<>> => walk.here # <<>>
    /\ walk.here # <<>> => walk.stage = IF Push THEN "commits" ELSE "trees"
    /\ walk.stage \in {"trees", "tagrefs", "tags"} => ~Push
    /\ walk.stage = "trees" => ~Signing
    /\ walk.stage \in {"tagrefs", "tags"} => Signing
    /\ Busy => \/ walk.stage = "stop" /\ read.oid \in walk.outside
               \/ walk.stage = "commits" /\ walk.here = <<>> /\ read.oid \in walk.seen
               \/ walk.pending = <<read.oid>> /\ read.oid \in walk.seenTrees
               \/ walk.stage = "tags"
    /\ Range(walk.commits) \subseteq walk.seen
    /\ (Push => walk.from = 0) /\ (Signing => ~walk.truncated)
    /\ Signing \/ (~Push /\ walk.stage \notin {"trees", "done"}) =>
          walk.blobs = <<>> /\ walk.seenTrees = {}
    /\ walk.stage \in {"tips", "stopref", "stop"} =>
          /\ walk.seen = {} /\ walk.commits = <<>> /\ walk.blobs = <<>> /\ walk.from = 0
          /\ walk.seenTrees = {} /\ ~walk.truncated
    /\ walk.stage \in {"tips", "stopref"} => walk.outside = {}
    /\ walk.stage = "done" /\ ~Push /\ ~Signing => walk.commits = <<>>

\* Caps.
InCaps ==
    /\ Len(walk.frames) <= job.max.depth + 1
    /\ Busy /\ walk.pending # <<>> => Len(walk.frames) <= job.max.depth
    /\ walk.from <= Len(walk.blobs) /\ Len(walk.blobs) - walk.from <= job.max.blobs
    /\ \A i, j \in DOMAIN walk.blobs : walk.blobs[i].oid = walk.blobs[j].oid => i = j
    /\ IsFiniteSet(walk.outside) /\ Cardinality(walk.outside) <= job.max.stops

\* Refs: each has a value it has had, in its file or in packed-refs.
RefsStand ==
    /\ DOMAIN looseRef \subseteq RefNames /\ DOMAIN packedRef \subseteq RefNames
    /\ \A r \in DOMAIN looseRef : looseRef[r] \in Values(r)
    /\ \A r \in DOMAIN packedRef : packedRef[r] \in Values(r)
    /\ \A r \in RefNames : Values(r) = {} \/ r \in DOMAIN looseRef \cup DOMAIN packedRef

Asked == CASE walk.stage = "tips" -> AsksFor(job)
           [] walk.stage = "stopref" -> {job.stop} \ {NoRef}
           [] walk.stage = "tagrefs" -> Tags
           [] OTHER -> {}

RefsGiven ==
    /\ walk.unread \subseteq Asked
    /\ walk.got \subseteq UNION {Values(r) : r \in Asked}
    /\ \A r \in Asked \ walk.unread :
         Values(r) = {} \/ Values(r) \cap walk.got # {} \/ r \in DOMAIN packedRef
    /\ EveryRefIsATip
    /\ walk.stage = "tips" => walk.tips = {}

\* What the other side has is behind the ref it was taken from.
OutsideIsBehind ==
    /\ walk.outside \cap Commits \subseteq Stops
    /\ walk.stage = "stop" => Range(walk.queue) \cap Commits \subseteq Stops

\* The walk has been cut short, or may have been.
Cut ==
    \/ walk.truncated
    \/ Push /\ Len(walk.blobs) >= job.max.blobs
    \/ Signing /\ Cardinality(walk.seen) >= job.max.commits

InQueue == IF walk.stage = "commits" THEN Range(walk.queue) ELSE {}
Walked == {c \in (walk.seen \ walk.missed) \cap Commits :
             ~(Busy /\ walk.stage = "commits" /\ walk.here = <<>> /\ read.oid = c)}
Known == walk.outside \cup walk.seen \cup InQueue

\* Every tip, and every parent of a commit walked, is known.
NoneForgotten ==
    walk.stage \notin {"tips", "stopref", "stop"} /\ ~Cut =>
      /\ walk.tips \cap Commits \subseteq Known
      /\ \A c \in Walked : Range(Parents[c]) \subseteq Known \/ (Push /\ walk.here = <<c>>)

\* The commits walked are listed, and each tree of theirs is entered or waits.
Listed ==
    /\ ~Push /\ walk.stage # "trees" /\ (walk.stage = "done" => Signing) => Walked \subseteq Range(walk.commits)
    /\ ~Cut /\ ~Signing => \A c \in Walked :
         \/ RootTree[c] \in walk.seenTrees
         \/ walk.pending = <<RootTree[c]>>
         \/ ~Push /\ c \in Range(walk.commits)

InFrames == UNION {Range(walk.frames[k]) : k \in DOMAIN walk.frames}
Settled(i) ==
    /\ EntryKind(i.mode) = "blob" => i.oid \in Found
    /\ EntryKind(i.mode) = "tree" => i.oid \in walk.seenTrees \/ walk.pending = <<i.oid>>

\* Every entry of a tree that was entered is dealt with, or is still to come.
TreesKept ==
    ~walk.truncated => \A t \in walk.seenTrees \ walk.missed :
        \/ Busy /\ walk.pending = <<t>>
        \/ \A i \in Range(Items[t]) : i \in InFrames \/ Settled(i)

\* Attribution.
Tidy == ~Push /\ ~walk.truncated /\ walk.missed = {}
FromHere ==
    Tidy /\ walk.here # <<>> =>
      LET c == walk.here[1]
      IN /\ \A t \in Range(walk.pending) : t \in Below({RootTree[c]}, {})
         /\ \A i \in InFrames : /\ EntryKind(i.mode) = "tree" => i.oid \in Below({RootTree[c]}, {})
                                /\ EntryKind(i.mode) = "blob" => i.oid \in Holds[c]
Sorted ==
    walk.stage = "trees" =>
      /\ \A i, j \in DOMAIN walk.commits : i < j => Older(walk.commits[i], walk.commits[j])
      /\ walk.here # <<>> => \A d \in Range(walk.commits) : Older(walk.here[1], d)
Emptied ==
    Tidy /\ walk.stage = "trees" =>
      \A d \in (walk.seen \cap Commits) \ (Range(walk.commits) \cup Range(walk.here)) :
        Holds[d] \subseteq Found

\* Signed tags.
TagsKept ==
    Signing /\ walk.stage \in {"tags", "done"} /\ ~Cut =>
      \A r \in Tags : \/ Values(r) = {}
                      \/ Values(r) \cap (walk.tags \cup walk.missed \cup (Oids \ SignedTags)) # {}
                      \/ walk.stage = "tags"
                           /\ Values(r) \cap (Range(walk.queue) \cup IF Busy THEN {read.oid} ELSE {}) # {}

WalkKept ==
    /\ WalkTyped /\ job \in Jobs /\ InOrder /\ InCaps
    /\ OutsideIsBehind /\ NoneForgotten /\ Listed /\ TreesKept
    /\ FromHere /\ Sorted /\ Emptied /\ IntroIsOldest /\ TagsKept

StoreInv == StoreKept /\ ReadTyped /\ ReadKept
WalkInv == StoreInv /\ RefsStand /\ RefsGiven /\ WalkKept

-----------------------------------------------------------------------------
\* Induction on numbers, for a set.
LEMMA Induct ==
    ASSUME NEW S, 0 \in S, \A n \in Nat : n \in S => n + 1 \in S
    PROVE  Nat \subseteq S
<1> SUFFICES ASSUME NEW n \in Nat, n \notin S PROVE FALSE
  OBVIOUS
<1> DEFINE T == {x \in 0..n : 0..x \subseteq S}
<1>1. T \subseteq 0..n /\ 0 \in T /\ n \in Int
  OBVIOUS
<1> HIDE DEF T
<1>2. PICK m \in T : \A y \in T : m >= y
  BY <1>1, MaxFacts
<1> USE DEF T
<1>3. m \in Nat /\ m \in 0..m /\ m \in S /\ m # n /\ m < n
  BY <1>2
<1>4. m + 1 \in S /\ 0..(m + 1) = 0..m \cup {m + 1}
  BY <1>3
<1>5. m + 1 \in T
  BY <1>2, <1>3, <1>4
<1> QED
  BY <1>2, <1>3, <1>5

-----------------------------------------------------------------------------
(* Delta chains.                                                             *)

\* How WholeWithin comes from one hop less.
WholeBody(f, n) ==
    [p \in Packs |-> {o \in Oids :
       o \in DOMAIN Entry[p] =>
         /\ o \notin Big
         /\ Entry[p][o].how # "whole" =>
              n > 0 /\ \A q \in IF Entry[p][o].how = "ofs" THEN {p} ELSE Packs :
                         Entry[p][o].base \in f[n - 1][q]}]

IsWholeWithin(f) == f = [n \in 0..MaxDeltaDepth |-> WholeBody(f, n)]

LEMMA StoreFacts ==
    /\ MaxDeltaDepth \in Nat /\ NewPack \in Packs /\ NoPack \notin Packs
    /\ LooseAtStart \subseteq Oids
    /\ \A p \in Packs : \A o \in DOMAIN Entry[p] : o \in Oids
    /\ \A p \in Packs : \A o \in DOMAIN Entry[p] :
         Entry[p][o].how # "whole" =>
            /\ Entry[p][o].how \in {"ofs", "ref"}
            /\ Entry[p][o].base \in DOMAIN Entry[p] /\ Entry[p][o].base \in Oids
    /\ \A o \in Oids : Stored(o) => o \in DOMAIN Entry[NewPack]
  BY ObjectsAssumption

LEMMA WholeExists == \E f : IsWholeWithin(f)
<1> DEFINE Upto(k, f) == f = [n \in 0..k |-> WholeBody(f, n)]
           S == {k \in Nat : \E f : Upto(k, f)}
<1>1. 0 \in S
  <2> DEFINE f == [n \in 0..0 |-> WholeBody(<<>>, 0)]
  <2>1. \A n \in 0..0 : WholeBody(f, n) = WholeBody(<<>>, 0)
    BY DEF WholeBody
  <2>2. Upto(0, f)
    BY <2>1
  <2> HIDE DEF Upto
  <2> QED
    BY <2>2
<1>2. ASSUME NEW k \in Nat, k \in S PROVE k + 1 \in S
  <2>1. PICK f : Upto(k, f)
    BY <1>2
  <2> DEFINE g == [n \in 0..(k + 1) |-> WholeBody(f, n)]
  <2>2. \A n \in 0..k : g[n] = f[n]
    BY <2>1
  <2>3. ASSUME NEW n \in 0..(k + 1) PROVE WholeBody(g, n) = WholeBody(f, n)
    <3>1. n > 0 => n - 1 \in 0..k
      OBVIOUS
    <3>2. n > 0 => g[n - 1] = f[n - 1]
      BY <2>2, <3>1
    <3> HIDE DEF g
    <3> QED
      BY <3>2 DEF WholeBody
  <2>4. Upto(k + 1, g)
    BY <2>3
  <2> HIDE DEF Upto, g
  <2> QED
    BY <2>4
<1>3. Nat \subseteq S
  <2> HIDE DEF S
  <2> QED
    BY <1>1, <1>2, Induct
<1> QED
  BY <1>3, StoreFacts DEF IsWholeWithin

LEMMA WholeIs ==
    \A n \in 0..MaxDeltaDepth : WholeWithin[n] = WholeBody(WholeWithin, n)
<1>1. WholeWithin = CHOOSE f : IsWholeWithin(f)
  BY DEF WholeWithin, IsWholeWithin, WholeBody
<1>2. IsWholeWithin(WholeWithin)
  BY <1>1, WholeExists
<1> QED
  BY <1>2 DEF IsWholeWithin

\* What being whole within some hops says of an entry.
LEMMA WholeFacts ==
    ASSUME NEW n \in 0..MaxDeltaDepth, NEW p \in Packs, NEW o \in DOMAIN Entry[p],
           o \in WholeWithin[n][p]
    PROVE  /\ o \notin Big
           /\ Entry[p][o].how # "whole" =>
                n > 0 /\ \A q \in IF Entry[p][o].how = "ofs" THEN {p} ELSE Packs :
                           Entry[p][o].base \in WholeWithin[n - 1][q]
<1>1. o \in WholeBody(WholeWithin, n)[p]
  BY WholeIs
<1> QED
  BY <1>1 DEF WholeBody
-----------------------------------------------------------------------------
(* Reading and gc.                                                           *)

LEMMA IdleFacts ==
    ASSUME NEW o \in Oids
    PROVE  /\ Idle(o) \in [at : {"idle", "loose", "list", "lookup", "open", "done"},
                            oid : Oids, cur : Oids, todo : SUBSET Packs,
                            pack : Packs \cup {NoPack}, depth : 0 .. MaxDeltaDepth + 1,
                            found : BOOLEAN]
           /\ Idle(o).at = "idle" /\ Idle(o).oid = o /\ Idle(o).cur = o /\ Idle(o).depth = 0
  BY StoreFacts DEF Idle

LEMMA ObjectsBegin == ObjectsInit => StoreInv
<1> SUFFICES ASSUME ObjectsInit PROVE StoreInv
  OBVIOUS
<1>1. PICK o \in Oids : read = Idle(o)
  BY ObjectsAssumption DEF ObjectsInit
<1>2. StoreKept
  BY StoreFacts DEF ObjectsInit, StoreKept, SomeCopy, Stored
<1>3. ReadTyped
  BY <1>1, IdleFacts DEF ObjectsInit, ReadTyped
<1>4. ReadKept
  BY <1>1, IdleFacts DEF ReadKept, OnTheWay
<1> QED
  BY <1>2, <1>3, <1>4 DEF StoreInv

\* A read begins, ends or is left alone; the store is left alone.
LEMMA StartKeeps ==
    ASSUME StoreInv, NEW o \in Oids, StartRead(o), UNCHANGED store
    PROVE  StoreInv' /\ Busy' /\ read'.oid = o
<1>1. read' = [Idle(o) EXCEPT !.at = "loose"]
  BY DEF StartRead
<1>2. /\ read'.at = "loose" /\ read'.oid = o /\ read'.cur = o /\ read'.depth = 0
      /\ read' \in [at : {"idle", "loose", "list", "lookup", "open", "done"},
                    oid : Oids, cur : Oids, todo : SUBSET Packs, pack : Packs \cup {NoPack},
                    depth : 0 .. MaxDeltaDepth + 1, found : BOOLEAN]
  BY <1>1, IdleFacts
<1>3. ReadTyped' /\ ReadKept'
  BY <1>2 DEF ReadTyped, ReadKept, OnTheWay, StartRead
<1>4. StoreKept'
  BY DEF StoreInv, StoreKept, SomeCopy, store
<1> QED
  BY <1>2, <1>3, <1>4 DEF StoreInv, Busy

LEMMA HandledKeeps ==
    ASSUME StoreInv, Handled, UNCHANGED store
    PROVE  StoreInv' /\ ~Busy' /\ read'.oid = read.oid
<1>1. read.oid \in Oids /\ read' = Idle(read.oid) /\ disturbed' = disturbed
  BY DEF StoreInv, ReadTyped, Handled
<1>2. ReadTyped' /\ ReadKept'
  BY <1>1, IdleFacts DEF StoreInv, ReadTyped, ReadKept, OnTheWay
<1>3. StoreKept'
  BY DEF StoreInv, StoreKept, SomeCopy, store
<1> QED
  BY <1>1, <1>2, <1>3, IdleFacts DEF StoreInv, Busy

LEMMA NoReadKeeps ==
    ASSUME StoreInv, NoRead, UNCHANGED store
    PROVE  StoreInv' /\ Busy' = Busy /\ read' = read
<1>1. read' = read /\ disturbed' = disturbed /\ loose' = loose /\ idxs' = idxs /\ datas' = datas
  BY DEF NoRead, store
<1>2. StoreInv'
  BY <1>1 DEF StoreInv, StoreKept, SomeCopy, ReadTyped, ReadKept, OnTheWay, WithinReach
<1>3. Busy' = Busy
  BY <1>1 DEF Busy
<1> QED
  BY <1>1, <1>2, <1>3

\* A step of the reader.
LEMMA ReadingKeeps ==
    ASSUME StoreInv, Reading
    PROVE  StoreInv' /\ Busy /\ Busy' /\ read'.oid = read.oid
<1> DEFINE T == [at : {"idle", "loose", "list", "lookup", "open", "done"},
                 oid : Oids, cur : Oids, todo : SUBSET Packs, pack : Packs \cup {NoPack},
                 depth : 0 .. MaxDeltaDepth + 1, found : BOOLEAN]
           Way == ~disturbed /\ read.oid \in Readable
<1>1. /\ read \in T /\ disturbed \in BOOLEAN
      /\ read.at = "open" => read.pack \in Packs /\ read.cur \in DOMAIN Entry[read.pack]
      /\ Way => OnTheWay
      /\ loose \subseteq LooseAtStart /\ idxs \subseteq datas /\ datas \subseteq Packs
  BY DEF StoreInv, StoreKept, ReadTyped, ReadKept
<1>2. /\ UNCHANGED <<loose, idxs, datas, disturbed>> /\ StoreKept'
  <2>1. UNCHANGED <<loose, idxs, datas, disturbed>>
    BY DEF Reading, ReadLoose, ListPacks, InNoPack, OpenEntry, TryIdx, Quiet
  <2> QED
    BY <2>1 DEF StoreInv, StoreKept, SomeCopy
<1>3. Way => /\ read.oid \in Oids /\ Stored(read.oid) /\ read.oid \notin Corrupt \cup Big
             /\ \A p \in Packs : read.oid \in WholeWithin[MaxDeltaDepth][p]
  BY DEF Readable
<1> SUFFICES /\ read' \in T /\ read.at # "idle" /\ read'.at # "idle" /\ read'.oid = read.oid
             /\ read'.at = "open" => read'.pack \in Packs /\ read'.cur \in DOMAIN Entry[read'.pack]
             /\ Way => OnTheWay'
  BY <1>2 DEF StoreInv, ReadTyped, ReadKept, Busy
<1> DEFINE Good == /\ read' \in T /\ read.at # "idle" /\ read'.at # "idle" /\ read'.oid = read.oid
                   /\ read'.at = "open" => /\ read'.pack \in Packs
                                           /\ read'.cur \in DOMAIN Entry[read'.pack]
                   /\ Way => OnTheWay'
<1> SUFFICES Good
  OBVIOUS
<1>4. CASE ReadLoose
  <2>1. CASE read' = ReadEnds(FALSE) /\ read.oid \in loose \cap Corrupt
    BY <1>1, <1>3, <1>4, <2>1 DEF ReadEnds, ReadLoose
  <2>2. CASE read' = ReadEnds(TRUE)
    BY <1>1, <1>4, <2>2 DEF ReadEnds, ReadLoose, OnTheWay
  <2>3. CASE read' = [read EXCEPT !.at = "list"] /\ read.oid \notin loose \ (Big \cup Corrupt)
    <3>1. /\ read'.at = "list" /\ read'.oid = read.oid /\ read'.cur = read.cur
          /\ read'.depth = read.depth /\ read' \in T /\ read.at = "loose"
      BY <1>1, <1>4, <2>3 DEF ReadLoose
    <3>2. ASSUME Way PROVE OnTheWay'
      <4>1. read.cur = read.oid /\ read.depth = 0 /\ MaxDeltaDepth - 0 = MaxDeltaDepth
            /\ 0 <= MaxDeltaDepth
        BY <1>1, <3>1, <3>2, StoreFacts DEF OnTheWay
      <4>2. PICK p \in idxs : read.oid \in DOMAIN Entry[p]
        BY <1>3, <2>3, <3>2 DEF StoreInv, StoreKept, SomeCopy
      <4> QED
        BY <1>2, <1>3, <3>1, <3>2, <4>1, <4>2 DEF OnTheWay, WithinReach
    <3> QED
      BY <3>1, <3>2
  <2> QED
    BY <1>4, <2>1, <2>2, <2>3 DEF ReadLoose
<1>5. CASE ListPacks
  <2>0. read.at = "list"
    BY <1>5 DEF ListPacks
  <2>1. CASE read.depth > MaxDeltaDepth
    <3>1. read' = ReadEnds(FALSE) /\ ~Way
      BY <1>1, <1>5, <2>0, <2>1, StoreFacts DEF ListPacks, OnTheWay
    <3> QED
      BY <1>1, <2>0, <3>1 DEF ReadEnds
  <2>2. CASE ~(read.depth > MaxDeltaDepth)
    <3>1. read' = [read EXCEPT !.at = "lookup", !.todo = idxs]
      BY <1>5, <2>2 DEF ListPacks
    <3>2. /\ read'.at = "lookup" /\ read'.oid = read.oid /\ read'.cur = read.cur
          /\ read'.depth = read.depth /\ read' \in T /\ read'.todo = idxs
      BY <1>1, <3>1
    <3>3. Way => OnTheWay'
      BY <1>1, <1>2, <2>0, <3>2 DEF OnTheWay, WithinReach
    <3> QED
      BY <2>0, <3>2, <3>3
  <2> QED
    BY <2>1, <2>2
<1>6. CASE InNoPack
  <2>1. read' = ReadEnds(FALSE) /\ read.at = "lookup" /\ ~Way
    BY <1>1, <1>6 DEF InNoPack, OnTheWay
  <2> QED
    BY <1>1, <2>1 DEF ReadEnds
<1>7. ASSUME NEW p \in Packs, TryIdx(p) PROVE Good
  <2>0. read.at = "lookup" /\ p \in read.todo
    BY <1>7 DEF TryIdx
  <2>1. CASE p \in idxs /\ read.cur \in DOMAIN Entry[p]
    <3>1. read' = [read EXCEPT !.at = "open", !.pack = p, !.todo = {}]
      BY <1>7, <2>1 DEF TryIdx
    <3>2. /\ read'.at = "open" /\ read'.oid = read.oid /\ read'.cur = read.cur
          /\ read'.depth = read.depth /\ read' \in T /\ read'.pack = p
      BY <1>1, <3>1
    <3>3. Way => OnTheWay'
      BY <1>1, <1>2, <2>0, <2>1, <3>2 DEF OnTheWay, WithinReach
    <3> QED
      BY <2>0, <2>1, <3>2, <3>3
  <2>2. CASE ~(p \in idxs /\ read.cur \in DOMAIN Entry[p])
    <3>1. read' = [read EXCEPT !.todo = @ \ {p}]
      BY <1>7, <2>2 DEF TryIdx
    <3>2. /\ read'.at = "lookup" /\ read'.oid = read.oid /\ read'.cur = read.cur
          /\ read'.depth = read.depth /\ read' \in T /\ read'.todo = read.todo \ {p}
      BY <1>1, <2>0, <3>1
    <3>3. Way => OnTheWay'
      BY <1>1, <1>2, <2>0, <2>2, <3>2 DEF OnTheWay, WithinReach
    <3> QED
      BY <2>0, <3>2, <3>3
  <2> QED
    BY <2>1, <2>2
<1>8. CASE OpenEntry
  <2> DEFINE e == Entry[read.pack][read.cur]
             hop == [read EXCEPT !.cur = e.base, !.depth = @ + 1]
             Stop == read.depth > MaxDeltaDepth \/ read.pack \notin datas \/ read.cur \in Big
  <2>0. read.at = "open" /\ read.pack \in Packs /\ read.cur \in DOMAIN Entry[read.pack]
        /\ read.depth \in Nat /\ MaxDeltaDepth \in Nat
    BY <1>1, <1>8, StoreFacts DEF OpenEntry
  <2>1. Way => /\ read.depth <= MaxDeltaDepth /\ read.pack \in idxs /\ read.pack \in datas
               /\ read.cur \in WholeWithin[MaxDeltaDepth - read.depth][read.pack]
    BY <1>1, <2>0 DEF OnTheWay, WithinReach
  <2>2. ASSUME Way
        PROVE  /\ read.cur \notin Big
               /\ e.how # "whole" =>
                    /\ MaxDeltaDepth - read.depth > 0
                    /\ \A q \in IF e.how = "ofs" THEN {read.pack} ELSE Packs :
                         e.base \in WholeWithin[MaxDeltaDepth - read.depth - 1][q]
    <3>1. MaxDeltaDepth - read.depth \in 0..MaxDeltaDepth
      BY <2>0, <2>1, <2>2
    <3> QED
      BY <2>0, <2>1, <2>2, <3>1, WholeFacts
  <2>3. CASE Stop
    <3>1. ~Way
      <4> HIDE DEF e, hop
      <4> QED
        BY <2>0, <2>1, <2>2, <2>3
    <3>2. read' = ReadEnds(FALSE)
      BY <1>8, <2>3 DEF OpenEntry
    <3> QED
      BY <1>1, <2>0, <3>1, <3>2 DEF ReadEnds
  <2>4. CASE ~Stop /\ e.how = "whole"
    <3>1. read' = ReadEnds(TRUE)
      BY <1>8, <2>4 DEF OpenEntry
    <3> QED
      BY <1>1, <2>0, <3>1 DEF ReadEnds, OnTheWay
  <2>5. CASE ~Stop /\ e.how # "whole"
    <3>1. e.base \in Oids /\ e.base \in DOMAIN Entry[read.pack] /\ e.how \in {"ofs", "ref"}
      BY <2>0, <2>5, StoreFacts
    <3>2. read.depth + 1 \in 0..(MaxDeltaDepth + 1) /\ (Way => read.depth + 1 <= MaxDeltaDepth)
          /\ MaxDeltaDepth - (read.depth + 1) = MaxDeltaDepth - read.depth - 1
      BY <2>0, <2>1, <2>2, <2>5
    <3>3. /\ hop \in T /\ hop.at = "open" /\ hop.oid = read.oid /\ hop.cur = e.base
          /\ hop.depth = read.depth + 1 /\ hop.pack = read.pack
      BY <1>1, <2>0, <3>1, <3>2
    <3>4. CASE e.how = "ofs"
      <4>1. read' = hop
        BY <1>8, <2>5, <3>4 DEF OpenEntry
      <4>2. ASSUME Way PROVE OnTheWay'
        <5>1. /\ read'.at = "open" /\ read'.cur = e.base /\ read'.depth = read.depth + 1
              /\ read'.pack = read.pack
          BY <3>3, <4>1
        <5>2. e.base \in WholeWithin[MaxDeltaDepth - (read.depth + 1)][read.pack]
          BY <2>2, <2>5, <3>2, <3>4, <4>2
        <5> HIDE DEF e
        <5> QED
          BY <1>2, <2>1, <3>2, <4>2, <5>1, <5>2 DEF OnTheWay, WithinReach
      <4> QED
        BY <2>0, <3>1, <3>3, <4>1, <4>2
    <3>5. CASE e.how = "ref"
      <4>1. read' = [hop EXCEPT !.at = "list"]
        BY <1>8, <2>5, <3>5 DEF OpenEntry
      <4>2. /\ read' \in T /\ read'.at = "list" /\ read'.oid = read.oid /\ read'.cur = e.base
            /\ read'.depth = read.depth + 1
        <5> HIDE DEF hop
        <5> QED
          BY <3>3, <4>1
      <4>3. ASSUME Way PROVE OnTheWay'
        <5>1. \A q \in Packs : e.base \in WholeWithin[MaxDeltaDepth - (read.depth + 1)][q]
          BY <2>2, <2>5, <3>2, <3>5, <4>3
        <5>2. read.pack \in idxs /\ e.base \in DOMAIN Entry[read.pack]
          BY <2>1, <3>1, <4>3
        <5> HIDE DEF e
        <5> QED
          BY <1>2, <3>2, <4>2, <4>3, <5>1, <5>2 DEF OnTheWay, WithinReach
      <4> QED
        BY <2>0, <4>2, <4>3
    <3> QED
      BY <3>1, <3>4, <3>5
  <2> QED
    BY <2>3, <2>4, <2>5
<1> QED
  BY <1>4, <1>5, <1>6, <1>7, <1>8 DEF Reading

\* A step of gc.
LEMMA GcStepKeeps ==
    ASSUME StoreInv, GcStep
    PROVE  StoreInv' /\ read' = read /\ Busy' = Busy
<1>1. read' = read
  BY DEF GcStep, GcWritesPack, GcWritesIdx, GcPrunes, GcRemovesIdx, GcRemovesPack
<1>2. disturbed' \in BOOLEAN /\ (~disturbed' => ~disturbed /\ idxs \subseteq idxs')
  BY DEF GcStep, GcWritesPack, GcWritesIdx, GcPrunes, GcRemovesIdx, GcRemovesPack,
         StoreInv, ReadTyped
<1>3. ReadTyped' /\ ReadKept'
  BY <1>1, <1>2 DEF StoreInv, ReadTyped, ReadKept, OnTheWay, WithinReach
<1>4. StoreKept'
  <2> USE StoreFacts DEF StoreInv, StoreKept, SomeCopy
  <2>1. CASE GcWritesPack
    BY <2>1 DEF GcWritesPack
  <2>2. CASE GcWritesIdx
    BY <2>2 DEF GcWritesIdx
  <2>3. ASSUME NEW o \in Oids, GcPrunes(o) PROVE StoreKept'
    BY <2>3 DEF GcPrunes
  <2>4. ASSUME NEW p \in Packs, GcRemovesIdx(p) PROVE StoreKept'
    BY <2>4 DEF GcRemovesIdx
  <2>5. ASSUME NEW p \in Packs, GcRemovesPack(p) PROVE StoreKept'
    BY <2>5 DEF GcRemovesPack
  <2> QED
    BY <2>1, <2>2, <2>3, <2>4, <2>5 DEF GcStep
<1> QED
  BY <1>1, <1>3, <1>4 DEF StoreInv, Busy

LEMMA ReadKeptExplains == ASSUME StoreInv PROVE MissesAreExplained /\ ObjectsTypeOK
  BY DEF StoreInv, StoreKept, ReadTyped, ReadKept, OnTheWay, MissesAreExplained, ObjectsTypeOK
-----------------------------------------------------------------------------
(* Sequences and sets.                                                       *)

LEMMA TailFacts ==
    ASSUME NEW S, NEW s \in Seq(S), s # <<>>
    PROVE  Head(s) \in S /\ Tail(s) \in Seq(S) /\ Range(s) = {Head(s)} \cup Range(Tail(s))
<1>1. Len(s) \in Nat /\ Len(s) > 0 /\ Head(s) = s[1] /\ Head(s) \in S
  OBVIOUS
<1>2. Tail(s) \in Seq(S) /\ Len(Tail(s)) = Len(s) - 1 /\ DOMAIN Tail(s) = 1..(Len(s) - 1)
      /\ \A i \in 1..(Len(s) - 1) : Tail(s)[i] = s[i + 1]
  OBVIOUS
<1>3. DOMAIN s = 1..Len(s)
  OBVIOUS
<1>4. Range(s) \subseteq {Head(s)} \cup Range(Tail(s))
  <2> SUFFICES ASSUME NEW i \in 1..Len(s) PROVE s[i] = s[1] \/ s[i] \in Range(Tail(s))
    BY <1>1, <1>3 DEF Range
  <2>1. CASE i = 1
    BY <2>1
  <2>2. CASE i # 1
    <3>1. i - 1 \in 1..(Len(s) - 1) /\ (i - 1) + 1 = i
      BY <1>1, <2>2
    <3> QED
      BY <1>2, <3>1 DEF Range
  <2> QED
    BY <2>1, <2>2
<1>5. Range(Tail(s)) \subseteq Range(s)
  <2> SUFFICES ASSUME NEW i \in 1..(Len(s) - 1) PROVE Tail(s)[i] \in Range(s)
    BY <1>2 DEF Range
  <2>1. i + 1 \in 1..Len(s)
    BY <1>1
  <2> QED
    BY <1>2, <1>3, <2>1 DEF Range
<1>6. Head(s) \in Range(s)
  BY <1>1, <1>3 DEF Range
<1> QED
  BY <1>1, <1>2, <1>4, <1>5, <1>6

LEMMA AddedFacts ==
    ASSUME NEW S, NEW s \in Seq(S), NEW x \in S
    PROVE  /\ Append(s, x) \in Seq(S) /\ Range(Append(s, x)) = Range(s) \cup {x}
           /\ Len(Append(s, x)) = Len(s) + 1
           /\ Append(s, x)[Len(s) + 1] = x /\ \A i \in 1..Len(s) : Append(s, x)[i] = s[i]
<1>1. Append(s, x) \in Seq(S) /\ Len(Append(s, x)) = Len(s) + 1 /\ Len(s) \in Nat
  OBVIOUS
<1>2. DOMAIN Append(s, x) = 1..(Len(s) + 1) /\ DOMAIN s = 1..Len(s)
  OBVIOUS
<1>3. Append(s, x)[Len(s) + 1] = x /\ \A i \in 1..Len(s) : Append(s, x)[i] = s[i]
  OBVIOUS
<1>4. 1..(Len(s) + 1) = 1..Len(s) \cup {Len(s) + 1}
  BY <1>1
<1>5. Range(Append(s, x)) = Range(s) \cup {x}
  BY ONLY <1>2, <1>3, <1>4 DEF Range
<1> QED
  BY <1>1, <1>3, <1>5

LEMMA JoinedFacts ==
    ASSUME NEW S, NEW s \in Seq(S), NEW t \in Seq(S)
    PROVE  s \o t \in Seq(S) /\ Range(s \o t) = Range(s) \cup Range(t)
<1>1. /\ s \o t \in Seq(S) /\ Len(s \o t) = Len(s) + Len(t)
      /\ DOMAIN (s \o t) = 1..(Len(s) + Len(t)) /\ DOMAIN s = 1..Len(s) /\ DOMAIN t = 1..Len(t)
      /\ Len(s) \in Nat /\ Len(t) \in Nat
  OBVIOUS
<1>2. \A i \in 1..(Len(s) + Len(t)) : (s \o t)[i] = IF i <= Len(s) THEN s[i] ELSE t[i - Len(s)]
  OBVIOUS
<1> DEFINE u == s \o t
<1> HIDE DEF u
<1>3. Range(u) \subseteq Range(s) \cup Range(t)
  <2> SUFFICES ASSUME NEW i \in 1..(Len(s) + Len(t)) PROVE u[i] \in Range(s) \cup Range(t)
    BY <1>1 DEF Range, u
  <2>1. i <= Len(s) => i \in 1..Len(s)
    OBVIOUS
  <2>2. ~(i <= Len(s)) => i - Len(s) \in 1..Len(t)
    BY <1>1
  <2> QED
    BY <1>1, <1>2, <2>1, <2>2 DEF Range, u
<1>4. Range(s) \subseteq Range(u)
  <2> SUFFICES ASSUME NEW i \in 1..Len(s) PROVE s[i] \in Range(u)
    BY <1>1 DEF Range
  <2>1. i \in 1..(Len(s) + Len(t)) /\ i <= Len(s)
    BY <1>1
  <2> QED
    BY <1>1, <1>2, <2>1 DEF Range, u
<1>5. Range(t) \subseteq Range(u)
  <2> SUFFICES ASSUME NEW i \in 1..Len(t) PROVE t[i] \in Range(u)
    BY <1>1 DEF Range
  <2>1. i + Len(s) \in 1..(Len(s) + Len(t)) /\ ~(i + Len(s) <= Len(s)) /\ (i + Len(s)) - Len(s) = i
    BY <1>1
  <2> QED
    BY <1>1, <1>2, <2>1 DEF Range, u
<1> QED
  BY <1>1, <1>3, <1>4, <1>5 DEF u

LEMMA ShortFacts ==
    /\ Range(<<>>) = {} /\ Len(<<>>) = 0 /\ \A S : <<>> \in Seq(S)
    /\ \A x : Range(<<x>>) = {x} /\ <<x>> # <<>> /\ <<x>>[1] = x
    /\ \A S : \A x \in S : <<x>> \in Seq(S)
  BY DEF Range

LEMMA RangeIn == ASSUME NEW S, NEW s \in Seq(S) PROVE Range(s) \subseteq S
  BY DEF Range

\* The orders of a finite set name its elements, each once.
LEMMA OrderFacts ==
    ASSUME NEW S, IsFiniteSet(S), NEW order \in SetToSeqs(S)
    PROVE  order \in Seq(S) /\ Range(order) = S
<1> DEFINE n == Cardinality(S)
<1>1. n \in Nat
  BY FS_CardinalityType
<1>2. order \in [1..n -> S] /\ \A i, j \in 1..n : i # j => order[i] # order[j]
  BY DEF SetToSeqs
<1>3. order \in Seq(S)
  BY <1>1, <1>2
<1>4. IsFiniteSet(1..n) /\ Cardinality(1..n) = n
  <2>1. 1 \in Int /\ n \in Int
    BY <1>1
  <2>2. IsFiniteSet(1..n) /\ Cardinality(1..n) = IF 1 > n THEN 0 ELSE n - 1 + 1
    BY <2>1, FS_Interval
  <2> HIDE DEF n
  <2> QED
    BY <1>1, <2>2
<1>5. order \in Injection(1..n, S)
  BY <1>2 DEF Injection, IsInjective
<1>6. order \in Surjection(1..n, S)
  BY <1>4, <1>5, FS_Injection
<1> QED
  BY <1>2, <1>3, <1>6 DEF Surjection, Range
-----------------------------------------------------------------------------
(* Commits, trees and refs.                                                  *)

LEMMA CommitFacts ==
    /\ IsFiniteSet(Oids) /\ Commits \subseteq Oids /\ Trees \subseteq Oids /\ Blobs \subseteq Oids
    /\ \A c \in Commits : /\ Parents[c] \in Seq(Commits) /\ RootTree[c] \in Trees
                          /\ Date[c] \in Nat /\ OidOrder[c] \in Nat
    /\ \A o \in Oids : Kind[o] \in Kinds
  BY ObjectsAssumption, WalkAssumption DEF Commits, Trees, Blobs

LEMMA JobFacts ==
    ASSUME NEW j \in Jobs
    PROVE  /\ j.mode \in Modes /\ j.stop \in RefNames \cup {NoRef} /\ NoRef \notin RefNames
           /\ j.max.commits \in Nat /\ j.max.stops \in Nat /\ j.max.blobs \in Nat
           /\ j.max.intros \in Nat /\ j.max.depth \in Nat
           /\ AsksFor(j) \subseteq RefNames /\ Tags \subseteq RefNames
  BY WalkAssumption DEF Caps, AsksFor

LEMMA ItemFacts ==
    ASSUME NEW t \in Trees
    PROVE  /\ Items[t] \in Seq(ItemType)
           /\ \A i \in Range(Items[t]) :
                /\ i \in ItemType
                /\ EntryKind(i.mode) = "blob" => i.oid \in Blobs
                /\ EntryKind(i.mode) = "tree" => i.oid \in Trees
<1>1. Items[t] \in Seq(RawItem)
  BY WalkAssumption DEF RawItem
<1>2. ASSUME NEW i \in Range(Items[t])
      PROVE  i \in RawItem /\ i.oid \in Oids /\ EntryKind(i.mode) \in {"skip", Kind[i.oid]}
  <2>1. i \in RawItem
    BY <1>1, RangeIn
  <2> QED
    BY <2>1, WalkAssumption DEF RawItem
<1>3. \A i \in Range(Items[t]) : i \in ItemType
  BY <1>2 DEF ItemType, Blobs, Trees
<1>4. Items[t] \in Seq(ItemType)
  <2>1. \A k \in 1..Len(Items[t]) : Items[t][k] \in ItemType
    BY <1>1, <1>3 DEF Range
  <2>2. Len(Items[t]) \in Nat /\ Items[t] = [k \in 1..Len(Items[t]) |-> Items[t][k]]
    BY <1>1
  <2> QED
    BY <2>1, <2>2, SeqDef
<1> QED
  BY <1>3, <1>4 DEF ItemType

\* The parents that are not met yet, in their order.
KeptFrom(c, met, f, n) ==
    IF n = 0 THEN <<>>
    ELSE IF Parents[c][n] \in met THEN f[n - 1] ELSE Append(f[n - 1], Parents[c][n])

IsKept(c, met, f) == f = [n \in 0..Len(Parents[c]) |-> KeptFrom(c, met, f, n)]

LEMMA KeptExists ==
    ASSUME NEW c \in Commits, NEW met
    PROVE  \E f : IsKept(c, met, f)
<1> DEFINE Upto(k, f) == f = [n \in 0..k |-> KeptFrom(c, met, f, n)]
           S == {k \in Nat : \E f : Upto(k, f)}
<1>1. 0 \in S
  <2> DEFINE f == [n \in 0..0 |-> KeptFrom(c, met, <<>>, 0)]
  <2>1. \A n \in 0..0 : KeptFrom(c, met, f, n) = KeptFrom(c, met, <<>>, 0)
    BY DEF KeptFrom
  <2>2. Upto(0, f)
    BY <2>1
  <2> HIDE DEF Upto
  <2> QED
    BY <2>2
<1>2. ASSUME NEW k \in Nat, k \in S PROVE k + 1 \in S
  <2>1. PICK f : Upto(k, f)
    BY <1>2
  <2> DEFINE g == [n \in 0..(k + 1) |-> KeptFrom(c, met, f, n)]
  <2>2. \A n \in 0..k : g[n] = f[n]
    BY <2>1
  <2>3. ASSUME NEW n \in 0..(k + 1) PROVE KeptFrom(c, met, g, n) = KeptFrom(c, met, f, n)
    <3>1. n # 0 => n - 1 \in 0..k
      OBVIOUS
    <3>2. n # 0 => g[n - 1] = f[n - 1]
      BY <2>2, <3>1
    <3> HIDE DEF g
    <3> QED
      BY <3>2 DEF KeptFrom
  <2>4. Upto(k + 1, g)
    BY <2>3
  <2> HIDE DEF Upto, g
  <2> QED
    BY <2>4
<1>3. Nat \subseteq S
  <2> HIDE DEF S
  <2> QED
    BY <1>1, <1>2, Induct
<1>4. Len(Parents[c]) \in Nat
  BY CommitFacts
<1> QED
  BY <1>3, <1>4 DEF IsKept

LEMMA NewParentsFacts ==
    ASSUME NEW c \in Commits, NEW met
    PROVE  /\ NewParents(c, met) \in Seq(Commits)
           /\ Range(NewParents(c, met)) = Range(Parents[c]) \ met
<1> DEFINE P == Parents[c]
           L == Len(P)
<1>1. P \in Seq(Commits) /\ L \in Nat /\ DOMAIN P = 1..L /\ \A n \in 1..L : P[n] \in Commits
  BY CommitFacts
<1>2. NewParents(c, met) = (CHOOSE f : IsKept(c, met, f))[L]
  BY DEF NewParents, IsKept, KeptFrom
<1>3. PICK f : IsKept(c, met, f) /\ NewParents(c, met) = f[L]
  BY <1>2, KeptExists
<1>4. \A n \in 0..L : f[n] = KeptFrom(c, met, f, n)
  BY <1>3 DEF IsKept
<1> DEFINE S == {n \in Nat : n <= L => /\ f[n] \in Seq(Commits)
                                       /\ Range(f[n]) = {P[i] : i \in 1..n} \ met}
<1>5. 0 \in S
  <2>1. f[0] = <<>>
    BY <1>1, <1>4 DEF KeptFrom
  <2>2. {P[i] : i \in 1..0} = {}
    OBVIOUS
  <2> QED
    BY <2>1, <2>2, ShortFacts
<1>6. ASSUME NEW n \in Nat, n \in S PROVE n + 1 \in S
  <2> SUFFICES ASSUME n + 1 <= L
               PROVE  /\ f[n + 1] \in Seq(Commits)
                      /\ Range(f[n + 1]) = {P[i] : i \in 1..(n + 1)} \ met
    OBVIOUS
  <2>1. n <= L /\ n + 1 \in 0..L /\ n + 1 \in 1..L /\ n + 1 # 0 /\ (n + 1) - 1 = n
    BY <1>1
  <2>2. f[n] \in Seq(Commits) /\ Range(f[n]) = {P[i] : i \in 1..n} \ met
    BY <1>6, <2>1
  <2>3. f[n + 1] = IF P[n + 1] \in met THEN f[n] ELSE Append(f[n], P[n + 1])
    BY <1>4, <2>1 DEF KeptFrom
  <2>4. {P[i] : i \in 1..(n + 1)} = {P[i] : i \in 1..n} \cup {P[n + 1]}
    <3>1. 1..(n + 1) = 1..n \cup {n + 1}
      OBVIOUS
    <3> HIDE DEF P
    <3> QED
      BY <3>1
  <2>5. P[n + 1] \in Commits
    BY <1>1, <2>1
  <2> HIDE DEF P, L
  <2>6. CASE P[n + 1] \in met
    BY <2>2, <2>3, <2>4, <2>6
  <2>7. CASE P[n + 1] \notin met
    <3>1. f[n + 1] = Append(f[n], P[n + 1])
      BY <2>3, <2>7
    <3>2. f[n + 1] \in Seq(Commits) /\ Range(f[n + 1]) = Range(f[n]) \cup {P[n + 1]}
      BY <2>2, <2>5, <3>1, AddedFacts
    <3> QED
      BY <2>2, <2>4, <2>7, <3>2
  <2> QED
    BY <2>6, <2>7
<1>7. Nat \subseteq S
  <2> HIDE DEF S
  <2> QED
    BY <1>5, <1>6, Induct
<1>8. f[L] \in Seq(Commits) /\ Range(f[L]) = {P[i] : i \in 1..L} \ met
  <2>1. L \in S /\ L <= L
    <3> HIDE DEF S
    <3> QED
      BY <1>1, <1>7
  <2> HIDE DEF L, P
  <2> QED
    BY <2>1
<1>9. Range(P) = {P[i] : i \in 1..L}
  BY <1>1 DEF Range
<1> QED
  BY <1>3, <1>8, <1>9

\* What Reach and Below are: the least sets that are closed.
LEMMA ReachFacts ==
    ASSUME NEW starts, NEW walls
    PROVE  /\ Reach(starts, walls) \subseteq Commits
           /\ (starts \cap Commits) \ walls \subseteq Reach(starts, walls)
           /\ \A c \in Reach(starts, walls) : Range(Parents[c]) \ walls \subseteq Reach(starts, walls)
<1>1. ASSUME NEW c \in Reach(starts, walls), NEW p \in Range(Parents[c]) \ walls
      PROVE  p \in Reach(starts, walls)
  <2>1. p \in Commits
    BY CommitFacts, RangeIn DEF Reach
  <2> QED
    BY <1>1, <2>1 DEF Reach
<1> QED
  BY <1>1 DEF Reach

LEMMA ReachLeast ==
    ASSUME NEW starts, NEW walls, NEW S \in SUBSET Commits,
           (starts \cap Commits) \ walls \subseteq S,
           \A d \in S : Range(Parents[d]) \ walls \subseteq S
    PROVE  Reach(starts, walls) \subseteq S
  BY DEF Reach

LEMMA NamedFacts ==
    ASSUME NEW t \in Trees, NEW i \in Range(Items[t])
    PROVE  /\ EntryKind(i.mode) = "tree" => i.oid \in Named(t, "tree")
           /\ EntryKind(i.mode) = "blob" => i.oid \in Named(t, "blob")
  BY DEF Named

LEMMA BelowFacts ==
    ASSUME NEW trees \in SUBSET Trees, NEW walls
    PROVE  /\ Below(trees, walls) \subseteq Trees
           /\ trees \ walls \subseteq Below(trees, walls)
           /\ \A t \in Below(trees, walls) :
                /\ Named(t, "tree") \ walls \subseteq Below(trees, walls)
                /\ Named(t, "blob") \subseteq Under(trees, walls)
<1>1. ASSUME NEW t \in Below(trees, walls), NEW u \in Named(t, "tree") \ walls
      PROVE  u \in Below(trees, walls)
  <2>1. u \in Trees
    BY ItemFacts DEF Below, Named
  <2> QED
    BY <1>1, <2>1 DEF Below
<1> QED
  BY <1>1 DEF Below, Under

LEMMA BelowLeast ==
    ASSUME NEW trees, NEW walls, NEW S \in SUBSET Trees, trees \ walls \subseteq S,
           \A u \in S : Named(u, "tree") \ walls \subseteq S
    PROVE  Below(trees, walls) \subseteq S
  BY DEF Below

LEMMA HoldsFacts ==
    ASSUME NEW c \in Commits
    PROVE  /\ Holds[c] = Under({RootTree[c]}, {}) /\ RootTree[c] \in Below({RootTree[c]}, {})
           /\ \A t \in Below({RootTree[c]}, {}) :
                t \in Trees /\ \A i \in Range(Items[t]) :
                  /\ EntryKind(i.mode) = "tree" => i.oid \in Below({RootTree[c]}, {})
                  /\ EntryKind(i.mode) = "blob" => i.oid \in Holds[c]
<1>1. Holds[c] = Under({RootTree[c]}, {})
  BY DEF Holds
<1>2. {RootTree[c]} \in SUBSET Trees
  BY CommitFacts
<1> DEFINE W == {RootTree[c]}
<1> HIDE DEF W
<1>3. /\ Below(W, {}) \subseteq Trees /\ W \ {} \subseteq Below(W, {})
      /\ \A t \in Below(W, {}) : /\ Named(t, "tree") \ {} \subseteq Below(W, {})
                                /\ Named(t, "blob") \subseteq Under(W, {})
  <2>1. W \in SUBSET Trees
    BY <1>2 DEF W
  <2> QED
    BY <2>1, BelowFacts
<1>4. ASSUME NEW t \in Below(W, {}), NEW i \in Range(Items[t])
      PROVE  /\ t \in Trees
             /\ EntryKind(i.mode) = "tree" => i.oid \in Below(W, {})
             /\ EntryKind(i.mode) = "blob" => i.oid \in Under(W, {})
  BY <1>3, NamedFacts
<1>5. \A t \in Below(W, {}) : t \in Trees
  BY <1>3
<1> QED
  BY <1>1, <1>3, <1>4, <1>5 DEF W
-----------------------------------------------------------------------------
(* The walk.                                                                 *)

LEMMA ValuesFacts ==
    ASSUME NEW r
    PROVE  /\ Values(r) \subseteq Oids
           /\ r \in DOMAIN RefsAtStart.loose => RefsAtStart.loose[r] \in Values(r)
           /\ r \in DOMAIN RefsAtStart.packed => RefsAtStart.packed[r] \in Values(r)
           /\ r \in DOMAIN MovesTo => MovesTo[r] \in Values(r)
           /\ Values(r) # {} => r \in DOMAIN RefsAtStart.loose \cup DOMAIN RefsAtStart.packed
  BY WalkAssumption DEF Values

LEMMA WalkBegins == WalkInit => StoreInv /\ RefsStand /\ RefsGiven /\ WalkKept
<1> SUFFICES ASSUME WalkInit PROVE StoreInv /\ RefsStand /\ RefsGiven /\ WalkKept
  OBVIOUS
<1>1. StoreInv /\ job \in Jobs /\ ~Busy
  BY ObjectsBegin, ObjectsAssumption, IdleFacts DEF WalkInit, ObjectsInit, Busy
<1>2. /\ walk.stage = "tips" /\ walk.unread = AsksFor(job) /\ walk.got = {} /\ walk.tips = {}
      /\ walk.queue = <<>> /\ walk.outside = {} /\ walk.seen = {} /\ walk.commits = <<>>
      /\ walk.frames = <<>> /\ walk.pending = <<>> /\ walk.here = <<>> /\ walk.from = 0
      /\ walk.blobs = <<>> /\ walk.seenTrees = {} /\ walk.tags = {} /\ walk.truncated = FALSE
      /\ walk.missed = {}
  BY DEF WalkInit
<1>3. RefsStand
  BY ValuesFacts, WalkAssumption DEF WalkInit, RefsStand
<1>4. RefsGiven
  BY <1>1, <1>2 DEF RefsGiven, Asked, EveryRefIsATip
<1>5. WalkTyped
  <2>1. AsksFor(job) \subseteq RefNames
    BY <1>1, JobFacts
  <2> QED
    BY <2>1, ShortFacts DEF WalkInit, WalkTyped, Stages
<1>6. InOrder
  BY <1>1, <1>2, ShortFacts DEF InOrder
<1>7. InCaps
  <2>1. /\ Len(walk.frames) = 0 /\ Len(walk.blobs) = 0 /\ Cardinality(walk.outside) = 0
        /\ IsFiniteSet(walk.outside) /\ DOMAIN walk.blobs = {}
    BY <1>2, FS_EmptySet
  <2>2. job.max.depth \in Nat /\ job.max.blobs \in Nat /\ job.max.stops \in Nat
    BY <1>1, JobFacts
  <2> QED
    BY <1>1, <1>2, <2>1, <2>2 DEF InCaps
<1>8. OutsideIsBehind /\ NoneForgotten
  BY <1>2 DEF OutsideIsBehind, NoneForgotten
<1>9. Walked = {} /\ InFrames = {} /\ Range(walk.blobs) = {}
  BY <1>2, ShortFacts DEF Walked, InFrames
<1>10. Listed /\ TreesKept /\ FromHere /\ Sorted /\ Emptied /\ IntroIsOldest /\ TagsKept
  BY <1>2, <1>9 DEF Listed, TreesKept, FromHere, Sorted, Emptied, IntroIsOldest, TagsKept
<1> QED
  BY <1>1, <1>3, <1>4, <1>5, <1>6, <1>7, <1>8, <1>10 DEF WalkKept

\* A step of git, or of a read that goes on, changes nothing the walk relies on.
LEMMA WalkStays ==
    ASSUME WalkKept, UNCHANGED <<walk, job>>, Busy' = Busy, read'.oid = read.oid
    PROVE  WalkKept'
<1>1. /\ Push' = Push /\ Signing' = Signing /\ Found' = Found /\ Stops' = Stops /\ Cut' = Cut
      /\ InQueue' = InQueue /\ Walked' = Walked /\ Known' = Known /\ InFrames' = InFrames
      /\ Tidy' = Tidy
  BY DEF Push, Signing, Found, Stops, Cut, InQueue, Walked, Known, InFrames, Tidy
<1>2. WalkTyped' /\ job' \in Jobs /\ InCaps' /\ OutsideIsBehind' /\ Sorted' /\ FromHere'
  BY <1>1 DEF WalkKept, WalkTyped, InCaps, OutsideIsBehind, Sorted, FromHere
<1>3. InOrder'
  BY <1>1 DEF WalkKept, InOrder
<1>4. NoneForgotten' /\ Listed'
  BY <1>1 DEF WalkKept, NoneForgotten, Listed
<1>5. TreesKept' /\ Emptied'
  BY <1>1 DEF WalkKept, TreesKept, Settled, Emptied
<1>6. IntroIsOldest'
  BY <1>1 DEF WalkKept, IntroIsOldest
<1>7. TagsKept'
  BY <1>1 DEF WalkKept, TagsKept
<1> QED
  BY <1>2, <1>3, <1>4, <1>5, <1>6, <1>7 DEF WalkKept

\* A ref packed, its file dropped, or moved.
LEMMA RefsMove ==
    ASSUME RefsStand, RefsGiven, UNCHANGED <<walk, job>>,
           \/ GcPacksRefs
           \/ \E r \in RefNames : GcDropsLooseRef(r) \/ MovesRef(r)
    PROVE  RefsStand' /\ RefsGiven'
<1>1. DOMAIN packedRef \subseteq DOMAIN packedRef'
  BY DEF GcPacksRefs, RefValues, GcDropsLooseRef, MovesRef
<1>2. RefsGiven'
  BY <1>1 DEF RefsGiven, Asked, EveryRefIsATip
<1>3. ASSUME GcPacksRefs PROVE RefsStand'
  BY <1>3 DEF GcPacksRefs, RefValues, RefsStand
<1>4. ASSUME NEW r \in RefNames, GcDropsLooseRef(r) PROVE RefsStand'
  BY <1>4 DEF GcDropsLooseRef, RefsStand
<1>5. ASSUME NEW r \in RefNames, MovesRef(r) PROVE RefsStand'
  BY <1>5, ValuesFacts DEF MovesRef, RefsStand
<1>6. RefsStand'
  BY <1>3, <1>4, <1>5, Zenon
<1> QED
  BY <1>2, <1>6
-----------------------------------------------------------------------------
(* The walk's steps: first the refs, and what the other side has.            *)

LEMMA DiskKeeps == ASSUME RefsStand, Disk PROVE RefsStand' /\ UNCHANGED store /\ job' = job
  BY DEF RefsStand, Disk

\* Before the first commit there is nothing but refs, and what the other side has.
LEMMA EarlyFacts ==
    ASSUME WalkKept, walk.stage \in {"tips", "stopref", "stop"}
    PROVE  /\ walk.seen = {} /\ walk.commits = <<>> /\ walk.frames = <<>> /\ walk.pending = <<>>
           /\ walk.here = <<>> /\ walk.from = 0 /\ walk.blobs = <<>> /\ walk.seenTrees = {}
           /\ ~walk.truncated
           /\ Busy => walk.stage = "stop" /\ read.oid \in walk.outside
           /\ walk.stage # "stop" => walk.outside = {}
<1>1. walk.here = <<>>
  BY DEF WalkKept, InOrder
<1>2. walk.pending = <<>> /\ walk.frames = <<>>
  BY <1>1 DEF WalkKept, InOrder
<1>3. Busy => walk.stage = "stop" /\ read.oid \in walk.outside
  <2>1. <<>> # <<read.oid>>
    BY ShortFacts
  <2> QED
    BY <1>2, <2>1 DEF WalkKept, InOrder
<1> QED
  BY <1>1, <1>2, <1>3 DEF WalkKept, InOrder

LEMMA EarlyKeeps ==
    ASSUME WalkTyped', job' \in Jobs,
           walk'.stage \in {"tips", "stopref", "stop"}
             \/ (walk'.stage \in {"commits", "done"} /\ NoneForgotten' /\ TagsKept'),
           walk'.seen = {}, walk'.commits = <<>>, walk'.frames = <<>>, walk'.pending = <<>>,
           walk'.here = <<>>, walk'.from = 0, walk'.blobs = <<>>, walk'.seenTrees = {},
           ~walk'.truncated,
           Busy' => walk'.stage = "stop" /\ read'.oid \in walk'.outside,
           walk'.stage \in {"tips", "stopref"} => walk'.outside = {},
           IsFiniteSet(walk'.outside), Cardinality(walk'.outside) <= job'.max.stops,
           OutsideIsBehind'
    PROVE  WalkKept'
<1>1. Range(walk'.commits) = {} /\ Range(walk'.blobs) = {} /\ InFrames' = {}
  BY ShortFacts DEF InFrames
<1>2. InOrder'
  BY <1>1 DEF InOrder
<1>3. InCaps'
  <2>1. Len(walk'.frames) = 0 /\ Len(walk'.blobs) = 0 /\ DOMAIN walk'.blobs = {}
    BY ShortFacts
  <2>2. job'.max.depth \in Nat /\ job'.max.blobs \in Nat
    BY JobFacts
  <2> QED
    BY <2>1, <2>2 DEF InCaps
<1>4. NoneForgotten' /\ Sorted' /\ Emptied' /\ TagsKept'
  BY DEF NoneForgotten, Sorted, Emptied, TagsKept
<1>5. Walked' = {}
  BY DEF Walked
<1>6. Listed' /\ TreesKept' /\ FromHere' /\ IntroIsOldest'
  BY <1>1, <1>5 DEF Listed, TreesKept, FromHere, IntroIsOldest
<1> QED
  BY <1>2, <1>3, <1>4, <1>6 DEF WalkKept

LEMMA LooseTipKeeps ==
    ASSUME WalkInv, NEW r \in RefNames, LooseTip(r)
    PROVE  WalkInv'
<1> DEFINE new == {looseRef[q] : q \in {r} \cap DOMAIN looseRef}
<1>1. /\ walk.stage \in {"tips", "stopref", "tagrefs"} /\ r \in walk.unread
      /\ walk' = [walk EXCEPT !.unread = @ \ {r}, !.got = @ \cup new]
      /\ Disk /\ NoRead
  BY DEF LooseTip
<1>2. WalkTyped /\ RefsStand /\ RefsGiven /\ job \in Jobs /\ WalkKept /\ StoreInv
  BY DEF WalkInv, WalkKept
<1>3. new \subseteq Oids /\ (new = {} \/ (new \subseteq Values(r) /\ new # {}))
  BY <1>2, ValuesFacts DEF RefsStand
<1> HIDE DEF new
<1>4. /\ walk'.unread = walk.unread \ {r} /\ walk'.got = walk.got \cup new
      /\ walk'.stage = walk.stage /\ walk'.tips = walk.tips /\ walk'.queue = walk.queue
      /\ walk'.outside = walk.outside /\ walk'.seen = walk.seen
      /\ walk'.commits = walk.commits /\ walk'.frames = walk.frames
      /\ walk'.pending = walk.pending /\ walk'.here = walk.here /\ walk'.from = walk.from
      /\ walk'.blobs = walk.blobs /\ walk'.seenTrees = walk.seenTrees
      /\ walk'.tags = walk.tags /\ walk'.truncated = walk.truncated
      /\ walk'.missed = walk.missed
  BY <1>1, <1>2 DEF WalkTyped
<1>5. StoreInv' /\ Busy' = Busy /\ read' = read /\ RefsStand' /\ job' = job
      /\ packedRef' = packedRef /\ looseRef' = looseRef
  BY <1>1, <1>2, DiskKeeps, NoReadKeeps DEF Disk
<1>6. RefsGiven'
  <2>1. Asked' = Asked /\ r \in Asked
    BY <1>1, <1>2, <1>4, <1>5 DEF Asked, RefsGiven
  <2>2. EveryRefIsATip' /\ (walk'.stage = "tips" => walk'.tips = {})
    BY <1>2, <1>4, <1>5 DEF RefsGiven, EveryRefIsATip
  <2>3. walk'.got \subseteq UNION {Values(q) : q \in Asked'}
    BY <1>2, <1>3, <1>4, <2>1 DEF RefsGiven
  <2>4. ASSUME NEW q \in Asked' \ walk'.unread
        PROVE  Values(q) = {} \/ Values(q) \cap walk'.got # {} \/ q \in DOMAIN packedRef'
    <3>1. CASE q # r
      BY <1>2, <1>4, <1>5, <2>1, <2>4, <3>1 DEF RefsGiven
    <3>2. CASE q = r /\ r \in DOMAIN looseRef
      <4>1. looseRef[r] \in new /\ new \subseteq Values(r)
        BY <1>3, <3>2 DEF new
      <4> QED
        BY <1>4, <3>2, <4>1
    <3>3. CASE q = r /\ r \notin DOMAIN looseRef
      BY <1>2, <1>5, <3>3 DEF RefsStand
    <3> QED
      BY <3>1, <3>2, <3>3
  <2>5. walk'.unread \subseteq Asked'
    BY <1>2, <1>4, <2>1 DEF RefsGiven
  <2> QED
    BY <2>2, <2>3, <2>4, <2>5 DEF RefsGiven
<1>7. WalkTyped'
  BY <1>1, <1>2, <1>3 DEF WalkTyped
<1>8. WalkKept'
  <2>1. /\ Push' = Push /\ Signing' = Signing /\ Found' = Found /\ Stops' = Stops /\ Cut' = Cut
        /\ InQueue' = InQueue /\ Walked' = Walked /\ Known' = Known /\ InFrames' = InFrames
        /\ Tidy' = Tidy
    BY <1>4, <1>5 DEF Push, Signing, Found, Stops, Cut, InQueue, Walked, Known, InFrames, Tidy
  <2>2. InCaps' /\ OutsideIsBehind' /\ Sorted' /\ FromHere'
    BY <1>2, <1>4, <1>5, <2>1 DEF WalkKept, InCaps, OutsideIsBehind, Sorted, FromHere
  <2>3. InOrder'
    BY <1>2, <1>4, <1>5, <2>1 DEF WalkKept, InOrder
  <2>4. NoneForgotten' /\ Listed'
    BY <1>2, <1>4, <1>5, <2>1 DEF WalkKept, NoneForgotten, Listed
  <2>5. TreesKept' /\ Emptied'
    BY <1>2, <1>4, <1>5, <2>1 DEF WalkKept, TreesKept, Settled, Emptied
  <2>6. IntroIsOldest'
    BY <1>2, <1>4, <1>5, <2>1 DEF WalkKept, IntroIsOldest
  <2>7. TagsKept'
    BY <1>2, <1>4, <1>5, <2>1 DEF WalkKept, TagsKept
  <2> QED
    BY <1>2, <1>5, <1>7, <2>2, <2>3, <2>4, <2>5, <2>6, <2>7 DEF WalkKept
<1> QED
  BY <1>5, <1>6, <1>8 DEF WalkInv
\* The refs of a stage: what they give, with packed-refs.
LEMMA WithPackedFacts ==
    ASSUME RefsStand, RefsGiven, walk.unread = {}, NEW names, names = Asked, NEW single \in BOOLEAN,
           single => \E r : names \subseteq {r}
    PROVE  /\ WithPacked(names, single) \subseteq UNION {Values(r) : r \in names}
           /\ WithPacked(names, single) \subseteq Oids /\ IsFiniteSet(WithPacked(names, single))
           /\ \A r \in names : Values(r) = {} \/ Values(r) \cap WithPacked(names, single) # {}
<1> DEFINE W == WithPacked(names, single)
           P == {packedRef[r] : r \in names \cap DOMAIN packedRef}
<1>1. walk.got \subseteq UNION {Values(r) : r \in names}
  BY DEF RefsGiven
<1>2. P \subseteq UNION {Values(r) : r \in names}
  BY DEF RefsStand
<1>3. walk.got \subseteq W /\ W \subseteq walk.got \cup P
      /\ (~single \/ walk.got = {} => W = walk.got \cup P)
  BY DEF WithPacked
<1> HIDE DEF W
<1>4. W \subseteq UNION {Values(r) : r \in names}
  <2> HIDE DEF P
  <2> QED
    BY <1>1, <1>2, <1>3
<1>5. W \subseteq Oids
  BY <1>4, ValuesFacts
<1>6. IsFiniteSet(W)
  BY <1>5, CommitFacts, FS_Subset
<1>7. ASSUME NEW r \in names, Values(r) # {} PROVE Values(r) \cap W # {}
  <2>1. Values(r) \cap walk.got # {} \/ r \in DOMAIN packedRef
    BY <1>7 DEF RefsGiven
  <2>2. CASE single /\ walk.got # {}
    <3>1. PICK v \in walk.got : TRUE
      BY <2>2
    <3>2. PICK q \in names : v \in Values(q)
      BY <1>1
    <3>3. q = r
      BY <2>2
    <3> QED
      BY <1>3, <3>2, <3>3
  <2>3. CASE ~single \/ walk.got = {}
    <3>1. CASE Values(r) \cap walk.got # {}
      BY <1>3, <3>1
    <3>2. CASE r \in DOMAIN packedRef
      <4>1. packedRef[r] \in Values(r) /\ packedRef[r] \in P
        BY <3>2 DEF RefsStand
      <4> QED
        BY <1>3, <2>3, <4>1
    <3> QED
      BY <2>1, <3>1, <3>2
  <2> QED
    BY <2>2, <2>3
<1> QED
  BY <1>4, <1>5, <1>6, <1>7 DEF W

LEMMA PackedTipsKeeps == ASSUME WalkInv, PackedTips PROVE WalkInv'
<1> DEFINE found == WithPacked(AsksFor(job), job.mode \in {"push", "head"})
<1>1. /\ walk.stage = "tips" /\ walk.unread = {} /\ Disk /\ NoRead
      /\ walk' = [walk EXCEPT !.tips = found, !.got = {},
                    !.stage = IF found = {} THEN "done" ELSE "stopref",
                    !.unread = IF found = {} THEN {} ELSE {job.stop} \ {NoRef}]
  BY DEF PackedTips, InStage
<1>2. WalkTyped /\ RefsStand /\ RefsGiven /\ job \in Jobs /\ WalkKept /\ StoreInv
  BY DEF WalkInv, WalkKept
<1>3. found \subseteq Oids
      /\ \A r \in AsksFor(job) : Values(r) = {} \/ Values(r) \cap found # {}
  <2>1. AsksFor(job) = Asked
    BY <1>1 DEF Asked
  <2>2. job.mode \in {"push", "head"} => AsksFor(job) \subseteq {HeadRef}
    BY DEF AsksFor
  <2> DEFINE single == job.mode \in {"push", "head"}
  <2>3. single \in BOOLEAN /\ (single => \E r : AsksFor(job) \subseteq {r})
    BY <2>2
  <2> HIDE DEF single
  <2>4. /\ WithPacked(AsksFor(job), single) \subseteq Oids
        /\ \A r \in AsksFor(job) :
             Values(r) = {} \/ Values(r) \cap WithPacked(AsksFor(job), single) # {}
    BY <1>1, <1>2, <2>1, <2>3, WithPackedFacts
  <2> QED
    BY <2>4 DEF single
<1> HIDE DEF found
<1>4. /\ walk'.stage = (IF found = {} THEN "done" ELSE "stopref") /\ walk'.tips = found
      /\ walk'.got = {}
      /\ walk'.unread = (IF found = {} THEN {} ELSE {job.stop} \ {NoRef})
      /\ walk'.queue = walk.queue /\ walk'.outside = walk.outside /\ walk'.seen = walk.seen
      /\ walk'.commits = walk.commits /\ walk'.frames = walk.frames
      /\ walk'.pending = walk.pending /\ walk'.here = walk.here /\ walk'.from = walk.from
      /\ walk'.blobs = walk.blobs /\ walk'.seenTrees = walk.seenTrees
      /\ walk'.tags = walk.tags /\ walk'.truncated = walk.truncated
      /\ walk'.missed = walk.missed
  BY <1>1, <1>2 DEF WalkTyped
<1>5. StoreInv' /\ Busy' = Busy /\ read' = read /\ RefsStand' /\ job' = job
  BY <1>1, <1>2, DiskKeeps, NoReadKeeps DEF Disk
<1>6. EveryRefIsATip'
  BY <1>3, <1>4, <1>5 DEF EveryRefIsATip
<1>7. RefsGiven'
  <2>1. walk'.unread = Asked'
    BY <1>4, <1>5 DEF Asked
  <2> QED
    BY <1>4, <1>6, <2>1 DEF RefsGiven
<1>8. WalkTyped'
  <2>1. {job.stop} \ {NoRef} \subseteq RefNames
    BY <1>2, JobFacts
  <2> QED
    BY <1>1, <1>2, <1>3, <2>1 DEF WalkTyped, Stages
<1>9. WalkKept'
  <2>1. /\ walk.seen = {} /\ walk.commits = <<>> /\ walk.frames = <<>> /\ walk.pending = <<>>
        /\ walk.here = <<>> /\ walk.from = 0 /\ walk.blobs = <<>> /\ walk.seenTrees = {}
        /\ ~walk.truncated /\ ~Busy /\ walk.outside = {}
    BY <1>1, <1>2, EarlyFacts
  <2>2. Cardinality({}) = 0 /\ IsFiniteSet({}) /\ job.max.stops \in Nat
    BY <1>2, FS_EmptySet, JobFacts
  <2>3. OutsideIsBehind'
    BY <1>4, <2>1 DEF OutsideIsBehind
  <2>4. ASSUME found = {} PROVE NoneForgotten' /\ TagsKept'
    <3>1. Walked' = {} /\ walk'.tips = {}
      BY <1>4, <2>1, <2>4 DEF Walked
    <3>2. ASSUME Signing', NEW r \in Tags PROVE Values(r) = {}
      <4>1. r \in AsksFor(job)
        BY <1>5, <3>2, WalkAssumption DEF Signing, AsksFor
      <4> QED
        BY <1>3, <2>4, <4>1
    <3> QED
      BY <3>1, <3>2 DEF NoneForgotten, TagsKept
  <2>5. walk'.stage = "stopref" \/ (walk'.stage = "done" /\ NoneForgotten' /\ TagsKept')
    BY <1>4, <2>4
  <2> QED
    BY <1>2, <1>4, <1>5, <1>8, <2>1, <2>2, <2>3, <2>5, EarlyKeeps
<1> QED
  BY <1>5, <1>7, <1>9 DEF WalkInv

LEMMA PackedStopKeeps == ASSUME WalkInv, PackedStop PROVE WalkInv'
<1> DEFINE W == WithPacked({job.stop}, TRUE)
<1>1. /\ walk.stage = "stopref" /\ walk.unread = {} /\ Disk /\ NoRead
      /\ \E o \in SetToSeqs(W) : walk' = [walk EXCEPT !.got = {}, !.stage = "stop", !.queue = o]
  BY DEF PackedStop, InStage
<1>2. WalkTyped /\ RefsStand /\ RefsGiven /\ job \in Jobs /\ WalkKept /\ StoreInv
  BY DEF WalkInv, WalkKept
<1>3. /\ W \subseteq Oids /\ IsFiniteSet(W)
      /\ IF job.stop = NoRef THEN W = {} ELSE W \subseteq Values(job.stop)
  <2>1. CASE job.stop = NoRef
    <3>1. Asked = {}
      BY <1>1, <2>1 DEF Asked
    <3>2. walk.got = {} /\ NoRef \notin DOMAIN packedRef
      BY <1>2, <3>1, WalkAssumption DEF RefsGiven, RefsStand
    <3>3. W = {}
      BY <2>1, <3>2 DEF WithPacked
    <3> QED
      BY <2>1, <3>3, FS_EmptySet
  <2>2. CASE job.stop # NoRef
    <3>1. Asked = {job.stop}
      BY <1>1, <2>2 DEF Asked
    <3>2. W \subseteq UNION {Values(r) : r \in {job.stop}} /\ W \subseteq Oids /\ IsFiniteSet(W)
      BY <1>1, <1>2, <3>1, WithPackedFacts
    <3> HIDE DEF W
    <3> QED
      BY <2>2, <3>2
  <2> QED
    BY <2>1, <2>2
<1> HIDE DEF W
<1>4. PICK o : /\ o \in SetToSeqs(W)
               /\ walk' = [walk EXCEPT !.got = {}, !.stage = "stop", !.queue = o]
  BY <1>1, Zenon
<1>5. o \in Seq(Oids) /\ Range(o) = W
  <2>1. o \in Seq(W) /\ Range(o) = W
    BY <1>3, <1>4, OrderFacts
  <2> QED
    BY <1>3, <2>1
<1>6. /\ walk'.stage = "stop" /\ walk'.got = {} /\ walk'.queue = o
      /\ walk'.unread = walk.unread /\ walk'.tips = walk.tips /\ walk'.outside = walk.outside
      /\ walk'.seen = walk.seen /\ walk'.commits = walk.commits /\ walk'.frames = walk.frames
      /\ walk'.pending = walk.pending /\ walk'.here = walk.here /\ walk'.from = walk.from
      /\ walk'.blobs = walk.blobs /\ walk'.seenTrees = walk.seenTrees
      /\ walk'.tags = walk.tags /\ walk'.truncated = walk.truncated
      /\ walk'.missed = walk.missed
  BY <1>2, <1>4 DEF WalkTyped
<1>7. StoreInv' /\ Busy' = Busy /\ read' = read /\ RefsStand' /\ job' = job
  BY <1>1, <1>2, DiskKeeps, NoReadKeeps DEF Disk
<1>8. RefsGiven'
  <2>1. Asked' = {}
    BY <1>6 DEF Asked
  <2>2. EveryRefIsATip'
    BY <1>1, <1>2, <1>6, <1>7 DEF RefsGiven, EveryRefIsATip
  <2> QED
    BY <1>1, <1>6, <2>1, <2>2 DEF RefsGiven
<1>9. WalkTyped'
  BY <1>2, <1>4, <1>5 DEF WalkTyped, Stages
<1>10. OutsideIsBehind'
  <2>1. walk.outside = {}
    BY <1>1, <1>2, EarlyFacts
  <2>2. W \cap Commits \subseteq Stops
    <3>1. CASE job.stop = NoRef
      BY <1>3, <3>1
    <3>2. CASE job.stop # NoRef
      <4>1. (Values(job.stop) \cap Commits) \ {} \subseteq Reach(Values(job.stop), {})
        BY ReachFacts
      <4> QED
        BY <1>3, <3>2, <4>1 DEF Stops
    <3> QED
      BY <3>1, <3>2
  <2>3. Stops' = Stops
    BY <1>7 DEF Stops
  <2> QED
    BY <1>5, <1>6, <2>1, <2>2, <2>3 DEF OutsideIsBehind
<1>11. WalkKept'
  <2>1. /\ walk.seen = {} /\ walk.commits = <<>> /\ walk.frames = <<>> /\ walk.pending = <<>>
        /\ walk.here = <<>> /\ walk.from = 0 /\ walk.blobs = <<>> /\ walk.seenTrees = {}
        /\ ~walk.truncated /\ ~Busy /\ walk.outside = {}
    BY <1>1, <1>2, EarlyFacts
  <2>2. Cardinality({}) = 0 /\ IsFiniteSet({}) /\ job.max.stops \in Nat
    BY <1>2, FS_EmptySet, JobFacts
  <2> QED
    BY <1>2, <1>6, <1>7, <1>9, <1>10, <2>1, <2>2, EarlyKeeps
<1> QED
  BY <1>7, <1>8, <1>11 DEF WalkInv

\* Stages in which no ref is asked for.
LEMMA NoRefAsked ==
    ASSUME RefsGiven, walk.stage \notin {"tips", "stopref", "tagrefs"},
           walk'.stage \notin {"tips", "stopref", "tagrefs"}, job' = job,
           walk'.unread = walk.unread, walk'.got = walk.got, walk'.tips = walk.tips
    PROVE  RefsGiven'
<1>1. Asked = {} /\ Asked' = {}
  BY DEF Asked
<1>2. EveryRefIsATip'
  BY DEF RefsGiven, EveryRefIsATip
<1>3. walk.unread = {} /\ walk.got = {}
  BY <1>1 DEF RefsGiven
<1> QED
  BY <1>1, <1>2, <1>3 DEF RefsGiven

LEMMA StopNextKeeps == ASSUME WalkInv, StopNext PROVE WalkInv'
<1> DEFINE c == Head(walk.queue)
<1>1. /\ walk.stage = "stop" /\ read.at = "idle" /\ walk.queue # <<>> /\ Disk
      /\ IF Cardinality(walk.outside) >= job.max.stops
         THEN walk' = [walk EXCEPT !.queue = <<>>] /\ NoRead
         ELSE /\ walk' = [walk EXCEPT !.queue = Tail(@), !.outside = @ \cup {c}]
              /\ IF c \in walk.outside THEN NoRead ELSE StartRead(c)
  BY DEF StopNext, InStage, Ready, Fetches
<1>2. WalkTyped /\ RefsStand /\ RefsGiven /\ job \in Jobs /\ WalkKept /\ StoreInv /\ ~Busy
  BY <1>1 DEF WalkInv, WalkKept, Busy
<1>3. RefsStand' /\ job' = job /\ UNCHANGED store
  BY <1>1, <1>2, DiskKeeps
<1>4. /\ walk.seen = {} /\ walk.commits = <<>> /\ walk.frames = <<>> /\ walk.pending = <<>>
      /\ walk.here = <<>> /\ walk.from = 0 /\ walk.blobs = <<>> /\ walk.seenTrees = {}
      /\ ~walk.truncated
  BY <1>1, <1>2, EarlyFacts
<1>5. walk.queue \in Seq(Oids) /\ IsFiniteSet(walk.outside) /\ job.max.stops \in Nat
      /\ Cardinality(walk.outside) <= job.max.stops /\ Cardinality(walk.outside) \in Nat
  BY <1>2, FS_CardinalityType, JobFacts DEF WalkKept, WalkTyped, InCaps
<1>6. c \in Oids /\ Tail(walk.queue) \in Seq(Oids) /\ Range(walk.queue) = {c} \cup Range(Tail(walk.queue))
  BY <1>1, <1>5, TailFacts
<1>7. Stops' = Stops
  BY <1>3 DEF Stops
<1> HIDE DEF c
<1>8. CASE Cardinality(walk.outside) >= job.max.stops
  <2>1. walk' = [walk EXCEPT !.queue = <<>>] /\ NoRead
    BY <1>1, <1>8
  <2>2. /\ walk'.queue = <<>> /\ walk'.stage = walk.stage /\ walk'.unread = walk.unread
      /\ walk'.got = walk.got /\ walk'.tips = walk.tips /\ walk'.outside = walk.outside
      /\ walk'.seen = walk.seen /\ walk'.commits = walk.commits /\ walk'.frames = walk.frames
      /\ walk'.pending = walk.pending /\ walk'.here = walk.here /\ walk'.from = walk.from
      /\ walk'.blobs = walk.blobs /\ walk'.seenTrees = walk.seenTrees
      /\ walk'.tags = walk.tags /\ walk'.truncated = walk.truncated
      /\ walk'.missed = walk.missed
    BY <1>2, <2>1 DEF WalkTyped
  <2>3. StoreInv' /\ Busy' = Busy
    BY <1>2, <1>3, <2>1, NoReadKeeps
  <2>4. WalkTyped'
    BY <1>2, <2>1, ShortFacts DEF WalkTyped
  <2>5. OutsideIsBehind'
    BY <1>1, <1>2, <1>7, <2>2, ShortFacts DEF WalkKept, OutsideIsBehind
  <2>6. WalkKept'
    BY <1>1, <1>2, <1>3, <1>4, <1>5, <2>2, <2>3, <2>4, <2>5, EarlyKeeps
  <2>7. RefsGiven'
    BY <1>1, <1>2, <1>3, <2>2, NoRefAsked
  <2> QED
    BY <1>3, <2>3, <2>6, <2>7 DEF WalkInv
<1>9. CASE ~(Cardinality(walk.outside) >= job.max.stops)
  <2>1. /\ walk' = [walk EXCEPT !.queue = Tail(@), !.outside = @ \cup {c}]
        /\ IF c \in walk.outside THEN NoRead ELSE StartRead(c)
    BY <1>1, <1>9
  <2>2. /\ walk'.queue = Tail(walk.queue) /\ walk'.outside = walk.outside \cup {c}
      /\ walk'.stage = walk.stage /\ walk'.unread = walk.unread /\ walk'.got = walk.got
      /\ walk'.tips = walk.tips /\ walk'.seen = walk.seen /\ walk'.commits = walk.commits
      /\ walk'.frames = walk.frames /\ walk'.pending = walk.pending /\ walk'.here = walk.here
      /\ walk'.from = walk.from /\ walk'.blobs = walk.blobs
      /\ walk'.seenTrees = walk.seenTrees /\ walk'.tags = walk.tags
      /\ walk'.truncated = walk.truncated /\ walk'.missed = walk.missed
    BY <1>2, <2>1 DEF WalkTyped
  <2>3. StoreInv' /\ (Busy' => read'.oid = c)
    BY <1>2, <1>3, <1>6, <2>1, NoReadKeeps, StartKeeps
  <2>4. WalkTyped'
    BY <1>2, <1>6, <2>1 DEF WalkTyped
  <2>5. OutsideIsBehind'
    BY <1>1, <1>2, <1>6, <1>7, <2>2 DEF WalkKept, OutsideIsBehind
  <2>6. IsFiniteSet(walk'.outside) /\ Cardinality(walk'.outside) <= job'.max.stops
    <3>1. /\ IsFiniteSet(walk.outside \cup {c})
          /\ Cardinality(walk.outside \cup {c}) =
               IF c \in walk.outside THEN Cardinality(walk.outside) ELSE Cardinality(walk.outside) + 1
      BY <1>5, FS_AddElement
    <3> QED
      BY <1>3, <1>5, <1>9, <2>2, <3>1
  <2>7. WalkKept'
    BY <1>1, <1>2, <1>3, <1>4, <2>2, <2>3, <2>4, <2>5, <2>6, EarlyKeeps
  <2>8. RefsGiven'
    BY <1>1, <1>2, <1>3, <2>2, NoRefAsked
  <2> QED
    BY <1>3, <2>3, <2>7, <2>8 DEF WalkInv
<1> QED
  BY <1>8, <1>9

LEMMA StopGotKeeps == ASSUME WalkInv, StopGot PROVE WalkInv'
<1> DEFINE new == IF ReadAs("commit") THEN Parents[read.oid] ELSE <<>>
<1>1. /\ walk.stage = "stop" /\ read.at = "done" /\ Handled /\ Disk
      /\ walk' = [walk EXCEPT !.missed = Missed, !.queue = @ \o new]
  BY DEF StopGot, InStage, Answered
<1>2. /\ WalkTyped /\ RefsStand /\ RefsGiven /\ job \in Jobs /\ WalkKept /\ StoreInv /\ Busy
      /\ read.oid \in Oids
  BY <1>1 DEF WalkInv, WalkKept, Busy, StoreInv, ReadTyped
<1>3. RefsStand' /\ job' = job /\ UNCHANGED store
  BY <1>1, <1>2, DiskKeeps
<1>4. /\ walk.seen = {} /\ walk.commits = <<>> /\ walk.frames = <<>> /\ walk.pending = <<>>
      /\ walk.here = <<>> /\ walk.from = 0 /\ walk.blobs = <<>> /\ walk.seenTrees = {}
      /\ ~walk.truncated /\ read.oid \in walk.outside
  BY <1>1, <1>2, EarlyFacts
<1>5. new \in Seq(Oids) /\ (new = <<>> \/ (read.oid \in Commits /\ new = Parents[read.oid]))
  <2>1. CASE ReadAs("commit")
    <3>1. read.oid \in Commits
      BY <1>2, <2>1 DEF ReadAs, Commits
    <3> QED
      BY <2>1, <3>1, CommitFacts
  <2>2. CASE ~ReadAs("commit")
    BY <2>2, ShortFacts
  <2> QED
    BY <2>1, <2>2
<1> HIDE DEF new
<1>6. walk.queue \in Seq(Oids)
  BY <1>2 DEF WalkTyped
<1>7. walk.queue \o new \in Seq(Oids) /\ Range(walk.queue \o new) = Range(walk.queue) \cup Range(new)
  BY <1>5, <1>6, JoinedFacts
<1>8. Missed \subseteq Oids
  BY <1>2 DEF Missed, WalkTyped
<1>9. /\ walk'.queue = walk.queue \o new /\ walk'.missed = Missed /\ walk'.stage = walk.stage
      /\ walk'.unread = walk.unread /\ walk'.got = walk.got /\ walk'.tips = walk.tips
      /\ walk'.outside = walk.outside /\ walk'.seen = walk.seen
      /\ walk'.commits = walk.commits /\ walk'.frames = walk.frames
      /\ walk'.pending = walk.pending /\ walk'.here = walk.here /\ walk'.from = walk.from
      /\ walk'.blobs = walk.blobs /\ walk'.seenTrees = walk.seenTrees
      /\ walk'.tags = walk.tags /\ walk'.truncated = walk.truncated
  BY <1>1, <1>2 DEF WalkTyped
<1>10. StoreInv' /\ ~Busy'
  BY <1>1, <1>2, <1>3, HandledKeeps
<1>11. WalkTyped'
  <2> DEFINE q == walk.queue \o new
  <2>1. walk' = [walk EXCEPT !.missed = Missed, !.queue = q] /\ q \in Seq(Oids)
    BY <1>1, <1>7
  <2> HIDE DEF q
  <2> QED
    BY <1>2, <1>8, <2>1 DEF WalkTyped
<1>12. OutsideIsBehind'
  <2>1. walk.outside \cap Commits \subseteq Stops /\ Range(walk.queue) \cap Commits \subseteq Stops
    BY <1>1, <1>2 DEF WalkKept, OutsideIsBehind
  <2>2. Range(new) \cap Commits \subseteq Stops
    <3>1. CASE new = <<>>
      BY <3>1, ShortFacts
    <3>2. CASE read.oid \in Commits /\ new = Parents[read.oid]
      <4>1. read.oid \in Stops
        BY <1>4, <2>1, <3>2
      <4>2. job.stop # NoRef /\ Stops = Reach(Values(job.stop), {})
        BY <4>1 DEF Stops
      <4>3. Range(Parents[read.oid]) \ {} \subseteq Reach(Values(job.stop), {})
        BY <4>1, <4>2, ReachFacts
      <4> QED
        BY <3>2, <4>2, <4>3
    <3> QED
      BY <1>5, <3>1, <3>2
  <2>3. Stops' = Stops
    BY <1>3 DEF Stops
  <2> QED
    BY <1>7, <1>9, <2>1, <2>2, <2>3 DEF OutsideIsBehind
<1>13. WalkKept'
  <2>1. IsFiniteSet(walk.outside) /\ Cardinality(walk.outside) <= job.max.stops
    BY <1>2 DEF WalkKept, InCaps
  <2> QED
    BY <1>1, <1>2, <1>3, <1>4, <1>9, <1>10, <1>11, <1>12, <2>1, EarlyKeeps
<1>14. RefsGiven'
  BY <1>1, <1>2, <1>3, <1>9, NoRefAsked
<1> QED
  BY <1>3, <1>10, <1>13, <1>14 DEF WalkInv

LEMMA StopEndKeeps == ASSUME WalkInv, StopEnd PROVE WalkInv'
<1>1. /\ walk.stage = "stop" /\ read.at = "idle" /\ walk.queue = <<>> /\ Disk /\ NoRead
      /\ \E o \in SetToSeqs(walk.tips) : walk' = [walk EXCEPT !.stage = "commits", !.queue = o]
  BY DEF StopEnd, InStage, Ready
<1>2. WalkTyped /\ RefsStand /\ RefsGiven /\ job \in Jobs /\ WalkKept /\ StoreInv /\ ~Busy
  BY <1>1 DEF WalkInv, WalkKept, Busy
<1>3. PICK o : o \in SetToSeqs(walk.tips) /\ walk' = [walk EXCEPT !.stage = "commits", !.queue = o]
  BY <1>1, Zenon
<1>4. o \in Seq(Oids) /\ Range(o) = walk.tips
  <2>1. walk.tips \subseteq Oids
    BY <1>2 DEF WalkTyped
  <2>2. IsFiniteSet(walk.tips)
    BY <2>1, CommitFacts, FS_Subset
  <2>3. o \in Seq(walk.tips) /\ Range(o) = walk.tips
    BY <1>3, <2>2, OrderFacts
  <2> QED
    BY <2>1, <2>3
<1>5. /\ walk'.stage = "commits" /\ walk'.queue = o /\ walk'.unread = walk.unread
      /\ walk'.got = walk.got /\ walk'.tips = walk.tips /\ walk'.outside = walk.outside
      /\ walk'.seen = walk.seen /\ walk'.commits = walk.commits /\ walk'.frames = walk.frames
      /\ walk'.pending = walk.pending /\ walk'.here = walk.here /\ walk'.from = walk.from
      /\ walk'.blobs = walk.blobs /\ walk'.seenTrees = walk.seenTrees
      /\ walk'.tags = walk.tags /\ walk'.truncated = walk.truncated
      /\ walk'.missed = walk.missed
  BY <1>2, <1>3 DEF WalkTyped
<1>6. StoreInv' /\ Busy' = Busy /\ read' = read /\ RefsStand' /\ job' = job
  BY <1>1, <1>2, DiskKeeps, NoReadKeeps
<1>7. RefsGiven'
  BY <1>1, <1>2, <1>5, <1>6, NoRefAsked
<1>8. WalkTyped'
  BY <1>2, <1>3, <1>4 DEF WalkTyped, Stages
<1>9. WalkKept'
  <2>1. /\ walk.seen = {} /\ walk.commits = <<>> /\ walk.frames = <<>> /\ walk.pending = <<>>
        /\ walk.here = <<>> /\ walk.from = 0 /\ walk.blobs = <<>> /\ walk.seenTrees = {}
        /\ ~walk.truncated
    BY <1>1, <1>2, EarlyFacts
  <2>2. IsFiniteSet(walk.outside) /\ Cardinality(walk.outside) <= job.max.stops
    BY <1>2 DEF WalkKept, InCaps
  <2>3. OutsideIsBehind'
    BY <1>2, <1>5, <1>6 DEF WalkKept, OutsideIsBehind, Stops
  <2>4. NoneForgotten' /\ TagsKept'
    <3>1. Walked' = {} /\ walk'.tips \cap Commits \subseteq Known'
      BY <1>4, <1>5, <2>1 DEF Walked, Known, InQueue
    <3> QED
      BY <1>5, <3>1 DEF NoneForgotten, TagsKept
  <2> QED
    BY <1>2, <1>5, <1>6, <1>8, <2>1, <2>2, <2>3, <2>4, EarlyKeeps
<1> QED
  BY <1>6, <1>7, <1>9 DEF WalkInv
-----------------------------------------------------------------------------
(* Commits.                                                                  *)

\* Trees whose entries are all dealt with, while nothing waits to be entered.
AllSettled ==
    \A t \in walk.seenTrees \ walk.missed : \A i \in Range(Items[t]) :
       /\ EntryKind(i.mode) = "blob" => i.oid \in Found
       /\ EntryKind(i.mode) = "tree" => i.oid \in walk.seenTrees

LEMMA CommitStage ==
    ASSUME WalkKept, walk.stage = "commits", walk.here = <<>>
    PROVE  /\ walk.pending = <<>> /\ walk.frames = <<>> /\ InFrames = {}
           /\ Busy => read.oid \in walk.seen
           /\ ~Push => walk.blobs = <<>> /\ walk.seenTrees = {}
           /\ ~walk.truncated => AllSettled
<1>1. walk.pending = <<>> /\ walk.frames = <<>>
  BY DEF WalkKept, InOrder
<1>2. InFrames = {}
  BY <1>1 DEF InFrames
<1>3. \A x : <<>> # <<x>>
  BY ShortFacts
<1>4. Busy => read.oid \in walk.seen
  BY <1>1, <1>3 DEF WalkKept, InOrder
<1>5. ~Push => walk.blobs = <<>> /\ walk.seenTrees = {}
  BY DEF WalkKept, InOrder
<1>6. ~walk.truncated => AllSettled
  BY <1>1, <1>2, <1>3 DEF WalkKept, TreesKept, Settled, AllSettled
<1> QED
  BY <1>1, <1>2, <1>4, <1>5, <1>6

\* All trees are settled, and none waits.
LEMMA TreesStill ==
    ASSUME walk'.pending = <<>> \/ ~Busy',
           ~walk'.truncated => AllSettled'
    PROVE  TreesKept'
  BY DEF TreesKept, AllSettled, Settled

\* What is seen only grows, and a walk that was cut short stays so.
LEMMA CutStays ==
    ASSUME WalkTyped, job' = job, job \in Jobs, walk'.truncated = walk.truncated,
           walk.blobs = walk'.blobs, walk.seen \subseteq walk'.seen, walk'.seen \subseteq Oids
    PROVE  Cut => Cut'
<1>1. IsFiniteSet(walk.seen) /\ IsFiniteSet(walk'.seen)
  BY CommitFacts, FS_Subset DEF WalkTyped
<1>2. Cardinality(walk.seen) <= Cardinality(walk'.seen)
  BY <1>1, FS_Subset
<1>3. Cardinality(walk.seen) \in Nat /\ Cardinality(walk'.seen) \in Nat /\ job.max.commits \in Nat
  BY <1>1, FS_CardinalityType, JobFacts
<1> QED
  BY <1>2, <1>3 DEF Cut, Push, Signing

LEMMA CommitNextKeeps == ASSUME WalkInv, CommitNext PROVE WalkInv'
<1> DEFINE c == Head(walk.queue)
           cap == IF job.mode = "signed" THEN Cardinality(walk.seen) + 1 > job.max.commits
                  ELSE IF Push THEN Cardinality(walk.seen) >= job.max.commits
                  ELSE Len(walk.commits) >= job.max.commits
<1>1. /\ walk.stage = "commits" /\ read.at = "idle" /\ walk.queue # <<>> /\ walk.here = <<>> /\ Disk
      /\ IF c \in walk.outside \cup walk.seen
         THEN walk' = [walk EXCEPT !.queue = Tail(@)] /\ NoRead
         ELSE IF cap
         THEN /\ walk' = [walk EXCEPT !.queue = <<>>, !.truncated = job.mode # "signed"]
              /\ NoRead
         ELSE /\ walk' = [walk EXCEPT !.queue = Tail(@), !.seen = @ \cup {c}]
              /\ StartRead(c)
  BY DEF CommitNext, InStage, Ready, Fetches
<1>2. WalkTyped /\ RefsStand /\ RefsGiven /\ job \in Jobs /\ WalkKept /\ StoreInv /\ ~Busy
  BY <1>1 DEF WalkInv, WalkKept, Busy
<1>3. RefsStand' /\ job' = job /\ UNCHANGED store /\ Push' = Push /\ Signing' = Signing /\ Stops' = Stops
  BY <1>1, <1>2, DiskKeeps DEF Push, Signing, Stops
<1>4. /\ walk.pending = <<>> /\ walk.frames = <<>> /\ InFrames = {}
      /\ ~Push => walk.blobs = <<>> /\ walk.seenTrees = {}
      /\ ~walk.truncated => AllSettled
  BY <1>1, <1>2, CommitStage
<1>5. c \in Oids /\ Tail(walk.queue) \in Seq(Oids) /\ Range(walk.queue) = {c} \cup Range(Tail(walk.queue))
  <2>1. walk.queue \in Seq(Oids)
    BY <1>2 DEF WalkTyped
  <2> QED
    BY <1>1, <2>1, TailFacts
<1>6. IsFiniteSet(walk.seen) /\ Cardinality(walk.seen) \in Nat /\ job.max.commits \in Nat
  BY <1>2, CommitFacts, FS_Subset, FS_CardinalityType, JobFacts DEF WalkTyped
<1>7. Walked = (walk.seen \ walk.missed) \cap Commits
  BY <1>2 DEF Walked
<1>8. \A x : <<>> # <<x>>
  BY ShortFacts
<1> HIDE DEF c, cap
<1>9. CASE c \in walk.outside \cup walk.seen
  <2>1. walk' = [walk EXCEPT !.queue = Tail(@)] /\ NoRead
    BY <1>1, <1>9
  <2>2. /\ walk'.queue = Tail(walk.queue) /\ walk'.stage = walk.stage
      /\ walk'.unread = walk.unread /\ walk'.got = walk.got /\ walk'.tips = walk.tips
      /\ walk'.outside = walk.outside /\ walk'.seen = walk.seen
      /\ walk'.commits = walk.commits /\ walk'.frames = walk.frames
      /\ walk'.pending = walk.pending /\ walk'.here = walk.here /\ walk'.from = walk.from
      /\ walk'.blobs = walk.blobs /\ walk'.seenTrees = walk.seenTrees
      /\ walk'.tags = walk.tags /\ walk'.truncated = walk.truncated
      /\ walk'.missed = walk.missed
    BY <1>2, <2>1 DEF WalkTyped
  <2>3. StoreInv' /\ Busy' = Busy /\ read' = read
    BY <1>2, <1>3, <2>1, NoReadKeeps
  <2>4. WalkTyped'
    BY <1>2, <1>5, <2>1 DEF WalkTyped
  <2>5. RefsGiven'
    BY <1>1, <1>2, <1>3, <2>2, NoRefAsked
  <2>6. Known' = Known
    BY <1>1, <1>5, <1>9, <2>2 DEF Known, InQueue
  <2>7. /\ Found' = Found /\ Cut' = Cut /\ Walked' = Walked /\ InFrames' = InFrames /\ Tidy' = Tidy
    BY <1>3, <2>2, <2>3 DEF Found, Cut, Walked, InFrames, Tidy
  <2>8. InCaps' /\ OutsideIsBehind' /\ Sorted' /\ FromHere'
    BY <1>1, <1>2, <1>3, <2>2, <2>3, <2>7 DEF WalkKept, InCaps, OutsideIsBehind, Sorted, FromHere
  <2>9. InOrder'
    BY <1>2, <1>3, <2>2, <2>3 DEF WalkKept, InOrder
  <2>10. NoneForgotten' /\ Listed'
    BY <1>2, <1>3, <2>2, <2>6, <2>7 DEF WalkKept, NoneForgotten, Listed
  <2>11. TreesKept' /\ Emptied'
    BY <1>1, <1>2, <2>2, <2>3, <2>7 DEF WalkKept, TreesKept, Settled, Emptied
  <2>12. IntroIsOldest' /\ TagsKept'
    BY <1>1, <1>2, <1>3, <2>2 DEF WalkKept, IntroIsOldest, TagsKept
  <2> QED
    BY <1>2, <1>3, <2>3, <2>4, <2>5, <2>8, <2>9, <2>10, <2>11, <2>12 DEF WalkInv, WalkKept
<1>10. CASE c \notin walk.outside \cup walk.seen /\ cap
  <2>1. walk' = [walk EXCEPT !.queue = <<>>, !.truncated = job.mode # "signed"] /\ NoRead
    BY <1>1, <1>10
  <2>2. /\ walk'.queue = <<>> /\ walk'.truncated = (job.mode # "signed")
      /\ walk'.stage = walk.stage /\ walk'.unread = walk.unread /\ walk'.got = walk.got
      /\ walk'.tips = walk.tips /\ walk'.outside = walk.outside /\ walk'.seen = walk.seen
      /\ walk'.commits = walk.commits /\ walk'.frames = walk.frames
      /\ walk'.pending = walk.pending /\ walk'.here = walk.here /\ walk'.from = walk.from
      /\ walk'.blobs = walk.blobs /\ walk'.seenTrees = walk.seenTrees
      /\ walk'.tags = walk.tags /\ walk'.missed = walk.missed
    BY <1>2, <2>1 DEF WalkTyped
  <2>3. StoreInv' /\ Busy' = Busy /\ read' = read
    BY <1>2, <1>3, <2>1, NoReadKeeps
  <2>4. WalkTyped'
    BY <1>2, <2>1, ShortFacts DEF WalkTyped
  <2>5. RefsGiven'
    BY <1>1, <1>2, <1>3, <2>2, NoRefAsked
  <2>6. Cut'
    <3>1. CASE job.mode = "signed"
      <4>1. Cardinality(walk.seen) + 1 > job.max.commits
        BY <1>10, <3>1 DEF cap
      <4>2. Cardinality(walk.seen) >= job.max.commits
        BY <1>6, <4>1
      <4> QED
        BY <1>3, <2>2, <3>1, <4>2 DEF Cut, Signing
    <3>2. CASE job.mode # "signed"
      <4>1. walk'.truncated
        BY <2>2, <3>2
      <4> QED
        BY <4>1 DEF Cut
    <3> QED
      BY <3>1, <3>2
  <2>7. /\ Found' = Found /\ Walked' = Walked /\ InFrames' = InFrames
    BY <1>3, <2>2, <2>3 DEF Found, Walked, InFrames
  <2>8. InCaps' /\ OutsideIsBehind' /\ Sorted' /\ FromHere' /\ Emptied'
    BY <1>1, <1>2, <1>3, <2>2, <2>3, <2>7
    DEF WalkKept, InCaps, OutsideIsBehind, Sorted, FromHere, Emptied
  <2>9. InOrder'
    <3>1. Signing' => ~walk'.truncated
      BY <1>3, <2>2 DEF Signing
    <3> QED
      BY <1>1, <1>2, <1>3, <2>2, <2>3, <3>1 DEF WalkKept, InOrder
  <2>10. NoneForgotten' /\ Listed'
    BY <1>1, <1>2, <1>3, <2>2, <2>6, <2>7 DEF WalkKept, NoneForgotten, Listed
  <2>11. TreesKept'
    <3>1. walk'.truncated \/ walk'.seenTrees = {}
      BY <1>2, <2>2 DEF WalkKept, InOrder, Signing
    <3> QED
      BY <3>1 DEF TreesKept
  <2>12. IntroIsOldest' /\ TagsKept'
    BY <1>1, <1>3, <1>4, <2>2, ShortFacts DEF IntroIsOldest, TagsKept
  <2> QED
    BY <1>2, <1>3, <2>3, <2>4, <2>5, <2>8, <2>9, <2>10, <2>11, <2>12 DEF WalkInv, WalkKept
<1>11. CASE c \notin walk.outside \cup walk.seen /\ ~cap
  <2>1. walk' = [walk EXCEPT !.queue = Tail(@), !.seen = @ \cup {c}] /\ StartRead(c)
    BY <1>1, <1>11
  <2>2. /\ walk'.queue = Tail(walk.queue) /\ walk'.seen = walk.seen \cup {c}
      /\ walk'.stage = walk.stage /\ walk'.unread = walk.unread /\ walk'.got = walk.got
      /\ walk'.tips = walk.tips /\ walk'.outside = walk.outside
      /\ walk'.commits = walk.commits /\ walk'.frames = walk.frames
      /\ walk'.pending = walk.pending /\ walk'.here = walk.here /\ walk'.from = walk.from
      /\ walk'.blobs = walk.blobs /\ walk'.seenTrees = walk.seenTrees
      /\ walk'.tags = walk.tags /\ walk'.truncated = walk.truncated
      /\ walk'.missed = walk.missed
    BY <1>2, <2>1 DEF WalkTyped
  <2>3. StoreInv' /\ Busy' /\ read'.oid = c
    BY <1>2, <1>3, <1>5, <2>1, StartKeeps
  <2>4. WalkTyped'
    BY <1>2, <1>5, <2>1 DEF WalkTyped
  <2>5. RefsGiven'
    BY <1>1, <1>2, <1>3, <2>2, NoRefAsked
  <2>6. Known' = Known
    BY <1>1, <1>5, <2>2 DEF Known, InQueue
  <2>7. Walked' = Walked
    BY <1>1, <1>7, <1>11, <2>2, <2>3 DEF Walked
  <2>8. /\ Found' = Found /\ InFrames' = InFrames /\ Tidy' = Tidy
    BY <1>3, <2>2 DEF Found, InFrames, Tidy
  <2>9. Cut => Cut'
    <3>1. walk'.seen \subseteq Oids /\ walk.seen \subseteq walk'.seen
      BY <1>2, <1>5, <2>2 DEF WalkTyped
    <3> QED
      BY <1>2, <1>3, <2>2, <3>1, CutStays
  <2>10. InCaps' /\ OutsideIsBehind' /\ Sorted' /\ FromHere' /\ Emptied'
    BY <1>1, <1>2, <1>3, <1>4, <2>2, <2>8
    DEF WalkKept, InCaps, OutsideIsBehind, Sorted, FromHere, Emptied
  <2>11. InOrder'
    BY <1>1, <1>2, <1>3, <1>4, <2>2, <2>3 DEF WalkKept, InOrder
  <2>12. NoneForgotten' /\ Listed'
    BY <1>1, <1>2, <1>3, <1>4, <2>2, <2>6, <2>7, <2>9 DEF WalkKept, NoneForgotten, Listed
  <2>13. TreesKept'
    <3>1. ~walk'.truncated => AllSettled'
      BY <1>4, <2>2, <2>8 DEF AllSettled
    <3> QED
      BY <1>4, <2>2, <3>1, TreesStill
  <2>14. IntroIsOldest' /\ TagsKept'
    BY <1>1, <1>3, <1>4, <2>2, ShortFacts DEF IntroIsOldest, TagsKept
  <2> QED
    BY <1>2, <1>3, <2>3, <2>4, <2>5, <2>10, <2>11, <2>12, <2>13, <2>14 DEF WalkInv, WalkKept
<1> QED
  BY <1>9, <1>10, <1>11

LEMMA CommitGotKeeps == ASSUME WalkInv, CommitGot PROVE WalkInv'
<1> DEFINE c == read.oid
           ok == ReadAs("commit")
           commits == IF ok THEN Append(walk.commits, c) ELSE walk.commits
           met == IF job.mode = "signed" THEN {} ELSE walk.outside \cup walk.seen
           queue == IF ok /\ ~Push THEN walk.queue \o NewParents(c, met) ELSE walk.queue
           here == IF ok /\ Push THEN <<c>> ELSE walk.here
           pending == IF ok /\ Push THEN <<RootTree[c]>> ELSE walk.pending
<1>1. /\ walk.stage = "commits" /\ read.at = "done" /\ walk.here = <<>> /\ Disk /\ Handled
      /\ walk' = [walk EXCEPT !.missed = Missed, !.commits = commits, !.queue = queue,
                              !.here = here, !.pending = pending]
  BY DEF CommitGot, InStage, Answered
<1>2. /\ WalkTyped /\ RefsStand /\ RefsGiven /\ job \in Jobs /\ WalkKept /\ StoreInv /\ Busy
      /\ c \in Oids
  BY <1>1 DEF WalkInv, WalkKept, Busy, StoreInv, ReadTyped
<1>3. /\ RefsStand' /\ job' = job /\ UNCHANGED store
      /\ Push' = Push /\ Signing' = Signing /\ Stops' = Stops
  BY <1>1, <1>2, DiskKeeps DEF Push, Signing, Stops
<1>4. /\ walk.pending = <<>> /\ walk.frames = <<>> /\ InFrames = {} /\ c \in walk.seen
      /\ ~Push => walk.blobs = <<>> /\ walk.seenTrees = {}
      /\ ~walk.truncated => AllSettled
  BY <1>1, <1>2, CommitStage
<1>5. (ok => c \in Commits) /\ (ok \in BOOLEAN) /\ (c \in Commits /\ c \notin Missed => ok)
  BY <1>2 DEF ReadAs, Commits, Missed, StoreInv, ReadTyped
<1>6. Missed \subseteq Oids /\ walk.missed \subseteq Missed /\ Missed \subseteq walk.missed \cup {c}
  BY <1>2 DEF Missed, WalkTyped
<1> HIDE DEF ok
<1>7. /\ commits \in Seq(Commits) /\ Range(walk.commits) \subseteq Range(commits)
      /\ Range(commits) \subseteq Range(walk.commits) \cup {c} /\ (ok => c \in Range(commits))
  <2>1. walk.commits \in Seq(Commits)
    BY <1>2 DEF WalkTyped
  <2>2. CASE ok
    <3>1. Append(walk.commits, c) \in Seq(Commits)
          /\ Range(Append(walk.commits, c)) = Range(walk.commits) \cup {c}
      BY <1>5, <2>1, <2>2, AddedFacts
    <3> QED
      BY <2>2, <3>1
  <2> QED
    BY <2>1, <2>2
<1>8. /\ queue \in Seq(Oids) /\ Range(walk.queue) \subseteq Range(queue)
      /\ ok /\ ~Push => Range(Parents[c]) \subseteq walk.outside \cup walk.seen \cup Range(queue)
  <2>1. walk.queue \in Seq(Oids)
    BY <1>2 DEF WalkTyped
  <2>2. CASE ok /\ ~Push
    <3>1. NewParents(c, met) \in Seq(Commits)
          /\ Range(NewParents(c, met)) = Range(Parents[c]) \ met
      BY <1>5, <2>2, NewParentsFacts
    <3>2. NewParents(c, met) \in Seq(Oids)
      BY <3>1, CommitFacts
    <3> DEFINE new == NewParents(c, met)
    <3>4. met \subseteq walk.outside \cup walk.seen
      OBVIOUS
    <3>5. new \in Seq(Oids) /\ Range(new) = Range(Parents[c]) \ met
      BY <3>1, <3>2
    <3>6. queue = walk.queue \o new
      BY <2>2
    <3> HIDE DEF met, new, queue
    <3>3. walk.queue \o new \in Seq(Oids)
          /\ Range(walk.queue \o new) = Range(walk.queue) \cup Range(new)
      BY <2>1, <3>5, JoinedFacts
    <3> QED
      BY <2>2, <3>3, <3>4, <3>5, <3>6
  <2> QED
    BY <2>1, <2>2
<1>9. here \in Seq(Commits) /\ pending \in Seq(Trees)
      /\ (ok /\ Push => here = <<c>> /\ pending = <<RootTree[c]>>)
      /\ (~(ok /\ Push) => here = <<>> /\ pending = <<>>)
  BY <1>1, <1>4, <1>5, CommitFacts, ShortFacts
<1> HIDE DEF commits, queue, here, pending, met
<1>10. /\ walk'.missed = Missed /\ walk'.commits = commits /\ walk'.queue = queue
      /\ walk'.here = here /\ walk'.pending = pending /\ walk'.stage = walk.stage
      /\ walk'.unread = walk.unread /\ walk'.got = walk.got /\ walk'.tips = walk.tips
      /\ walk'.outside = walk.outside /\ walk'.seen = walk.seen /\ walk'.frames = walk.frames
      /\ walk'.from = walk.from /\ walk'.blobs = walk.blobs
      /\ walk'.seenTrees = walk.seenTrees /\ walk'.tags = walk.tags
      /\ walk'.truncated = walk.truncated
  BY <1>1, <1>2 DEF WalkTyped
<1>11. StoreInv' /\ ~Busy'
  BY <1>1, <1>2, <1>3, HandledKeeps
<1>12. WalkTyped'
  BY <1>1, <1>2, <1>6, <1>7, <1>8, <1>9 DEF WalkTyped
<1>13. RefsGiven'
  BY <1>1, <1>2, <1>3, <1>10, NoRefAsked
<1>14. \A x : <<>> # <<x>> /\ <<x>>[1] = x
  BY ShortFacts
<1>15. Walked' \subseteq Commits /\ \A x \in Walked' : x \in Walked \/ (x = c /\ ok)
  <2>1. \A x \in Walked' : x \in (walk.seen \ Missed) \cap Commits
    BY <1>10 DEF Walked
  <2>2. \A x \in (walk.seen \ Missed) \cap Commits : x # c => x \in Walked
    BY <1>6 DEF Walked
  <2> QED
    BY <1>5, <2>1, <2>2
<1>16. Known \subseteq Known' /\ Cut' = Cut /\ Found' = Found /\ InFrames' = {}
  BY <1>1, <1>3, <1>4, <1>8, <1>10 DEF Known, InQueue, Cut, Found, InFrames
<1>17. NoneForgotten'
  <2> SUFFICES ASSUME ~Cut'
               PROVE  /\ walk'.tips \cap Commits \subseteq Known'
                      /\ \A x \in Walked' : \/ Range(Parents[x]) \subseteq Known'
                                            \/ (Push' /\ walk'.here = <<x>>)
    BY DEF NoneForgotten
  <2>1. /\ walk.tips \cap Commits \subseteq Known
        /\ \A x \in Walked : Range(Parents[x]) \subseteq Known \/ (Push /\ walk.here = <<x>>)
    BY <1>1, <1>2, <1>16 DEF WalkKept, NoneForgotten
  <2>2. ok /\ ~Push => Range(Parents[c]) \subseteq Known'
    BY <1>1, <1>8, <1>10 DEF Known, InQueue
  <2> QED
    BY <1>1, <1>3, <1>9, <1>10, <1>14, <1>15, <1>16, <2>1, <2>2
<1>18. Listed'
  <2>1. ~Push => Walked' \subseteq Range(walk'.commits)
    BY <1>1, <1>2, <1>7, <1>10, <1>15 DEF WalkKept, Listed
  <2>2. ASSUME ~Cut, ~Signing, NEW x \in Walked'
        PROVE  \/ RootTree[x] \in walk'.seenTrees
               \/ walk'.pending = <<RootTree[x]>>
               \/ (~Push /\ x \in Range(walk'.commits))
    <3>1. CASE x \in Walked
      BY <1>2, <1>4, <1>7, <1>10, <1>14, <2>2, <3>1 DEF WalkKept, Listed
    <3>2. CASE x = c /\ ok
      BY <1>7, <1>9, <1>10, <3>2
    <3> QED
      BY <1>15, <3>1, <3>2
  <2> QED
    BY <1>3, <1>16, <2>1, <2>2 DEF Listed
<1>19. InOrder'
  BY <1>1, <1>2, <1>3, <1>4, <1>7, <1>9, <1>10, <1>11, <1>14 DEF WalkKept, InOrder
<1>20. InCaps' /\ OutsideIsBehind' /\ Sorted' /\ FromHere' /\ Emptied'
  BY <1>1, <1>2, <1>3, <1>9, <1>10, <1>11
  DEF WalkKept, InCaps, OutsideIsBehind, Sorted, FromHere, Emptied, Tidy
<1>21. TreesKept'
  <2>1. ~walk'.truncated => AllSettled'
    BY <1>4, <1>6, <1>10, <1>16 DEF AllSettled
  <2> QED
    BY <1>11, <2>1, TreesStill
<1>22. IntroIsOldest' /\ TagsKept'
  BY <1>1, <1>3, <1>4, <1>10, ShortFacts DEF IntroIsOldest, TagsKept
<1> QED
  BY <1>2, <1>3, <1>11, <1>12, <1>13, <1>17, <1>18, <1>19, <1>20, <1>21, <1>22 DEF WalkInv, WalkKept
\* A tree, or a commit's tree, is in hand.
LEMMA HereFacts ==
    ASSUME WalkKept, walk.here # <<>>
    PROVE  /\ walk.here = <<walk.here[1]>> /\ walk.here[1] \in walk.seen /\ walk.here[1] \in Commits
           /\ ~Signing /\ walk.stage = IF Push THEN "commits" ELSE "trees"
           /\ Walked = (walk.seen \ walk.missed) \cap Commits
           /\ Busy => walk.pending = <<read.oid>> /\ read.oid \in walk.seenTrees
           /\ walk.pending # <<>> =>
                /\ walk.pending = <<walk.pending[1]>> /\ walk.pending[1] \in Trees
                /\ Range(walk.pending) = {walk.pending[1]}
<1>1. /\ walk.here = <<walk.here[1]>> /\ walk.here[1] \in walk.seen
      /\ walk.stage = IF Push THEN "commits" ELSE "trees"
      /\ ~Signing
  BY DEF WalkKept, InOrder, Push, Signing
<1>2. walk.here[1] \in Commits /\ (walk.pending # <<>> => walk.pending[1] \in Trees)
  BY <1>1 DEF WalkKept, WalkTyped, InOrder
<1>3. walk.pending # <<>> => walk.pending = <<walk.pending[1]>>
  BY DEF WalkKept, InOrder
<1>4. Range(<<walk.pending[1]>>) = {walk.pending[1]}
  BY ShortFacts
<1>5. Walked = (walk.seen \ walk.missed) \cap Commits
  BY DEF Walked
<1>6. Busy => walk.pending = <<read.oid>> /\ read.oid \in walk.seenTrees
  BY <1>1 DEF WalkKept, InOrder
<1> QED
  BY <1>1, <1>2, <1>3, <1>4, <1>5, <1>6

\* Nothing of a tree is left to do.
LEMMA TreeDone ==
    ASSUME WalkKept, walk.pending = <<>>, walk.frames = <<>>
    PROVE  InFrames = {} /\ (~walk.truncated => AllSettled)
<1>1. InFrames = {}
  BY DEF InFrames
<1>2. \A x : <<>> # <<x>>
  BY ShortFacts
<1> QED
  BY <1>1, <1>2 DEF WalkKept, TreesKept, Settled, AllSettled

\* When every tree is settled, all blobs below the trees entered are found.
LEMMA AllGathered ==
    ASSUME WalkTyped, AllSettled, NEW trees, trees \ walk.missed \subseteq walk.seenTrees
    PROVE  Under(trees, walk.missed) \subseteq Found
<1> DEFINE S == walk.seenTrees \ walk.missed
<1>1. S \in SUBSET Trees
  BY DEF WalkTyped
<1>2. \A t \in S : Named(t, "tree") \subseteq walk.seenTrees /\ Named(t, "blob") \subseteq Found
  BY DEF AllSettled, Named
<1> HIDE DEF S
<1>3. trees \ walk.missed \subseteq S /\ \A t \in S : Named(t, "tree") \ walk.missed \subseteq S
  BY <1>2 DEF S
<1>4. Below(trees, walk.missed) \subseteq S
  BY <1>1, <1>3, BelowLeast
<1> QED
  BY <1>2, <1>4 DEF Under

LEMMA PushTreeEndKeeps == ASSUME WalkInv, PushTreeEnd PROVE WalkInv'
<1> DEFINE c == walk.here[1]
           new == NewParents(c, walk.outside)
           full == Len(walk.blobs) >= job.max.blobs
           queue == IF full THEN <<>> ELSE walk.queue \o new
<1>1. /\ walk.stage = "commits" /\ read.at = "idle" /\ walk.here # <<>> /\ walk.pending = <<>>
      /\ walk.frames = <<>> /\ Disk /\ NoRead
      /\ walk' = [walk EXCEPT !.here = <<>>, !.queue = queue]
  BY DEF PushTreeEnd, InStage, TreeOver, Ready
<1>2. WalkTyped /\ RefsStand /\ RefsGiven /\ job \in Jobs /\ WalkKept /\ StoreInv /\ ~Busy
  BY <1>1 DEF WalkInv, WalkKept, Busy
<1>3. /\ RefsStand' /\ job' = job /\ UNCHANGED store
      /\ Push' = Push /\ Signing' = Signing /\ Stops' = Stops
  BY <1>1, <1>2, DiskKeeps DEF Push, Signing, Stops
<1>4. /\ walk.here = <<c>> /\ c \in walk.seen /\ c \in Commits /\ ~Signing /\ Push
      /\ Walked = (walk.seen \ walk.missed) \cap Commits
  BY <1>1, <1>2, HereFacts
<1>5. InFrames = {} /\ (~walk.truncated => AllSettled)
  BY <1>1, <1>2, TreeDone
<1>6. /\ new \in Seq(Oids) /\ Range(new) = Range(Parents[c]) \ walk.outside
  <2>1. new \in Seq(Commits) /\ Range(new) = Range(Parents[c]) \ walk.outside
    BY <1>4, NewParentsFacts
  <2> QED
    BY <2>1, CommitFacts
<1> HIDE DEF new, c, full
<1>7. /\ queue \in Seq(Oids)
      /\ ~full => Range(walk.queue) \subseteq Range(queue)
                  /\ Range(Parents[c]) \subseteq walk.outside \cup Range(queue)
  <2>1. walk.queue \in Seq(Oids)
    BY <1>2 DEF WalkTyped
  <2>2. walk.queue \o new \in Seq(Oids)
        /\ Range(walk.queue \o new) = Range(walk.queue) \cup Range(new)
    BY <1>6, <2>1, JoinedFacts
  <2>3. CASE full
    BY <2>3, ShortFacts
  <2>4. CASE ~full
    BY <1>6, <2>2, <2>4
  <2> QED
    BY <2>3, <2>4
<1> HIDE DEF queue
<1>8. /\ walk'.here = <<>> /\ walk'.queue = queue /\ walk'.stage = walk.stage
      /\ walk'.unread = walk.unread /\ walk'.got = walk.got /\ walk'.tips = walk.tips
      /\ walk'.outside = walk.outside /\ walk'.seen = walk.seen
      /\ walk'.commits = walk.commits /\ walk'.frames = walk.frames
      /\ walk'.pending = walk.pending /\ walk'.from = walk.from /\ walk'.blobs = walk.blobs
      /\ walk'.seenTrees = walk.seenTrees /\ walk'.tags = walk.tags
      /\ walk'.truncated = walk.truncated /\ walk'.missed = walk.missed
  BY <1>1, <1>2 DEF WalkTyped
<1>9. StoreInv' /\ ~Busy'
  BY <1>1, <1>2, <1>3, NoReadKeeps
<1>10. WalkTyped'
  BY <1>1, <1>2, <1>7, ShortFacts DEF WalkTyped
<1>11. RefsGiven'
  BY <1>1, <1>2, <1>3, <1>8, NoRefAsked
<1>12. Cut' = Cut /\ Found' = Found /\ InFrames' = {} /\ Walked' = Walked
  BY <1>2, <1>3, <1>5, <1>8, <1>9 DEF Cut, Found, InFrames, Walked
<1>13. full => Cut
  BY <1>4 DEF Cut, full
<1>14. ~Cut => Known \subseteq Known' /\ Range(Parents[c]) \subseteq Known'
  BY <1>1, <1>7, <1>8, <1>13 DEF Known, InQueue
<1>15. \A x : <<x>>[1] = x
  BY ShortFacts
<1>16. NoneForgotten'
  <2> SUFFICES ASSUME ~Cut'
               PROVE  /\ walk'.tips \cap Commits \subseteq Known'
                      /\ \A x \in Walked' : Range(Parents[x]) \subseteq Known'
    BY DEF NoneForgotten
  <2>1. /\ walk.tips \cap Commits \subseteq Known
        /\ \A x \in Walked : Range(Parents[x]) \subseteq Known \/ (Push /\ walk.here = <<x>>)
    BY <1>1, <1>2, <1>12 DEF WalkKept, NoneForgotten
  <2>2. \A x : walk.here = <<x>> => x = c
    BY <1>4, <1>15
  <2> QED
    BY <1>8, <1>12, <1>14, <2>1, <2>2
<1>17. InOrder' /\ Listed'
  BY <1>1, <1>2, <1>3, <1>4, <1>8, <1>9, <1>12 DEF WalkKept, InOrder, Listed
<1>18. InCaps' /\ OutsideIsBehind' /\ Sorted' /\ FromHere' /\ Emptied'
  BY <1>1, <1>2, <1>3, <1>8, <1>9 DEF WalkKept, InCaps, OutsideIsBehind, Sorted, FromHere, Emptied
<1>19. TreesKept'
  <2>1. ~walk'.truncated => AllSettled'
    BY <1>5, <1>8, <1>12 DEF AllSettled
  <2> QED
    BY <1>9, <2>1, TreesStill
<1>20. IntroIsOldest' /\ TagsKept'
  BY <1>1, <1>3, <1>4, <1>8 DEF IntroIsOldest, TagsKept
<1> QED
  BY <1>2, <1>3, <1>9, <1>10, <1>11, <1>16, <1>17, <1>18, <1>19, <1>20 DEF WalkInv, WalkKept

LEMMA CommitsEndKeeps == ASSUME WalkInv, CommitsEnd PROVE WalkInv'
<1> DEFINE next == CASE Push -> "done" [] job.mode = "signed" -> "tagrefs" [] OTHER -> "trees"
           refsLeft == IF job.mode = "signed" THEN Tags ELSE {}
<1>1. /\ walk.stage = "commits" /\ read.at = "idle" /\ walk.here = <<>> /\ walk.queue = <<>>
      /\ Disk /\ NoRead
      /\ \E o \in SetToSeqs(Range(walk.commits)) :
           /\ \A i, j \in DOMAIN o : i < j => Older(o[i], o[j])
           /\ walk' = [walk EXCEPT !.stage = next, !.unread = refsLeft, !.commits = o]
  BY DEF CommitsEnd, InStage, Ready
<1>2. WalkTyped /\ RefsStand /\ RefsGiven /\ job \in Jobs /\ WalkKept /\ StoreInv /\ ~Busy
  BY <1>1 DEF WalkInv, WalkKept, Busy
<1>3. /\ RefsStand' /\ job' = job /\ UNCHANGED store
      /\ Push' = Push /\ Signing' = Signing /\ Stops' = Stops
  BY <1>1, <1>2, DiskKeeps DEF Push, Signing, Stops
<1>4. /\ walk.pending = <<>> /\ walk.frames = <<>> /\ InFrames = {}
      /\ ~Push => walk.blobs = <<>> /\ walk.seenTrees = {}
      /\ ~walk.truncated => AllSettled
  BY <1>1, <1>2, CommitStage
<1>5. /\ next = IF Push THEN "done" ELSE IF Signing THEN "tagrefs" ELSE "trees"
      /\ refsLeft = (IF Signing THEN Tags ELSE {}) /\ ~(Push /\ Signing)
  BY DEF Push, Signing
<1> HIDE DEF next, refsLeft
<1>6. PICK o : /\ o \in SetToSeqs(Range(walk.commits))
               /\ \A i, j \in DOMAIN o : i < j => Older(o[i], o[j])
               /\ walk' = [walk EXCEPT !.stage = next, !.unread = refsLeft, !.commits = o]
  BY <1>1, Zenon
<1>7. o \in Seq(Commits) /\ Range(o) = Range(walk.commits)
  <2>1. walk.commits \in Seq(Commits)
    BY <1>2 DEF WalkTyped
  <2>2. Range(walk.commits) \subseteq Commits
    BY <2>1, RangeIn
  <2>3. IsFiniteSet(Range(walk.commits))
    BY <2>2, CommitFacts, FS_Subset
  <2>4. o \in Seq(Range(walk.commits)) /\ Range(o) = Range(walk.commits)
    BY <1>6, <2>3, OrderFacts
  <2> QED
    BY <2>2, <2>4
<1>8. /\ walk'.stage = next /\ walk'.unread = refsLeft /\ walk'.commits = o
      /\ walk'.got = walk.got /\ walk'.tips = walk.tips /\ walk'.queue = walk.queue
      /\ walk'.outside = walk.outside /\ walk'.seen = walk.seen /\ walk'.frames = walk.frames
      /\ walk'.pending = walk.pending /\ walk'.here = walk.here /\ walk'.from = walk.from
      /\ walk'.blobs = walk.blobs /\ walk'.seenTrees = walk.seenTrees
      /\ walk'.tags = walk.tags /\ walk'.truncated = walk.truncated
      /\ walk'.missed = walk.missed
  BY <1>2, <1>6 DEF WalkTyped
<1>9. StoreInv' /\ ~Busy' /\ Busy' = Busy
  BY <1>1, <1>2, <1>3, NoReadKeeps
<1>10. WalkTyped'
  <2>1. next \in Stages /\ refsLeft \in SUBSET RefNames
    BY <1>2, <1>5, JobFacts DEF Stages
  <2> QED
    BY <1>2, <1>6, <1>7, <2>1 DEF WalkTyped
<1>11. RefsGiven'
  <2>1. Asked' = refsLeft
    BY <1>3, <1>5, <1>8 DEF Asked
  <2>2. walk.got = {}
    BY <1>1, <1>2 DEF RefsGiven, Asked
  <2>3. EveryRefIsATip'
    BY <1>1, <1>2, <1>3, <1>8 DEF RefsGiven, EveryRefIsATip
  <2> QED
    BY <1>5, <1>8, <2>1, <2>2, <2>3 DEF RefsGiven
<1>12. Cut' = Cut /\ Found' = Found /\ InFrames' = {} /\ Walked' = Walked /\ Known' = Known
  <2>1. Range(walk.queue) = {}
    BY <1>1, ShortFacts
  <2>2. InQueue = {} /\ InQueue' = {}
    BY <1>1, <1>5, <1>8, <2>1 DEF InQueue
  <2>3. Walked = (walk.seen \ walk.missed) \cap Commits /\ Walked' = Walked
    BY <1>2, <1>8, <1>9 DEF Walked
  <2> QED
    BY <1>2, <1>3, <1>4, <1>8, <2>2, <2>3 DEF Cut, Found, InFrames, Known
<1>13. NoneForgotten'
  BY <1>1, <1>2, <1>3, <1>8, <1>12 DEF WalkKept, NoneForgotten
<1>14. ~Push => Walked \subseteq Range(walk.commits)
  BY <1>1, <1>2 DEF WalkKept, Listed
<1>15. Listed'
  <2>1. ~Push' => Walked' \subseteq Range(walk'.commits)
    BY <1>3, <1>7, <1>8, <1>12, <1>14
  <2>2. ASSUME ~Cut', ~Signing', NEW x \in Walked'
        PROVE  \/ RootTree[x] \in walk'.seenTrees
               \/ walk'.pending = <<RootTree[x]>>
               \/ (~Push' /\ x \in Range(walk'.commits))
    BY <1>2, <1>3, <1>7, <1>8, <1>12, <2>2 DEF WalkKept, Listed
  <2> QED
    BY <2>1, <2>2 DEF Listed
<1>16. InOrder'
  BY <1>1, <1>2, <1>3, <1>4, <1>5, <1>7, <1>8, <1>9 DEF WalkKept, InOrder
<1>17. InCaps' /\ OutsideIsBehind' /\ FromHere'
  BY <1>1, <1>2, <1>3, <1>5, <1>8, <1>9 DEF WalkKept, InCaps, OutsideIsBehind, FromHere
<1>18. Sorted'
  BY <1>1, <1>6, <1>8 DEF Sorted, Older
<1>19. Emptied'
  <2>1. Tidy' /\ walk'.stage = "trees" => walk.seen \cap Commits \subseteq Range(walk'.commits)
    BY <1>2, <1>3, <1>7, <1>8, <1>14 DEF Tidy, Walked
  <2> QED
    BY <1>8, <2>1 DEF Emptied
<1>20. TreesKept'
  <2>1. ~walk'.truncated => AllSettled'
    BY <1>4, <1>8, <1>12 DEF AllSettled
  <2> QED
    BY <1>9, <2>1, TreesStill
<1>21. IntroIsOldest' /\ TagsKept'
  BY <1>3, <1>4, <1>5, <1>8, ShortFacts DEF IntroIsOldest, TagsKept
<1> QED
  BY <1>2, <1>3, <1>9, <1>10, <1>11, <1>13, <1>15, <1>16, <1>17, <1>18, <1>19, <1>20, <1>21
  DEF WalkInv, WalkKept

LEMMA IntroNextKeeps == ASSUME WalkInv, IntroNext PROVE WalkInv'
<1> DEFINE over == walk.commits = <<>> \/ Len(walk.blobs) >= job.max.intros
           c == Head(walk.commits)
<1>1. /\ walk.stage = "trees" /\ read.at = "idle" /\ walk.here = <<>> /\ Disk /\ NoRead
      /\ IF over
         THEN walk' = [walk EXCEPT !.stage = "done",
                         !.truncated = @ \/ walk.commits # <<>>, !.commits = <<>>]
         ELSE walk' = [walk EXCEPT !.commits = Tail(@), !.here = <<c>>,
                         !.from = Len(walk.blobs), !.pending = <<RootTree[c]>>]
  BY DEF IntroNext, InStage, Ready
<1>2. WalkTyped /\ RefsStand /\ RefsGiven /\ job \in Jobs /\ WalkKept /\ StoreInv /\ ~Busy
  BY <1>1 DEF WalkInv, WalkKept, Busy
<1>3. /\ RefsStand' /\ job' = job /\ UNCHANGED store
      /\ Push' = Push /\ Signing' = Signing /\ Stops' = Stops
  BY <1>1, <1>2, DiskKeeps DEF Push, Signing, Stops
<1>4. walk.pending = <<>> /\ walk.frames = <<>> /\ ~Push /\ ~Signing
  BY <1>1, <1>2 DEF WalkKept, InOrder
<1>5. InFrames = {} /\ (~walk.truncated => AllSettled)
  BY <1>2, <1>4, TreeDone
<1>6. StoreInv' /\ ~Busy'
  BY <1>1, <1>2, <1>3, NoReadKeeps
<1>7. \A x : <<>> # <<x>> /\ <<x>>[1] = x
  BY ShortFacts
<1>8. CASE over
  <2> DEFINE cutoff == walk.truncated \/ walk.commits # <<>>
  <2>1. walk' = [walk EXCEPT !.stage = "done", !.truncated = cutoff, !.commits = <<>>]
    BY <1>1, <1>8
  <2>2. cutoff \in BOOLEAN /\ (cutoff \/ walk.commits = <<>>) /\ (walk.truncated => cutoff)
    BY <1>2 DEF WalkTyped
  <2> HIDE DEF cutoff
  <2>3. /\ walk'.stage = "done" /\ walk'.truncated = cutoff /\ walk'.commits = <<>>
      /\ walk'.unread = walk.unread /\ walk'.got = walk.got /\ walk'.tips = walk.tips
      /\ walk'.queue = walk.queue /\ walk'.outside = walk.outside /\ walk'.seen = walk.seen
      /\ walk'.frames = walk.frames /\ walk'.pending = walk.pending /\ walk'.here = walk.here
      /\ walk'.from = walk.from /\ walk'.blobs = walk.blobs
      /\ walk'.seenTrees = walk.seenTrees /\ walk'.tags = walk.tags
      /\ walk'.missed = walk.missed
    BY <1>2, <2>1 DEF WalkTyped
  <2>4. WalkTyped'
    BY <1>2, <2>1, <2>2, ShortFacts DEF WalkTyped, Stages
  <2>5. RefsGiven'
    BY <1>1, <1>2, <1>3, <2>3, NoRefAsked
  <2>6. Found' = Found /\ InFrames' = {} /\ Walked' = Walked /\ Known' = Known
    <3>1. InQueue = {} /\ InQueue' = {}
      BY <1>1, <2>3 DEF InQueue
    <3>2. InFrames' = InFrames /\ Found' = Found
      BY <2>3 DEF InFrames, Found
    <3>3. Walked' = Walked
      BY <1>2, <1>6, <2>3 DEF Walked
    <3> QED
      BY <1>5, <2>3, <3>1, <3>2, <3>3 DEF Known
  <2>7. ~Cut' => ~Cut /\ walk.commits = <<>>
    BY <1>3, <2>2, <2>3 DEF Cut
  <2>8. NoneForgotten'
    BY <1>1, <1>2, <1>3, <2>3, <2>6, <2>7 DEF WalkKept, NoneForgotten
  <2>9. Listed'
    BY <1>2, <1>3, <1>4, <2>3, <2>6, <2>7 DEF WalkKept, Listed
  <2>10. InOrder'
    BY <1>1, <1>2, <1>3, <1>4, <1>6, <2>3, ShortFacts DEF WalkKept, InOrder
  <2>11. InCaps' /\ OutsideIsBehind' /\ Sorted' /\ FromHere' /\ Emptied'
    BY <1>1, <1>2, <1>3, <1>6, <2>3
    DEF WalkKept, InCaps, OutsideIsBehind, Sorted, FromHere, Emptied
  <2>12. TreesKept'
    <3>1. ~walk'.truncated => AllSettled'
      BY <1>5, <2>2, <2>3, <2>6 DEF AllSettled
    <3> QED
      BY <1>6, <3>1, TreesStill
  <2>13. IntroIsOldest' /\ TagsKept'
    BY <1>2, <1>3, <1>4, <2>2, <2>3 DEF WalkKept, IntroIsOldest, TagsKept
  <2> QED
    BY <1>2, <1>3, <1>6, <2>4, <2>5, <2>8, <2>9, <2>10, <2>11, <2>12, <2>13 DEF WalkInv, WalkKept
<1>9. CASE ~over
  <2>1. walk' = [walk EXCEPT !.commits = Tail(@), !.here = <<c>>,
                             !.from = Len(walk.blobs), !.pending = <<RootTree[c]>>]
    BY <1>1, <1>9
  <2>2. /\ walk.commits \in Seq(Commits) /\ walk.commits # <<>>
        /\ walk.blobs \in Seq([oid : Blobs, commit : Commits])
    BY <1>2, <1>9 DEF WalkTyped
  <2>3. /\ c \in Commits /\ Tail(walk.commits) \in Seq(Commits)
        /\ Range(walk.commits) = {c} \cup Range(Tail(walk.commits))
    BY <2>2, TailFacts
  <2>4. /\ RootTree[c] \in Trees /\ Len(walk.blobs) \in Nat
    BY <2>2, <2>3, CommitFacts
  <2>5. /\ \A i, j \in DOMAIN Tail(walk.commits) : i < j =>
             Older(Tail(walk.commits)[i], Tail(walk.commits)[j])
        /\ \A d \in Range(Tail(walk.commits)) : Older(c, d)
    <3>1. \A i, j \in DOMAIN walk.commits : i < j => Older(walk.commits[i], walk.commits[j])
      BY <1>1, <1>2 DEF WalkKept, Sorted
    <3>2. /\ c = walk.commits[1] /\ Len(walk.commits) \in Nat /\ Len(walk.commits) > 0
          /\ DOMAIN walk.commits = 1..Len(walk.commits)
          /\ DOMAIN Tail(walk.commits) = 1..(Len(walk.commits) - 1)
          /\ \A i \in 1..(Len(walk.commits) - 1) : Tail(walk.commits)[i] = walk.commits[i + 1]
      BY <2>2
    <3>3. \A i \in 1..(Len(walk.commits) - 1) : i + 1 \in 1..Len(walk.commits) /\ 1 < i + 1
      BY <3>2
    <3>4. 1 \in 1..Len(walk.commits)
      BY <3>2
    <3>5. ASSUME NEW i \in DOMAIN Tail(walk.commits), NEW j \in DOMAIN Tail(walk.commits), i < j
          PROVE  Older(Tail(walk.commits)[i], Tail(walk.commits)[j])
      <4>1. i + 1 < j + 1
        BY <3>2, <3>5
      <4> QED
        BY <3>1, <3>2, <3>3, <4>1
    <3>6. ASSUME NEW i \in DOMAIN Tail(walk.commits)
          PROVE  Older(c, Tail(walk.commits)[i])
      BY <3>1, <3>2, <3>3, <3>4
    <3> QED
      BY <3>5, <3>6 DEF Range
  <2> HIDE DEF c
  <2>6. /\ walk'.commits = Tail(walk.commits) /\ walk'.here = <<c>>
      /\ walk'.from = Len(walk.blobs) /\ walk'.pending = <<RootTree[c]>>
      /\ walk'.stage = walk.stage /\ walk'.unread = walk.unread /\ walk'.got = walk.got
      /\ walk'.tips = walk.tips /\ walk'.queue = walk.queue /\ walk'.outside = walk.outside
      /\ walk'.seen = walk.seen /\ walk'.frames = walk.frames /\ walk'.blobs = walk.blobs
      /\ walk'.seenTrees = walk.seenTrees /\ walk'.tags = walk.tags
      /\ walk'.truncated = walk.truncated /\ walk'.missed = walk.missed
    BY <1>2, <2>1 DEF WalkTyped
  <2>7. WalkTyped'
    BY <1>2, <2>1, <2>3, <2>4, ShortFacts DEF WalkTyped
  <2>8. RefsGiven'
    BY <1>1, <1>2, <1>3, <2>6, NoRefAsked
  <2>9. /\ Found' = Found /\ InFrames' = {} /\ Walked' = Walked /\ Known' = Known /\ Cut' = Cut
        /\ Tidy' = Tidy
    <3>1. InQueue = {} /\ InQueue' = {}
      BY <1>1, <2>6 DEF InQueue
    <3>2. InFrames' = InFrames /\ Found' = Found
      BY <2>6 DEF InFrames, Found
    <3>3. Walked' = Walked
      BY <1>2, <1>6, <2>6 DEF Walked
    <3>4. Cut' = Cut /\ Tidy' = Tidy
      BY <1>3, <2>6 DEF Cut, Tidy
    <3> QED
      BY <1>5, <2>6, <3>1, <3>2, <3>3, <3>4 DEF Known
  <2>10. NoneForgotten'
    BY <1>1, <1>2, <1>3, <1>4, <2>6, <2>9 DEF WalkKept, NoneForgotten
  <2>11. Listed'
    <3> SUFFICES ASSUME ~Cut, NEW x \in Walked
                 PROVE  \/ RootTree[x] \in walk'.seenTrees
                        \/ walk'.pending = <<RootTree[x]>>
                        \/ (~Push' /\ x \in Range(walk'.commits))
      BY <1>1, <2>6, <2>9 DEF Listed
    <3>1. RootTree[x] \in walk.seenTrees \/ x \in Range(walk.commits)
      BY <1>2, <1>4, <1>7 DEF WalkKept, Listed
    <3> QED
      BY <1>3, <1>4, <2>3, <2>6, <3>1
  <2>12. InOrder'
    BY <1>1, <1>2, <1>3, <1>4, <1>6, <1>7, <2>3, <2>6 DEF WalkKept, InOrder
  <2>13. InCaps'
    <3>1. Len(walk.blobs) <= Len(walk.blobs) /\ Len(walk.blobs) - Len(walk.blobs) <= job.max.blobs
      BY <1>2, <2>4, JobFacts
    <3> QED
      BY <1>2, <1>3, <1>6, <2>6, <3>1 DEF WalkKept, InCaps
  <2>14. OutsideIsBehind' /\ Emptied'
    <3>1. Range(walk'.here) = {c} /\ Range(walk.here) = {}
      BY <1>1, <2>6, ShortFacts
    <3> QED
      BY <1>1, <1>2, <1>3, <2>3, <2>6, <2>9, <3>1 DEF WalkKept, OutsideIsBehind, Emptied
  <2>15. Sorted'
    BY <1>7, <2>5, <2>6 DEF Sorted, Older
  <2>16. FromHere'
    <3>1. Range(walk'.pending) = {RootTree[c]}
      BY <2>6, ShortFacts
    <3>2. RootTree[c] \in Below({RootTree[c]}, {})
      BY <2>3, HoldsFacts
    <3> QED
      BY <1>7, <2>6, <2>9, <3>1, <3>2 DEF FromHere
  <2>17. TreesKept'
    <3>1. ~walk'.truncated => AllSettled'
      BY <1>5, <2>6, <2>9 DEF AllSettled
    <3> QED
      BY <1>6, <3>1, TreesStill
  <2>18. IntroIsOldest' /\ TagsKept'
    BY <1>2, <1>3, <1>4, <2>6 DEF WalkKept, IntroIsOldest, TagsKept
  <2> QED
    BY <1>2, <1>3, <1>6, <2>7, <2>8, <2>10, <2>11, <2>12, <2>13, <2>14, <2>15, <2>16, <2>17, <2>18
    DEF WalkInv, WalkKept
<1> QED
  BY <1>8, <1>9

LEMMA IntroTreeEndKeeps == ASSUME WalkInv, IntroTreeEnd PROVE WalkInv'
<1> DEFINE c == walk.here[1]
<1>1. /\ walk.stage = "trees" /\ read.at = "idle" /\ walk.here # <<>> /\ walk.pending = <<>>
      /\ walk.frames = <<>> /\ Disk /\ NoRead
      /\ walk' = [walk EXCEPT !.here = <<>>]
  BY DEF IntroTreeEnd, InStage, TreeOver, Ready
<1>2. WalkTyped /\ RefsStand /\ RefsGiven /\ job \in Jobs /\ WalkKept /\ StoreInv /\ ~Busy
  BY <1>1 DEF WalkInv, WalkKept, Busy
<1>3. /\ RefsStand' /\ job' = job /\ UNCHANGED store
      /\ Push' = Push /\ Signing' = Signing /\ Stops' = Stops
  BY <1>1, <1>2, DiskKeeps DEF Push, Signing, Stops
<1>4. /\ walk.here = <<c>> /\ c \in walk.seen /\ c \in Commits /\ ~Signing /\ ~Push
      /\ Walked = (walk.seen \ walk.missed) \cap Commits
  BY <1>1, <1>2, HereFacts
<1>5. InFrames = {} /\ (~walk.truncated => AllSettled)
  BY <1>1, <1>2, TreeDone
<1>6. StoreInv' /\ ~Busy'
  BY <1>1, <1>2, <1>3, NoReadKeeps
<1> HIDE DEF c
<1>7. /\ walk'.here = <<>> /\ walk'.stage = walk.stage /\ walk'.unread = walk.unread
      /\ walk'.got = walk.got /\ walk'.tips = walk.tips /\ walk'.queue = walk.queue
      /\ walk'.outside = walk.outside /\ walk'.seen = walk.seen
      /\ walk'.commits = walk.commits /\ walk'.frames = walk.frames
      /\ walk'.pending = walk.pending /\ walk'.from = walk.from /\ walk'.blobs = walk.blobs
      /\ walk'.seenTrees = walk.seenTrees /\ walk'.tags = walk.tags
      /\ walk'.truncated = walk.truncated /\ walk'.missed = walk.missed
  BY <1>1, <1>2 DEF WalkTyped
<1>8. WalkTyped'
  BY <1>1, <1>2, ShortFacts DEF WalkTyped
<1>9. RefsGiven'
  BY <1>1, <1>2, <1>3, <1>7, NoRefAsked
<1>10. /\ Found' = Found /\ InFrames' = {} /\ Walked' = Walked /\ Known' = Known /\ Cut' = Cut
       /\ Tidy' = Tidy
  BY <1>1, <1>2, <1>3, <1>5, <1>6, <1>7 DEF Found, InFrames, Walked, Known, InQueue, Cut, Tidy
<1>11. NoneForgotten' /\ Listed'
  BY <1>1, <1>2, <1>3, <1>4, <1>7, <1>10 DEF WalkKept, NoneForgotten, Listed
<1>12. InOrder'
  BY <1>1, <1>2, <1>3, <1>4, <1>6, <1>7 DEF WalkKept, InOrder
<1>13. InCaps' /\ OutsideIsBehind' /\ Sorted' /\ FromHere'
  BY <1>1, <1>2, <1>3, <1>6, <1>7 DEF WalkKept, InCaps, OutsideIsBehind, Sorted, FromHere
<1>14. Emptied'
  <2> SUFFICES ASSUME Tidy, NEW d \in (walk.seen \cap Commits) \ Range(walk.commits)
               PROVE  Holds[d] \subseteq Found
    BY <1>7, <1>10, ShortFacts DEF Emptied
  <2>1. CASE d # c
    <3>1. d \notin Range(walk.here)
      BY <1>4, <2>1, ShortFacts
    <3> QED
      BY <1>1, <1>2, <3>1 DEF WalkKept, Emptied
  <2>2. CASE d = c
    <3>1. AllSettled /\ walk.missed = {} /\ ~Cut /\ c \in Walked
      BY <1>4, <1>5 DEF Tidy, Cut
    <3>2. \A x : <<>> # <<x>>
      BY ShortFacts
    <3>3. RootTree[c] \in walk.seenTrees
      BY <1>1, <1>2, <1>4, <2>2, <3>1, <3>2 DEF WalkKept, Listed
    <3>4. Under({RootTree[c]}, walk.missed) \subseteq Found
      BY <1>2, <3>1, <3>3, AllGathered
    <3> QED
      BY <1>4, <2>2, <3>1, <3>4, HoldsFacts
  <2> QED
    BY <2>1, <2>2
<1>15. TreesKept'
  <2>1. ~walk'.truncated => AllSettled'
    BY <1>5, <1>7, <1>10 DEF AllSettled
  <2> QED
    BY <1>6, <2>1, TreesStill
<1>16. IntroIsOldest' /\ TagsKept'
  BY <1>2, <1>3, <1>4, <1>7 DEF WalkKept, IntroIsOldest, TagsKept
<1> QED
  BY <1>2, <1>3, <1>6, <1>8, <1>9, <1>11, <1>12, <1>13, <1>14, <1>15, <1>16 DEF WalkInv, WalkKept
-----------------------------------------------------------------------------
(* Trees.                                                                    *)

\* What a step within the tree of a commit has to show.
LEMMA TreeStepKeeps ==
    ASSUME WalkKept, walk.here # <<>>, WalkTyped', RefsGiven', job' = job,
           walk'.stage = walk.stage, walk'.tips = walk.tips, walk'.queue = walk.queue,
           walk'.outside = walk.outside, walk'.seen = walk.seen, walk'.commits = walk.commits,
           walk'.here = walk.here, walk'.from = walk.from,
           Busy' => walk'.pending = <<read'.oid>> /\ read'.oid \in walk'.seenTrees,
           walk'.pending # <<>> => walk'.pending = <<walk'.pending[1]>>,
           walk.seenTrees \subseteq walk'.seenTrees, Found \subseteq Found',
           Len(walk.blobs) <= Len(walk'.blobs),
           walk.missed \subseteq walk'.missed, walk.truncated => walk'.truncated,
           walk.pending = walk'.pending \/ walk.pending = <<>> \/ walk'.truncated
             \/ walk.pending[1] \in walk'.seenTrees,
           InCaps', TreesKept', FromHere', IntroIsOldest'
    PROVE  WalkKept'
<1>1. /\ walk.here = <<walk.here[1]>> /\ walk.here[1] \in walk.seen /\ walk.here[1] \in Commits
      /\ ~Signing /\ walk.stage = IF Push THEN "commits" ELSE "trees"
      /\ Walked = (walk.seen \ walk.missed) \cap Commits
  BY HereFacts
<1>2. Push' = Push /\ Signing' = Signing /\ Stops' = Stops
  BY DEF Push, Signing, Stops
<1>3. Walked' = (walk.seen \ walk'.missed) \cap Commits /\ Walked' \subseteq Walked
  BY <1>1 DEF Walked
<1>4. Known' = Known
  BY DEF Known, InQueue
<1>5. Cut => Cut'
  <2>1. Len(walk.blobs) \in Nat /\ Len(walk'.blobs) \in Nat /\ job.max.blobs \in Nat
    BY JobFacts DEF WalkKept, WalkTyped
  <2>2. Len(walk.blobs) >= job.max.blobs => Len(walk'.blobs) >= job.max.blobs
    BY <2>1
  <2> QED
    BY <1>1, <1>2, <2>2 DEF Cut
<1>6. job' \in Jobs
  BY DEF WalkKept
<1>7. InOrder'
  BY <1>1, <1>2 DEF WalkKept, InOrder
<1>8. OutsideIsBehind' /\ Sorted'
  BY <1>2 DEF WalkKept, OutsideIsBehind, Sorted
<1>9. NoneForgotten'
  <2> SUFFICES ASSUME ~Cut'
               PROVE  /\ walk'.tips \cap Commits \subseteq Known'
                      /\ \A x \in Walked' : Range(Parents[x]) \subseteq Known'
                                            \/ (Push' /\ walk'.here = <<x>>)
    BY DEF NoneForgotten
  <2>1. /\ walk.tips \cap Commits \subseteq Known
        /\ \A x \in Walked : Range(Parents[x]) \subseteq Known \/ (Push /\ walk.here = <<x>>)
    BY <1>1, <1>5 DEF WalkKept, NoneForgotten
  <2> QED
    BY <1>2, <1>3, <1>4, <2>1
<1>10. Listed'
  <2>1. ASSUME ~Cut', NEW x \in Walked'
        PROVE  \/ RootTree[x] \in walk'.seenTrees
               \/ walk'.pending = <<RootTree[x]>>
               \/ (~Push' /\ x \in Range(walk'.commits))
    <3>1. \/ RootTree[x] \in walk.seenTrees
          \/ walk.pending = <<RootTree[x]>>
          \/ (~Push /\ x \in Range(walk.commits))
      BY <1>1, <1>3, <1>5, <2>1 DEF WalkKept, Listed
    <3>2. ~walk'.truncated
      BY <2>1 DEF Cut
    <3>3. <<RootTree[x]>> # <<>> /\ <<RootTree[x]>>[1] = RootTree[x]
      BY ShortFacts
    <3> QED
      BY <1>2, <3>1, <3>2, <3>3
  <2>2. ~Push' => walk'.stage = "trees"
    BY <1>1, <1>2
  <2> QED
    BY <2>1, <2>2 DEF Listed
<1>11. Emptied'
  <2>1. Tidy' => Tidy
    BY <1>2 DEF Tidy
  <2> QED
    BY <2>1 DEF WalkKept, Emptied
<1>12. TagsKept'
  BY <1>1, <1>2 DEF TagsKept
<1> QED
  BY <1>6, <1>7, <1>8, <1>9, <1>10, <1>11, <1>12 DEF WalkKept

LEMMA EnterTreeKeeps == ASSUME WalkInv, EnterTree PROVE WalkInv'
<1> DEFINE t == walk.pending[1]
           no == Len(walk.frames) > job.max.depth \/ Full
<1>1. /\ walk.pending # <<>> /\ read.at = "idle" /\ Disk
      /\ IF no
         THEN walk' = [walk EXCEPT !.pending = <<>>, !.truncated = TRUE] /\ NoRead
         ELSE IF t \in walk.seenTrees
         THEN walk' = [walk EXCEPT !.pending = <<>>] /\ NoRead
         ELSE walk' = [walk EXCEPT !.seenTrees = @ \cup {t}] /\ StartRead(t)
  BY DEF EnterTree, Ready, Fetches
<1>2. WalkTyped /\ RefsStand /\ RefsGiven /\ job \in Jobs /\ WalkKept /\ StoreInv /\ ~Busy
  BY <1>1 DEF WalkInv, WalkKept, Busy
<1>3. RefsStand' /\ job' = job /\ UNCHANGED store /\ Push' = Push /\ Signing' = Signing
  BY <1>1, <1>2, DiskKeeps DEF Push, Signing
<1>4. walk.here # <<>>
  BY <1>1, <1>2 DEF WalkKept, InOrder
<1>5. /\ walk.pending = <<t>> /\ t \in Trees /\ Range(walk.pending) = {t}
      /\ walk.stage \notin {"tips", "stopref", "tagrefs"}
  BY <1>1, <1>2, <1>4, HereFacts
<1>6. t \in Oids /\ (\A x : <<x>>[1] = x /\ <<>> # <<x>>) /\ Range(<<>>) = {} /\ Len(walk.blobs) \in Nat
  BY <1>2, <1>5, CommitFacts, ShortFacts DEF WalkTyped
<1>7. ~no => Len(walk.frames) <= job.max.depth
  <2>1. Len(walk.frames) \in Nat /\ job.max.depth \in Nat
    BY <1>2, JobFacts DEF WalkTyped
  <2> QED
    BY <2>1
<1>8. \A n \in Nat : n <= n
  OBVIOUS
<1> HIDE DEF t, no
<1>9. CASE no
  <2>1. walk' = [walk EXCEPT !.pending = <<>>, !.truncated = TRUE] /\ NoRead
    BY <1>1, <1>9
  <2>2. /\ walk'.pending = <<>> /\ walk'.truncated = TRUE /\ walk'.stage = walk.stage
      /\ walk'.unread = walk.unread /\ walk'.got = walk.got /\ walk'.tips = walk.tips
      /\ walk'.queue = walk.queue /\ walk'.outside = walk.outside /\ walk'.seen = walk.seen
      /\ walk'.commits = walk.commits /\ walk'.frames = walk.frames /\ walk'.here = walk.here
      /\ walk'.from = walk.from /\ walk'.blobs = walk.blobs
      /\ walk'.seenTrees = walk.seenTrees /\ walk'.tags = walk.tags
      /\ walk'.missed = walk.missed
    BY <1>2, <2>1 DEF WalkTyped
  <2>3. StoreInv' /\ ~Busy'
    BY <1>2, <1>3, <2>1, NoReadKeeps
  <2>4. WalkTyped'
    BY <1>2, <2>1, ShortFacts DEF WalkTyped
  <2>5. RefsGiven'
    BY <1>2, <1>3, <1>5, <2>2, NoRefAsked
  <2>6. InCaps'
    BY <1>2, <1>3, <2>2 DEF WalkKept, InCaps
  <2>7. TreesKept' /\ FromHere' /\ IntroIsOldest' /\ Found' = Found
    BY <2>2 DEF TreesKept, FromHere, Tidy, IntroIsOldest, Found
  <2>8. WalkKept'
    BY <1>2, <1>3, <1>4, <1>6, <1>8, <2>2, <2>3, <2>4, <2>5, <2>6, <2>7, TreeStepKeeps
  <2> QED
    BY <1>3, <2>3, <2>5, <2>8 DEF WalkInv
<1>10. CASE ~no /\ t \in walk.seenTrees
  <2>1. walk' = [walk EXCEPT !.pending = <<>>] /\ NoRead
    BY <1>1, <1>10
  <2>2. /\ walk'.pending = <<>> /\ walk'.stage = walk.stage /\ walk'.unread = walk.unread
      /\ walk'.got = walk.got /\ walk'.tips = walk.tips /\ walk'.queue = walk.queue
      /\ walk'.outside = walk.outside /\ walk'.seen = walk.seen
      /\ walk'.commits = walk.commits /\ walk'.frames = walk.frames /\ walk'.here = walk.here
      /\ walk'.from = walk.from /\ walk'.blobs = walk.blobs
      /\ walk'.seenTrees = walk.seenTrees /\ walk'.tags = walk.tags
      /\ walk'.truncated = walk.truncated /\ walk'.missed = walk.missed
    BY <1>2, <2>1 DEF WalkTyped
  <2>3. StoreInv' /\ ~Busy'
    BY <1>2, <1>3, <2>1, NoReadKeeps
  <2>4. WalkTyped'
    BY <1>2, <2>1, ShortFacts DEF WalkTyped
  <2>5. RefsGiven'
    BY <1>2, <1>3, <1>5, <2>2, NoRefAsked
  <2>6. InCaps'
    BY <1>2, <1>3, <2>2 DEF WalkKept, InCaps
  <2>7. InFrames' = InFrames /\ Found' = Found /\ Tidy' = Tidy
    BY <1>3, <2>2 DEF InFrames, Found, Tidy
  <2>8. TreesKept'
    <3>1. \A i : Settled(i) => Settled(i)'
      BY <1>5, <1>6, <1>10, <2>2, <2>7 DEF Settled
    <3> QED
      BY <1>2, <2>2, <2>3, <2>7, <3>1 DEF WalkKept, TreesKept
  <2>9. FromHere'
    BY <1>2, <1>6, <2>2, <2>7 DEF WalkKept, FromHere
  <2>10. IntroIsOldest'
    BY <1>2, <1>3, <2>2 DEF WalkKept, IntroIsOldest
  <2>11. walk.pending[1] \in walk'.seenTrees
    BY <1>10, <2>2 DEF t
  <2>12. WalkKept'
    BY <1>2, <1>3, <1>4, <1>6, <1>8, <2>2, <2>3, <2>4, <2>5, <2>6, <2>7, <2>8, <2>9, <2>10, <2>11,
       TreeStepKeeps
  <2> QED
    BY <1>3, <2>3, <2>5, <2>12 DEF WalkInv
<1>11. CASE ~no /\ t \notin walk.seenTrees
  <2>1. walk' = [walk EXCEPT !.seenTrees = @ \cup {t}] /\ StartRead(t)
    BY <1>1, <1>11
  <2>2. /\ walk'.seenTrees = walk.seenTrees \cup {t} /\ walk'.stage = walk.stage
      /\ walk'.unread = walk.unread /\ walk'.got = walk.got /\ walk'.tips = walk.tips
      /\ walk'.queue = walk.queue /\ walk'.outside = walk.outside /\ walk'.seen = walk.seen
      /\ walk'.commits = walk.commits /\ walk'.frames = walk.frames
      /\ walk'.pending = walk.pending /\ walk'.here = walk.here /\ walk'.from = walk.from
      /\ walk'.blobs = walk.blobs /\ walk'.tags = walk.tags
      /\ walk'.truncated = walk.truncated /\ walk'.missed = walk.missed
    BY <1>2, <2>1 DEF WalkTyped
  <2>3. StoreInv' /\ Busy' /\ read'.oid = t
    BY <1>2, <1>3, <1>6, <2>1, StartKeeps
  <2>4. WalkTyped'
    BY <1>2, <1>5, <2>1 DEF WalkTyped
  <2>5. RefsGiven'
    BY <1>2, <1>3, <1>5, <2>2, NoRefAsked
  <2>6. InCaps'
    BY <1>2, <1>3, <1>7, <1>11, <2>2 DEF WalkKept, InCaps
  <2>7. InFrames' = InFrames /\ Found' = Found /\ Tidy' = Tidy
    BY <1>3, <2>2 DEF InFrames, Found, Tidy
  <2>8. TreesKept'
    <3>1. \A i : Settled(i) => Settled(i)'
      BY <2>2, <2>7 DEF Settled
    <3>2. ~walk.truncated => \A u \in walk.seenTrees \ walk.missed :
             \A i \in Range(Items[u]) : i \in InFrames \/ Settled(i)
      BY <1>2 DEF WalkKept, TreesKept
    <3> QED
      BY <1>5, <2>2, <2>3, <2>7, <3>1, <3>2 DEF TreesKept
  <2>9. FromHere'
    BY <1>2, <2>2, <2>7 DEF WalkKept, FromHere
  <2>10. IntroIsOldest'
    BY <1>2, <1>3, <2>2 DEF WalkKept, IntroIsOldest
  <2>11. walk'.pending = <<read'.oid>> /\ read'.oid \in walk'.seenTrees
    BY <1>5, <2>2, <2>3
  <2>12. walk'.pending = <<walk'.pending[1]>>
    BY <1>5, <1>6, <2>2
  <2>13. WalkKept'
    BY <1>2, <1>3, <1>4, <1>6, <1>8, <2>2, <2>4, <2>5, <2>6, <2>7, <2>8, <2>9, <2>10, <2>11, <2>12,
       TreeStepKeeps
  <2> QED
    BY <1>3, <2>3, <2>5, <2>13 DEF WalkInv
<1> QED
  BY <1>9, <1>10, <1>11

\* The entries of the frames, and of the frames with one more.
LEMMA FramesFacts ==
    /\ InFrames = UNION {Range(f) : f \in Range(walk.frames)}
    /\ InFrames' = UNION {Range(f) : f \in Range(walk'.frames)}
  BY DEF InFrames, Range

LEMMA PushedFacts ==
    ASSUME NEW S, NEW s \in Seq(S), NEW x \in S
    PROVE  /\ <<x>> \o s \in Seq(S) /\ Range(<<x>> \o s) = {x} \cup Range(s)
           /\ Len(<<x>> \o s) = Len(s) + 1
<1> DEFINE one == <<x>>
<1>1. one \in Seq(S) /\ Range(one) = {x} /\ Len(one) = 1
  BY ShortFacts
<1> HIDE DEF one
<1>2. one \o s \in Seq(S) /\ Range(one \o s) = Range(one) \cup Range(s)
  BY <1>1, JoinedFacts
<1>3. Len(one \o s) = Len(s) + 1
  <2>1. Len(one \o s) = Len(one) + Len(s)
    BY <1>1, ConcatProperties
  <2>2. Len(s) \in Nat
    OBVIOUS
  <2> QED
    BY <1>1, <2>1, <2>2
<1> QED
  BY <1>1, <1>2, <1>3 DEF one

LEMMA TreeGotKeeps == ASSUME WalkInv, TreeGot PROVE WalkInv'
<1> DEFINE t == read.oid
           ok == ReadAs("tree")
           frames == IF ok THEN <<Items[t]>> \o walk.frames ELSE walk.frames
<1>1. /\ walk.pending # <<>> /\ read.at = "done" /\ Disk /\ Handled
      /\ walk' = [walk EXCEPT !.pending = <<>>, !.missed = Missed, !.frames = frames]
  BY DEF TreeGot, Answered
<1>2. WalkTyped /\ RefsStand /\ RefsGiven /\ job \in Jobs /\ WalkKept /\ StoreInv /\ Busy
  BY <1>1 DEF WalkInv, WalkKept, Busy
<1>3. RefsStand' /\ job' = job /\ UNCHANGED store /\ Push' = Push /\ Signing' = Signing
  BY <1>1, <1>2, DiskKeeps DEF Push, Signing
<1>4. walk.here # <<>>
  BY <1>1, <1>2 DEF WalkKept, InOrder
<1>5. /\ walk.pending = <<t>> /\ t \in walk.seenTrees /\ t \in Trees
      /\ Range(walk.pending) = {t} /\ walk.pending[1] = t
      /\ walk.stage \notin {"tips", "stopref", "tagrefs"}
  <2>1. /\ walk.pending = <<t>> /\ t \in walk.seenTrees
        /\ walk.stage \notin {"tips", "stopref", "tagrefs"}
    BY <1>2, <1>4, HereFacts
  <2> QED
    BY <1>2, <2>1, ShortFacts DEF WalkTyped
<1>6. /\ Missed \subseteq Oids /\ walk.missed \subseteq Missed /\ Missed \subseteq walk.missed \cup {t}
      /\ ok \in BOOLEAN /\ (t \notin Missed => ok) /\ (t \in Missed \/ ok)
  BY <1>2, <1>5 DEF Missed, WalkTyped, ReadAs, Trees
<1>7. /\ Items[t] \in Seq(ItemType)
      /\ \A i \in Range(Items[t]) : i \in ItemType
  BY <1>5, ItemFacts
<1> HIDE DEF ok, t
<1>8. /\ frames \in Seq(Seq(ItemType)) /\ Len(frames) <= Len(walk.frames) + 1
      /\ Range(walk.frames) \subseteq Range(frames)
      /\ Range(frames) \subseteq Range(walk.frames) \cup {Items[t]}
      /\ (ok => Items[t] \in Range(frames))
  <2>1. walk.frames \in Seq(Seq(ItemType)) /\ Len(walk.frames) \in Nat
    BY <1>2 DEF WalkTyped
  <2>2. CASE ok
    <3> DEFINE one == <<Items[t]>> \o walk.frames
    <3>1. /\ one \in Seq(Seq(ItemType)) /\ Len(one) = Len(walk.frames) + 1
          /\ Range(one) = {Items[t]} \cup Range(walk.frames)
      BY <1>7, <2>1, PushedFacts
    <3>2. frames = one
      BY <2>2
    <3> HIDE DEF one, frames
    <3> QED
      BY <2>1, <3>1, <3>2
  <2>3. CASE ~ok
    BY <2>1, <2>3
  <2> QED
    BY <2>2, <2>3
<1> HIDE DEF frames
<1>9. /\ walk'.pending = <<>> /\ walk'.missed = Missed /\ walk'.frames = frames
      /\ walk'.stage = walk.stage /\ walk'.unread = walk.unread /\ walk'.got = walk.got
      /\ walk'.tips = walk.tips /\ walk'.queue = walk.queue /\ walk'.outside = walk.outside
      /\ walk'.seen = walk.seen /\ walk'.commits = walk.commits /\ walk'.here = walk.here
      /\ walk'.from = walk.from /\ walk'.blobs = walk.blobs
      /\ walk'.seenTrees = walk.seenTrees /\ walk'.tags = walk.tags
      /\ walk'.truncated = walk.truncated
  BY <1>1, <1>2 DEF WalkTyped
<1>10. StoreInv' /\ ~Busy'
  BY <1>1, <1>2, <1>3, HandledKeeps
<1>11. WalkTyped'
  BY <1>1, <1>2, <1>6, <1>8, ShortFacts DEF WalkTyped
<1>12. RefsGiven'
  BY <1>2, <1>3, <1>5, <1>9, NoRefAsked
<1>13. /\ InFrames \subseteq InFrames' /\ InFrames' \subseteq InFrames \cup Range(Items[t])
       /\ (ok => Range(Items[t]) \subseteq InFrames')
  BY <1>8, <1>9, FramesFacts
<1>14. Found' = Found /\ (Tidy' => Tidy /\ t \notin Missed)
  BY <1>3, <1>6, <1>9 DEF Found, Tidy
<1>15. InCaps'
  <2>1. Len(walk.frames) <= job.max.depth
    BY <1>1, <1>2 DEF WalkKept, InCaps
  <2>2. Len(walk.frames) \in Nat /\ Len(frames) \in Nat /\ job.max.depth \in Nat
    BY <1>2, <1>8, JobFacts DEF WalkTyped
  <2>3. Len(frames) <= job.max.depth + 1
    BY <1>8, <2>1, <2>2
  <2> QED
    BY <1>2, <1>3, <1>9, <1>10, <2>3 DEF WalkKept, InCaps
<1>16. TreesKept'
  <2> SUFFICES ASSUME ~walk.truncated, NEW u \in walk.seenTrees \ Missed, NEW i \in Range(Items[u])
               PROVE  i \in InFrames' \/ Settled(i)'
    BY <1>9 DEF TreesKept
  <2>1. CASE u = t
    BY <1>6, <1>13, <2>1
  <2>2. CASE u # t
    <3>1. walk.pending # <<u>>
      BY <1>5, <2>2, ShortFacts
    <3>2. i \in InFrames \/ Settled(i)
      BY <1>2, <1>6, <3>1 DEF WalkKept, TreesKept
    <3>3. \A x : walk.pending = <<x>> => x = t
      BY <1>5, ShortFacts
    <3>4. Settled(i) => Settled(i)'
      BY <1>5, <1>9, <1>14, <3>3 DEF Settled
    <3> QED
      BY <1>13, <3>2, <3>4
  <2> QED
    BY <2>1, <2>2
<1>17. FromHere'
  <2> DEFINE c == walk.here[1]
             B == Below({RootTree[c]}, {})
  <2> SUFFICES ASSUME Tidy, NEW i \in InFrames'
               PROVE  /\ EntryKind(i.mode) = "tree" => i.oid \in B
                      /\ EntryKind(i.mode) = "blob" => i.oid \in Holds[c]
    BY <1>9, <1>14, ShortFacts DEF FromHere
  <2>1. c \in Commits
    BY <1>2, <1>4, HereFacts
  <2>2. t \in B
    BY <1>2, <1>4, <1>5 DEF WalkKept, FromHere
  <2>3. CASE i \in InFrames
    BY <1>2, <1>4, <2>3 DEF WalkKept, FromHere
  <2>4. CASE i \in Range(Items[t])
    BY <2>1, <2>2, <2>4, HoldsFacts
  <2> QED
    BY <1>13, <2>3, <2>4
<1>18. IntroIsOldest'
  BY <1>2, <1>3, <1>6, <1>9 DEF WalkKept, IntroIsOldest
<1>19. WalkKept'
  <2>1. Len(walk.blobs) <= Len(walk'.blobs)
    <3>1. Len(walk.blobs) \in Nat
      BY <1>2 DEF WalkTyped
    <3> QED
      BY <1>9, <3>1
  <2> QED
    BY <1>2, <1>3, <1>4, <1>5, <1>6, <1>9, <1>10, <1>11, <1>12, <1>14, <1>15, <1>16, <1>17, <1>18,
       <2>1, TreeStepKeeps
<1> QED
  BY <1>3, <1>10, <1>12, <1>19 DEF WalkInv
LEMMA TreeItemKeeps == ASSUME WalkInv, TreeItem PROVE WalkInv'
<1> DEFINE left == Head(walk.frames)
           rest == <<Tail(left)>> \o Tail(walk.frames)
           item == Head(left)
           kind == EntryKind(item.mode)
           here == walk.here[1]
           blob == [oid |-> item.oid, commit |-> here]
           blobs == IF item.oid \in Found THEN walk.blobs ELSE Append(walk.blobs, blob)
           One == left = <<>> /\ walk' = [walk EXCEPT !.frames = Tail(@)]
           Two == left # <<>> /\ kind = "skip" /\ walk' = [walk EXCEPT !.frames = rest]
           Three == /\ left # <<>> /\ kind = "tree"
                    /\ walk' = [walk EXCEPT !.frames = rest, !.pending = <<item.oid>>]
           Four == /\ left # <<>> /\ kind = "blob" /\ Full
                   /\ walk' = [walk EXCEPT !.frames = Tail(@), !.truncated = TRUE]
           Five == /\ left # <<>> /\ kind = "blob" /\ ~Full
                   /\ walk' = [walk EXCEPT !.frames = rest, !.blobs = blobs]
<1>1. walk.pending = <<>> /\ walk.frames # <<>> /\ Disk /\ NoRead
  BY DEF TreeItem
<1>2. WalkTyped /\ RefsStand /\ RefsGiven /\ job \in Jobs /\ WalkKept /\ StoreInv
  BY DEF WalkInv, WalkKept
<1>3. RefsStand' /\ job' = job /\ UNCHANGED store /\ Push' = Push /\ Signing' = Signing
  BY <1>1, <1>2, DiskKeeps DEF Push, Signing
<1>4. walk.here # <<>>
  BY <1>1, <1>2 DEF WalkKept, InOrder
<1>5. /\ here \in walk.seen /\ here \in Commits /\ walk.here = <<here>>
      /\ walk.stage \notin {"tips", "stopref", "tagrefs"}
      /\ (~Push => walk.stage = "trees")
      /\ ~Busy
  <2>1. <<read.oid>> # <<>>
    BY ShortFacts
  <2> QED
    BY <1>1, <1>2, <1>4, <2>1, HereFacts
<1>6. StoreInv' /\ ~Busy'
  BY <1>1, <1>2, <1>3, <1>5, NoReadKeeps
<1>7. /\ left \in Seq(ItemType) /\ Tail(walk.frames) \in Seq(Seq(ItemType))
      /\ Range(walk.frames) = {left} \cup Range(Tail(walk.frames))
      /\ Len(walk.frames) \in Nat /\ Len(walk.frames) > 0
      /\ Len(Tail(walk.frames)) = Len(walk.frames) - 1
  <2>1. walk.frames \in Seq(Seq(ItemType))
    BY <1>2 DEF WalkTyped
  <2>2. /\ Len(walk.frames) \in Nat /\ Len(walk.frames) > 0
        /\ Len(Tail(walk.frames)) = Len(walk.frames) - 1
    BY <1>1, <2>1
  <2> QED
    BY <1>1, <2>1, <2>2, TailFacts
<1>8. left # <<>> =>
        /\ item \in ItemType /\ Tail(left) \in Seq(ItemType)
        /\ Range(left) = {item} \cup Range(Tail(left))
  BY <1>7, TailFacts
<1>9. left # <<>> =>
        /\ item.oid \in Oids /\ (kind = "blob" => item.oid \in Blobs)
        /\ (kind = "tree" => item.oid \in Trees)
  BY <1>8 DEF ItemType, RawItem
<1>10. kind \in {"blob", "tree", "skip"}
  BY DEF EntryKind
<1>11. /\ walk.blobs \in Seq([oid : Blobs, commit : Commits]) /\ Len(walk.blobs) \in Nat
       /\ walk.from \in Nat /\ job.max.blobs \in Nat /\ job.max.depth \in Nat
  BY <1>2, JobFacts DEF WalkTyped
<1>12. left # <<>> =>
         /\ rest \in Seq(Seq(ItemType)) /\ Range(rest) = {Tail(left)} \cup Range(Tail(walk.frames))
         /\ Len(rest) = Len(walk.frames)
  <2> SUFFICES ASSUME left # <<>>
               PROVE  /\ rest \in Seq(Seq(ItemType)) /\ Len(rest) = Len(walk.frames)
                      /\ Range(rest) = {Tail(left)} \cup Range(Tail(walk.frames))
    OBVIOUS
  <2> DEFINE s == Tail(walk.frames)
             x == Tail(left)
  <2>1. s \in Seq(Seq(ItemType)) /\ x \in Seq(ItemType) /\ Len(s) = Len(walk.frames) - 1
    BY <1>7, <1>8
  <2> HIDE DEF s, x
  <2>2. <<x>> \o s \in Seq(Seq(ItemType)) /\ Range(<<x>> \o s) = {x} \cup Range(s)
        /\ Len(<<x>> \o s) = Len(s) + 1
    BY <2>1, PushedFacts
  <2>3. Len(<<x>> \o s) = Len(walk.frames)
    BY <1>7, <2>1, <2>2
  <2> QED
    BY <2>2, <2>3 DEF s, x
<1>13. left \in Range(walk.frames)
  BY <1>7
<1>14. left # <<>> => item \in InFrames
  BY <1>8, <1>13, FramesFacts
<1>15. \A x : <<x>>[1] = x /\ <<>> # <<x>> /\ Range(<<x>>) = {x}
  BY ShortFacts
<1>16. Range(<<>>) = {} /\ (\A n \in Nat : n <= n) /\ Len(walk.blobs) <= Len(walk.blobs)
  <2>1. \A n \in Nat : n <= n
    OBVIOUS
  <2> QED
    BY <1>11, <2>1, ShortFacts
<1>17. One \/ Two \/ Three \/ Four \/ Five
  <2>1. walk' = CASE left = <<>> -> [walk EXCEPT !.frames = Tail(@)]
                  [] left # <<>> /\ kind = "skip" -> [walk EXCEPT !.frames = rest]
                  [] left # <<>> /\ kind = "tree" ->
                       [walk EXCEPT !.frames = rest, !.pending = <<item.oid>>]
                  [] left # <<>> /\ kind = "blob" /\ Full ->
                       [walk EXCEPT !.frames = Tail(@), !.truncated = TRUE]
                  [] left # <<>> /\ kind = "blob" /\ ~Full ->
                       [walk EXCEPT !.frames = rest, !.blobs = blobs]
    BY DEF TreeItem
  <2> HIDE DEF left, rest, kind, item, blobs
  <2> QED
    BY <1>10, <2>1
\* The trees of the frames with the first one gone, or its first entry.
<1>18. ASSUME Range(walk'.frames) = Range(Tail(walk.frames)), left = <<>>
       PROVE  InFrames' = InFrames
  BY <1>7, <1>16, <1>18, FramesFacts
<1>19. ASSUME Range(walk'.frames) = {Tail(left)} \cup Range(Tail(walk.frames)), left # <<>>
       PROVE  InFrames' \subseteq InFrames /\ InFrames \subseteq InFrames' \cup {item}
  BY <1>7, <1>8, <1>19, FramesFacts, ZenonT(40)
<1>20. ASSUME InFrames' \subseteq InFrames, walk'.here = walk.here, Tidy' => Tidy,
              Tidy => \A x \in Range(walk'.pending) : x \in Below({RootTree[here]}, {})
       PROVE  FromHere'
  BY <1>2, <1>4, <1>20 DEF WalkKept, FromHere
<1>21. ASSUME walk'.truncated = walk.truncated, walk'.seenTrees = walk.seenTrees,
              walk'.missed = walk.missed, Found \subseteq Found',
              \A i \in InFrames : i \in InFrames' \/ Settled(i)'
       PROVE  TreesKept'
  <2>1. ASSUME NEW i, Settled(i) PROVE Settled(i)'
    BY <1>1, <1>15, <1>21, <2>1 DEF Settled
  <2>2. ~walk.truncated => \A t \in walk.seenTrees \ walk.missed : \A i \in Range(Items[t]) :
           i \in InFrames \/ Settled(i)
    BY <1>2, <1>5 DEF WalkKept, TreesKept
  <2> QED
    BY <1>21, <2>1, <2>2 DEF TreesKept
<1>22. ASSUME walk'.blobs = walk.blobs, walk'.from = walk.from, walk'.outside = walk.outside,
              Len(walk'.frames) <= Len(walk.frames), Len(walk'.frames) \in Nat
       PROVE  InCaps'
  <2>1. Len(walk'.frames) <= job.max.depth + 1
    <3>1. Len(walk.frames) <= job.max.depth + 1
      BY <1>2 DEF WalkKept, InCaps
    <3> QED
      BY <1>7, <1>11, <1>22, <3>1
  <2> QED
    BY <1>2, <1>3, <1>6, <1>22, <2>1 DEF WalkKept, InCaps
<1> HIDE DEF left, rest, kind, item, blobs, here
<1>23. CASE One
  <2>1. walk' = [walk EXCEPT !.frames = Tail(@)] /\ left = <<>>
    BY <1>23
  <2>2. /\ walk'.frames = Tail(walk.frames) /\ walk'.stage = walk.stage
      /\ walk'.unread = walk.unread /\ walk'.got = walk.got /\ walk'.tips = walk.tips
      /\ walk'.queue = walk.queue /\ walk'.outside = walk.outside /\ walk'.seen = walk.seen
      /\ walk'.commits = walk.commits /\ walk'.pending = walk.pending
      /\ walk'.here = walk.here /\ walk'.from = walk.from /\ walk'.blobs = walk.blobs
      /\ walk'.seenTrees = walk.seenTrees /\ walk'.tags = walk.tags
      /\ walk'.truncated = walk.truncated /\ walk'.missed = walk.missed
    BY <1>2, <2>1 DEF WalkTyped
  <2>3. WalkTyped'
    BY <1>2, <1>7, <2>1 DEF WalkTyped
  <2>4. RefsGiven'
    BY <1>2, <1>3, <1>5, <2>2, NoRefAsked
  <2>5. InFrames' = InFrames /\ Found' = Found /\ Tidy' = Tidy
    BY <1>3, <1>18, <2>1, <2>2 DEF Found, Tidy
  <2>6. InCaps'
    BY <1>7, <1>22, <2>2
  <2>7. TreesKept' /\ FromHere'
    BY <1>1, <1>16, <1>20, <1>21, <2>2, <2>5
  <2>8. IntroIsOldest'
    BY <1>2, <1>3, <2>2 DEF WalkKept, IntroIsOldest
  <2>9. WalkKept'
    BY <1>1, <1>2, <1>3, <1>4, <1>6, <1>16, <2>2, <2>3, <2>4, <2>5, <2>6, <2>7, <2>8, TreeStepKeeps
  <2> QED
    BY <1>3, <1>6, <2>4, <2>9 DEF WalkInv
<1>24. CASE Two
  <2>1. walk' = [walk EXCEPT !.frames = rest] /\ left # <<>> /\ kind = "skip"
    BY <1>24
  <2>2. /\ walk'.frames = rest /\ walk'.stage = walk.stage /\ walk'.unread = walk.unread
      /\ walk'.got = walk.got /\ walk'.tips = walk.tips /\ walk'.queue = walk.queue
      /\ walk'.outside = walk.outside /\ walk'.seen = walk.seen
      /\ walk'.commits = walk.commits /\ walk'.pending = walk.pending
      /\ walk'.here = walk.here /\ walk'.from = walk.from /\ walk'.blobs = walk.blobs
      /\ walk'.seenTrees = walk.seenTrees /\ walk'.tags = walk.tags
      /\ walk'.truncated = walk.truncated /\ walk'.missed = walk.missed
    BY <1>2, <2>1 DEF WalkTyped
  <2>3. WalkTyped'
    BY <1>2, <1>12, <2>1 DEF WalkTyped
  <2>4. RefsGiven'
    BY <1>2, <1>3, <1>5, <2>2, NoRefAsked
  <2>5. /\ InFrames' \subseteq InFrames /\ InFrames \subseteq InFrames' \cup {item}
        /\ Found' = Found /\ Tidy' = Tidy
    BY <1>3, <1>12, <1>19, <2>1, <2>2 DEF Found, Tidy
  <2>6. InCaps'
    BY <1>7, <1>12, <1>22, <2>1, <2>2
  <2>7. \A i : i = item => Settled(i)'
    BY <2>1 DEF Settled, kind
  <2>8. TreesKept' /\ FromHere'
    BY <1>1, <1>16, <1>20, <1>21, <2>2, <2>5, <2>7
  <2>9. IntroIsOldest'
    BY <1>2, <1>3, <2>2 DEF WalkKept, IntroIsOldest
  <2>10. WalkKept'
    BY <1>1, <1>2, <1>3, <1>4, <1>6, <1>16, <2>2, <2>3, <2>4, <2>5, <2>6, <2>8, <2>9, TreeStepKeeps
  <2> QED
    BY <1>3, <1>6, <2>4, <2>10 DEF WalkInv
<1>25. CASE Three
  <2>1. walk' = [walk EXCEPT !.frames = rest, !.pending = <<item.oid>>] /\ left # <<>> /\ kind = "tree"
    BY <1>25
  <2>2. /\ walk'.frames = rest /\ walk'.pending = <<item.oid>> /\ walk'.stage = walk.stage
      /\ walk'.unread = walk.unread /\ walk'.got = walk.got /\ walk'.tips = walk.tips
      /\ walk'.queue = walk.queue /\ walk'.outside = walk.outside /\ walk'.seen = walk.seen
      /\ walk'.commits = walk.commits /\ walk'.here = walk.here /\ walk'.from = walk.from
      /\ walk'.blobs = walk.blobs /\ walk'.seenTrees = walk.seenTrees
      /\ walk'.tags = walk.tags /\ walk'.truncated = walk.truncated
      /\ walk'.missed = walk.missed
    BY <1>2, <2>1 DEF WalkTyped
  <2>3. WalkTyped'
    <3>1. <<item.oid>> \in Seq(Trees)
      BY <1>9, <2>1, ShortFacts
    <3> QED
      BY <1>2, <1>12, <2>1, <3>1 DEF WalkTyped
  <2>4. RefsGiven'
    BY <1>2, <1>3, <1>5, <2>2, NoRefAsked
  <2>5. /\ InFrames' \subseteq InFrames /\ InFrames \subseteq InFrames' \cup {item}
        /\ Found' = Found /\ Tidy' = Tidy
    BY <1>3, <1>12, <1>19, <2>1, <2>2 DEF Found, Tidy
  <2>6. InCaps'
    BY <1>7, <1>12, <1>22, <2>1, <2>2
  <2>7. \A i : i = item => Settled(i)'
    BY <2>1, <2>2 DEF Settled, kind
  <2>8. Tidy => item.oid \in Below({RootTree[here]}, {})
    BY <1>2, <1>4, <1>14, <2>1 DEF WalkKept, FromHere, kind, here
  <2>9. TreesKept' /\ FromHere'
    BY <1>15, <1>20, <1>21, <2>2, <2>5, <2>7, <2>8
  <2>10. IntroIsOldest'
    BY <1>2, <1>3, <2>2 DEF WalkKept, IntroIsOldest
  <2>11. WalkKept'
    BY <1>1, <1>2, <1>3, <1>4, <1>6, <1>15, <1>16, <2>2, <2>3, <2>4, <2>5, <2>6, <2>9, <2>10,
       TreeStepKeeps
  <2> QED
    BY <1>3, <1>6, <2>4, <2>11 DEF WalkInv
<1>26. CASE Four
  <2>1. walk' = [walk EXCEPT !.frames = Tail(@), !.truncated = TRUE]
    BY <1>26
  <2>2. /\ walk'.frames = Tail(walk.frames) /\ walk'.truncated = TRUE
      /\ walk'.stage = walk.stage /\ walk'.unread = walk.unread /\ walk'.got = walk.got
      /\ walk'.tips = walk.tips /\ walk'.queue = walk.queue /\ walk'.outside = walk.outside
      /\ walk'.seen = walk.seen /\ walk'.commits = walk.commits
      /\ walk'.pending = walk.pending /\ walk'.here = walk.here /\ walk'.from = walk.from
      /\ walk'.blobs = walk.blobs /\ walk'.seenTrees = walk.seenTrees
      /\ walk'.tags = walk.tags /\ walk'.missed = walk.missed
    BY <1>2, <2>1 DEF WalkTyped
  <2>3. WalkTyped'
    BY <1>2, <1>7, <2>1 DEF WalkTyped
  <2>4. RefsGiven'
    BY <1>2, <1>3, <1>5, <2>2, NoRefAsked
  <2>5. InCaps'
    BY <1>7, <1>22, <2>2
  <2>6. TreesKept' /\ FromHere' /\ IntroIsOldest' /\ Found' = Found
    BY <2>2 DEF TreesKept, FromHere, Tidy, IntroIsOldest, Found
  <2>7. WalkKept'
    BY <1>1, <1>2, <1>3, <1>4, <1>6, <1>16, <2>2, <2>3, <2>4, <2>5, <2>6, TreeStepKeeps
  <2> QED
    BY <1>3, <1>6, <2>4, <2>7 DEF WalkInv
<1>27. CASE Five
  <2>1. /\ walk' = [walk EXCEPT !.frames = rest, !.blobs = blobs]
        /\ left # <<>> /\ kind = "blob" /\ ~Full
    BY <1>27
  <2>2. /\ walk'.frames = rest /\ walk'.blobs = blobs /\ walk'.stage = walk.stage
      /\ walk'.unread = walk.unread /\ walk'.got = walk.got /\ walk'.tips = walk.tips
      /\ walk'.queue = walk.queue /\ walk'.outside = walk.outside /\ walk'.seen = walk.seen
      /\ walk'.commits = walk.commits /\ walk'.pending = walk.pending
      /\ walk'.here = walk.here /\ walk'.from = walk.from /\ walk'.seenTrees = walk.seenTrees
      /\ walk'.tags = walk.tags /\ walk'.truncated = walk.truncated
      /\ walk'.missed = walk.missed
    BY <1>2, <2>1 DEF WalkTyped
  <2>3. blob \in [oid : Blobs, commit : Commits] /\ blob.oid = item.oid /\ blob.commit = here
    BY <1>5, <1>9, <2>1
  <2> HIDE DEF blob
  <2>4. \/ item.oid \in Found /\ blobs = walk.blobs
        \/ item.oid \notin Found /\ blobs = Append(walk.blobs, blob)
    BY DEF blobs
  <2>5. /\ Append(walk.blobs, blob) \in Seq([oid : Blobs, commit : Commits])
        /\ Range(Append(walk.blobs, blob)) = Range(walk.blobs) \cup {blob}
        /\ Len(Append(walk.blobs, blob)) = Len(walk.blobs) + 1
        /\ Append(walk.blobs, blob)[Len(walk.blobs) + 1] = blob
        /\ \A i \in 1..Len(walk.blobs) : Append(walk.blobs, blob)[i] = walk.blobs[i]
    <3> DEFINE S == [oid : Blobs, commit : Commits]
               s == walk.blobs
    <3>1. s \in Seq(S) /\ blob \in S
      BY <1>11, <2>3
    <3> HIDE DEF S, s
    <3>2. /\ Append(s, blob) \in Seq(S) /\ Range(Append(s, blob)) = Range(s) \cup {blob}
          /\ Len(Append(s, blob)) = Len(s) + 1
          /\ Append(s, blob)[Len(s) + 1] = blob /\ \A i \in 1..Len(s) : Append(s, blob)[i] = s[i]
      BY <3>1, AddedFacts
    <3> QED
      BY <3>2 DEF S, s
  <2>6. /\ blobs \in Seq([oid : Blobs, commit : Commits]) /\ Len(blobs) \in Nat
        /\ Len(walk.blobs) <= Len(blobs) /\ Len(blobs) <= Len(walk.blobs) + 1
        /\ Range(walk.blobs) \subseteq Range(blobs)
        /\ Range(blobs) \subseteq Range(walk.blobs) \cup {blob}
        /\ (item.oid \notin Found => blob \in Range(blobs))
        /\ (item.oid \in Found => blobs = walk.blobs)
    <3>1. CASE item.oid \in Found
      BY <1>11, <2>4, <3>1
    <3>2. CASE item.oid \notin Found
      <4>1. blobs = Append(walk.blobs, blob)
        BY <2>4, <3>2
      <4>2. Len(walk.blobs) <= Len(walk.blobs) + 1 /\ Len(walk.blobs) + 1 \in Nat
            /\ Len(walk.blobs) + 1 <= Len(walk.blobs) + 1
        BY <1>11
      <4> QED
        BY <2>5, <3>2, <4>1, <4>2
    <3> QED
      BY <3>1, <3>2
  <2>7. WalkTyped'
    BY <1>2, <1>12, <2>1, <2>6 DEF WalkTyped
  <2>8. RefsGiven'
    BY <1>2, <1>3, <1>5, <2>2, NoRefAsked
  <2>9. Found = {b.oid : b \in Range(walk.blobs)} /\ Found' = {b.oid : b \in Range(blobs)}
    BY <2>2 DEF Found, Range
  <2>10. /\ InFrames' \subseteq InFrames /\ InFrames \subseteq InFrames' \cup {item}
         /\ Found \subseteq Found' /\ item.oid \in Found' /\ Tidy' = Tidy
    <3>1. Found \subseteq Found' /\ item.oid \in Found'
      BY <2>3, <2>6, <2>9
    <3> QED
      BY <1>3, <1>12, <1>19, <2>1, <2>2, <3>1 DEF Tidy
  <2>11. \A i : i = item => Settled(i)'
    BY <2>1, <2>10 DEF Settled, kind
  <2>12. TreesKept' /\ FromHere'
    BY <1>1, <1>16, <1>20, <1>21, <2>2, <2>10, <2>11
  <2>13. InCaps'
    <3>1. Len(walk'.frames) <= job.max.depth + 1
      BY <1>2, <1>12, <2>1, <2>2 DEF WalkKept, InCaps
    <3>2. Len(blobs) - walk.from <= job.max.blobs /\ walk.from <= Len(blobs)
      <4>1. ~(Len(walk.blobs) - walk.from >= job.max.blobs)
        BY <2>1 DEF Full
      <4>2. walk.from <= Len(walk.blobs)
        BY <1>2 DEF WalkKept, InCaps
      <4> QED
        BY <1>11, <2>6, <4>1, <4>2
    <3>3. \A i, j \in DOMAIN blobs : blobs[i].oid = blobs[j].oid => i = j
      <4>1. \A i, j \in DOMAIN walk.blobs : walk.blobs[i].oid = walk.blobs[j].oid => i = j
        BY <1>2 DEF WalkKept, InCaps
      <4>2. CASE item.oid \in Found
        BY <2>6, <4>1, <4>2
      <4>3. CASE item.oid \notin Found
        <5>1. blobs = Append(walk.blobs, blob)
          BY <2>4, <4>3
        <5>2. \A i \in 1..Len(walk.blobs) : walk.blobs[i].oid # item.oid
          BY <1>11, <4>3 DEF Found
        <5>3. /\ DOMAIN walk.blobs = 1..Len(walk.blobs)
              /\ DOMAIN blobs = 1..(Len(walk.blobs) + 1)
          BY <1>11, <2>5, <5>1
        <5>4. \A i \in DOMAIN blobs : i \in 1..Len(walk.blobs) \/ i = Len(walk.blobs) + 1
          BY <1>11, <5>3
        <5> HIDE DEF blobs
        <5> QED
          BY <2>3, <2>5, <4>1, <5>1, <5>2, <5>3, <5>4
      <4> QED
        BY <4>2, <4>3
    <3> QED
      BY <1>2, <1>3, <1>6, <2>2, <3>1, <3>2, <3>3 DEF WalkKept, InCaps
  <2>14. IntroIsOldest'
    <3> DEFINE Right(b) ==
          /\ b.commit \in walk.seen \cap Commits /\ b.oid \in Holds[b.commit]
          /\ \A d \in walk.seen \cap Commits : b.oid \in Holds[d] => Date[b.commit] <= Date[d]
    <3> SUFFICES ASSUME Tidy, NEW b \in Range(blobs)
                 PROVE  Right(b)
      BY <2>2, <2>10 DEF IntroIsOldest, Tidy
    <3>1. CASE b \in Range(walk.blobs)
      BY <1>2, <3>1 DEF WalkKept, IntroIsOldest, Tidy
    <3>2. CASE b \notin Range(walk.blobs)
      <4>1. b = blob /\ item.oid \notin Found
        BY <2>6, <3>2
      <4>2. item.oid \in Holds[here]
        BY <1>2, <1>4, <1>14, <2>1 DEF WalkKept, FromHere, kind, here
      <4>3. walk.stage = "trees" /\ ~Push
        BY <1>5 DEF Tidy
      <4>4. ASSUME NEW d \in walk.seen \cap Commits, item.oid \in Holds[d]
            PROVE  Date[here] <= Date[d]
        <5>1. Date[here] \in Nat /\ Date[d] \in Nat /\ OidOrder[here] \in Nat /\ OidOrder[d] \in Nat
          BY <1>5, CommitFacts
        <5>2. CASE d = here
          BY <5>1, <5>2
        <5>3. CASE d \in Range(walk.commits)
          <6>1. Older(here, d)
            BY <1>2, <1>4, <4>3, <5>3 DEF WalkKept, Sorted, here
          <6> QED
            BY <5>1, <6>1 DEF Older
        <5>4. CASE d # here /\ d \notin Range(walk.commits)
          <6>1. Range(walk.here) = {here}
            BY <1>5, <1>15
          <6>2. Holds[d] \subseteq Found
            BY <1>2, <4>3, <5>4, <6>1 DEF WalkKept, Emptied
          <6> QED
            BY <4>1, <4>4, <6>2
        <5> QED
          BY <5>2, <5>3, <5>4
      <4> QED
        BY <1>5, <2>3, <4>1, <4>2, <4>4
    <3> QED
      BY <3>1, <3>2
  <2>15. WalkKept'
    BY <1>1, <1>2, <1>3, <1>4, <1>6, <2>2, <2>6, <2>7, <2>8, <2>10, <2>12, <2>13, <2>14,
       TreeStepKeeps
  <2> QED
    BY <1>3, <1>6, <2>8, <2>15 DEF WalkInv
<1> QED
  BY <1>17, <1>23, <1>24, <1>25, <1>26, <1>27
-----------------------------------------------------------------------------
(* Tags.                                                                     *)

LEMMA TagFacts ==
    ASSUME WalkKept, walk.stage \in {"tagrefs", "tags"}
    PROVE  /\ Signing /\ ~Push /\ walk.here = <<>> /\ walk.pending = <<>> /\ walk.frames = <<>>
           /\ InQueue = {} /\ Walked = (walk.seen \ walk.missed) \cap Commits
           /\ walk.seenTrees = {} /\ (Busy => walk.stage = "tags")
<1>1. /\ Signing /\ ~Push /\ walk.here = <<>> /\ walk.pending = <<>> /\ walk.frames = <<>>
      /\ walk.seenTrees = {}
  BY DEF WalkKept, InOrder
<1>2. InQueue = {} /\ Walked = (walk.seen \ walk.missed) \cap Commits
  BY DEF InQueue, Walked
<1>3. \A x : <<>> # <<x>>
  BY ShortFacts
<1>4. Busy => walk.stage = "tags"
  BY <1>1, <1>3 DEF WalkKept, InOrder
<1> QED
  BY <1>1, <1>2, <1>4

\* What a step of the count of tags has to show.
LEMMA TagStepKeeps ==
    ASSUME WalkKept, walk.stage \in {"tagrefs", "tags"}, WalkTyped', job' = job,
           walk'.stage \in {"tags", "done"}, walk'.tips = walk.tips,
           walk'.outside = walk.outside, walk'.seen = walk.seen, walk'.commits = walk.commits,
           walk'.frames = walk.frames, walk'.pending = walk.pending, walk'.here = walk.here,
           walk'.from = walk.from, walk'.blobs = walk.blobs, walk'.seenTrees = walk.seenTrees,
           walk'.truncated = walk.truncated, walk.missed \subseteq walk'.missed,
           Busy' => walk'.stage = "tags", TagsKept'
    PROVE  WalkKept'
<1>1. /\ Signing /\ ~Push /\ walk.here = <<>> /\ walk.pending = <<>> /\ walk.frames = <<>>
      /\ InQueue = {} /\ Walked = (walk.seen \ walk.missed) \cap Commits /\ walk.seenTrees = {}
  BY TagFacts
<1>2. Push' = Push /\ Signing' = Signing /\ Stops' = Stops /\ job' \in Jobs
  BY DEF Push, Signing, Stops, WalkKept
<1>3. InQueue' = {} /\ Walked' \subseteq Walked
  BY <1>1 DEF InQueue, Walked
<1>4. Known' = Known /\ Cut' = Cut
  BY <1>1, <1>2, <1>3 DEF Known, Cut
<1>5. InOrder'
  BY <1>1, <1>2 DEF WalkKept, InOrder
<1>6. InCaps'
  BY <1>1 DEF WalkKept, InCaps
<1>7. OutsideIsBehind'
  BY <1>2 DEF WalkKept, OutsideIsBehind
<1>8. NoneForgotten'
  BY <1>1, <1>2, <1>3, <1>4 DEF WalkKept, NoneForgotten
<1>9. Listed'
  <2>1. Walked \subseteq Range(walk.commits)
    BY <1>1 DEF WalkKept, Listed
  <2> QED
    BY <1>1, <1>2, <1>3, <2>1 DEF Listed
<1>10. TreesKept' /\ FromHere' /\ Sorted' /\ Emptied'
  BY <1>1 DEF TreesKept, FromHere, Sorted, Emptied
<1>11. IntroIsOldest'
  BY <1>2 DEF WalkKept, IntroIsOldest
<1> QED
  BY <1>2, <1>5, <1>6, <1>7, <1>8, <1>9, <1>10, <1>11 DEF WalkKept

LEMMA PackedTagsKeeps == ASSUME WalkInv, PackedTags PROVE WalkInv'
<1> DEFINE found == WithPacked(Tags, FALSE)
<1>1. /\ walk.stage = "tagrefs" /\ walk.unread = {} /\ Disk /\ NoRead
      /\ \E o \in SetToSeqs(found) :
           walk' = [walk EXCEPT !.stage = "tags", !.got = {}, !.queue = o]
  BY DEF PackedTags, InStage
<1>2. WalkTyped /\ RefsStand /\ RefsGiven /\ job \in Jobs /\ WalkKept /\ StoreInv
  BY DEF WalkInv, WalkKept
<1>3. RefsStand' /\ job' = job /\ UNCHANGED store
  BY <1>1, <1>2, DiskKeeps
<1>4. ~Busy
  BY <1>1, <1>2, TagFacts
<1>5. /\ found \subseteq Oids /\ IsFiniteSet(found)
      /\ \A r \in Tags : Values(r) = {} \/ Values(r) \cap found # {}
  <2>1. Tags = Asked
    BY <1>1 DEF Asked
  <2> QED
    BY <1>1, <1>2, <2>1, WithPackedFacts
<1> HIDE DEF found
<1>6. PICK o : /\ o \in SetToSeqs(found)
               /\ walk' = [walk EXCEPT !.stage = "tags", !.got = {}, !.queue = o]
  BY <1>1, Zenon
<1>7. o \in Seq(Oids) /\ Range(o) = found
  <2>1. o \in Seq(found) /\ Range(o) = found
    BY <1>5, <1>6, OrderFacts
  <2> QED
    BY <1>5, <2>1
<1>8. /\ walk'.stage = "tags" /\ walk'.got = {} /\ walk'.queue = o
      /\ walk'.unread = walk.unread /\ walk'.tips = walk.tips /\ walk'.outside = walk.outside
      /\ walk'.seen = walk.seen /\ walk'.commits = walk.commits /\ walk'.frames = walk.frames
      /\ walk'.pending = walk.pending /\ walk'.here = walk.here /\ walk'.from = walk.from
      /\ walk'.blobs = walk.blobs /\ walk'.seenTrees = walk.seenTrees
      /\ walk'.tags = walk.tags /\ walk'.truncated = walk.truncated
      /\ walk'.missed = walk.missed
  BY <1>2, <1>6 DEF WalkTyped
<1>9. StoreInv' /\ ~Busy'
  BY <1>1, <1>2, <1>3, <1>4, NoReadKeeps
<1>10. WalkTyped'
  BY <1>2, <1>6, <1>7 DEF WalkTyped, Stages
<1>11. RefsGiven'
  <2>1. Asked' = {}
    BY <1>8 DEF Asked
  <2>2. EveryRefIsATip'
    BY <1>1, <1>2, <1>3, <1>8 DEF RefsGiven, EveryRefIsATip
  <2> QED
    BY <1>1, <1>8, <2>1, <2>2 DEF RefsGiven
<1>12. TagsKept'
  BY <1>5, <1>7, <1>8 DEF TagsKept
<1>13. WalkKept'
  BY <1>1, <1>2, <1>3, <1>8, <1>9, <1>10, <1>12, TagStepKeeps
<1> QED
  BY <1>3, <1>9, <1>11, <1>13 DEF WalkInv

LEMMA TagNextKeeps == ASSUME WalkInv, TagNext PROVE WalkInv'
<1> DEFINE t == Head(walk.queue)
<1>1. /\ walk.stage = "tags" /\ read.at = "idle" /\ Disk
      /\ IF walk.queue = <<>>
         THEN walk' = [walk EXCEPT !.stage = "done"] /\ NoRead
         ELSE walk' = [walk EXCEPT !.queue = Tail(@)] /\ StartRead(t)
  BY DEF TagNext, InStage, Ready, Fetches
<1>2. WalkTyped /\ RefsStand /\ RefsGiven /\ job \in Jobs /\ WalkKept /\ StoreInv /\ ~Busy
  BY <1>1 DEF WalkInv, WalkKept, Busy
<1>3. RefsStand' /\ job' = job /\ UNCHANGED store /\ Push' = Push /\ Signing' = Signing
  BY <1>1, <1>2, DiskKeeps DEF Push, Signing
<1>4. Signing
  BY <1>1, <1>2, TagFacts
<1>5. ~Cut => \A r \in Tags :
         \/ Values(r) = {}
         \/ Values(r) \cap (walk.tags \cup walk.missed \cup (Oids \ SignedTags)) # {}
         \/ Values(r) \cap Range(walk.queue) # {}
  BY <1>1, <1>2, <1>4 DEF WalkKept, TagsKept
<1>6. CASE walk.queue = <<>>
  <2>1. walk' = [walk EXCEPT !.stage = "done"] /\ NoRead
    BY <1>1, <1>6
  <2>2. /\ walk'.stage = "done" /\ walk'.unread = walk.unread /\ walk'.got = walk.got
      /\ walk'.tips = walk.tips /\ walk'.queue = walk.queue /\ walk'.outside = walk.outside
      /\ walk'.seen = walk.seen /\ walk'.commits = walk.commits /\ walk'.frames = walk.frames
      /\ walk'.pending = walk.pending /\ walk'.here = walk.here /\ walk'.from = walk.from
      /\ walk'.blobs = walk.blobs /\ walk'.seenTrees = walk.seenTrees
      /\ walk'.tags = walk.tags /\ walk'.truncated = walk.truncated
      /\ walk'.missed = walk.missed
    BY <1>2, <2>1 DEF WalkTyped
  <2>3. StoreInv' /\ ~Busy'
    BY <1>2, <1>3, <2>1, NoReadKeeps
  <2>4. WalkTyped'
    BY <1>2, <2>1 DEF WalkTyped, Stages
  <2>5. RefsGiven'
    BY <1>1, <1>2, <1>3, <2>2, NoRefAsked
  <2>6. TagsKept'
    <3>1. Range(walk.queue) = {} /\ Cut' = Cut
      BY <1>3, <1>6, <2>2, ShortFacts DEF Cut
    <3> QED
      BY <1>5, <2>2, <3>1 DEF TagsKept
  <2>7. WalkKept'
    BY <1>1, <1>2, <1>3, <2>2, <2>3, <2>4, <2>6, TagStepKeeps
  <2> QED
    BY <1>3, <2>3, <2>5, <2>7 DEF WalkInv
<1>7. CASE walk.queue # <<>>
  <2>1. walk' = [walk EXCEPT !.queue = Tail(@)] /\ StartRead(t)
    BY <1>1, <1>7
  <2>2. t \in Oids /\ Tail(walk.queue) \in Seq(Oids) /\ Range(walk.queue) = {t} \cup Range(Tail(walk.queue))
    <3>1. walk.queue \in Seq(Oids)
      BY <1>2 DEF WalkTyped
    <3> QED
      BY <1>7, <3>1, TailFacts
  <2> HIDE DEF t
  <2>3. /\ walk'.queue = Tail(walk.queue) /\ walk'.stage = walk.stage
      /\ walk'.unread = walk.unread /\ walk'.got = walk.got /\ walk'.tips = walk.tips
      /\ walk'.outside = walk.outside /\ walk'.seen = walk.seen
      /\ walk'.commits = walk.commits /\ walk'.frames = walk.frames
      /\ walk'.pending = walk.pending /\ walk'.here = walk.here /\ walk'.from = walk.from
      /\ walk'.blobs = walk.blobs /\ walk'.seenTrees = walk.seenTrees
      /\ walk'.tags = walk.tags /\ walk'.truncated = walk.truncated
      /\ walk'.missed = walk.missed
    BY <1>2, <2>1 DEF WalkTyped
  <2>4. StoreInv' /\ Busy' /\ read'.oid = t
    BY <1>2, <1>3, <2>1, <2>2, StartKeeps
  <2>5. WalkTyped'
    BY <1>2, <2>1, <2>2 DEF WalkTyped
  <2>6. RefsGiven'
    BY <1>1, <1>2, <1>3, <2>3, NoRefAsked
  <2>7. TagsKept'
    <3>1. Cut' = Cut
      BY <1>3, <2>3 DEF Cut
    <3> QED
      BY <1>1, <1>5, <2>2, <2>3, <2>4, <3>1 DEF TagsKept
  <2>8. WalkKept'
    BY <1>1, <1>2, <1>3, <2>3, <2>5, <2>7, TagStepKeeps
  <2> QED
    BY <1>3, <2>4, <2>6, <2>8 DEF WalkInv
<1> QED
  BY <1>6, <1>7

LEMMA TagGotKeeps == ASSUME WalkInv, TagGot PROVE WalkInv'
<1> DEFINE t == read.oid
           ok == ReadAs("tag")
           tags == walk.tags \cup IF ok THEN {t} \cap Signed ELSE {}
<1>1. /\ walk.stage = "tags" /\ read.at = "done" /\ Disk /\ Handled
      /\ walk' = [walk EXCEPT !.missed = Missed, !.tags = tags]
  BY DEF TagGot, InStage, Answered
<1>2. WalkTyped /\ RefsStand /\ RefsGiven /\ job \in Jobs /\ WalkKept /\ StoreInv /\ Busy /\ t \in Oids
  BY <1>1 DEF WalkInv, WalkKept, Busy, StoreInv, ReadTyped
<1>3. RefsStand' /\ job' = job /\ UNCHANGED store /\ Push' = Push /\ Signing' = Signing
  BY <1>1, <1>2, DiskKeeps DEF Push, Signing
<1>4. Signing
  BY <1>1, <1>2, TagFacts
<1>5. /\ Missed \subseteq Oids /\ walk.missed \subseteq Missed
      /\ tags \subseteq Oids /\ walk.tags \subseteq tags
      /\ t \in tags \cup Missed \cup (Oids \ SignedTags)
  BY <1>2 DEF Missed, WalkTyped, ReadAs, SignedTags
<1> HIDE DEF t, tags
<1>6. /\ walk'.missed = Missed /\ walk'.tags = tags /\ walk'.stage = walk.stage
      /\ walk'.unread = walk.unread /\ walk'.got = walk.got /\ walk'.tips = walk.tips
      /\ walk'.queue = walk.queue /\ walk'.outside = walk.outside /\ walk'.seen = walk.seen
      /\ walk'.commits = walk.commits /\ walk'.frames = walk.frames
      /\ walk'.pending = walk.pending /\ walk'.here = walk.here /\ walk'.from = walk.from
      /\ walk'.blobs = walk.blobs /\ walk'.seenTrees = walk.seenTrees
      /\ walk'.truncated = walk.truncated
  BY <1>1, <1>2 DEF WalkTyped
<1>7. StoreInv' /\ ~Busy'
  BY <1>1, <1>2, <1>3, HandledKeeps
<1>8. WalkTyped'
  BY <1>1, <1>2, <1>5 DEF WalkTyped
<1>9. RefsGiven'
  BY <1>1, <1>2, <1>3, <1>6, NoRefAsked
<1>10. TagsKept'
  <2>1. Cut' = Cut
    BY <1>3, <1>6 DEF Cut
  <2>2. ~Cut => \A r \in Tags :
         \/ Values(r) = {}
         \/ Values(r) \cap (walk.tags \cup walk.missed \cup (Oids \ SignedTags)) # {}
         \/ Values(r) \cap (Range(walk.queue) \cup {t}) # {}
    BY <1>1, <1>2, <1>4 DEF WalkKept, TagsKept, t
  <2> QED
    BY <1>1, <1>5, <1>6, <2>1, <2>2 DEF TagsKept
<1>11. WalkKept'
  BY <1>1, <1>2, <1>3, <1>5, <1>6, <1>7, <1>8, <1>10, TagStepKeeps
<1> QED
  BY <1>3, <1>7, <1>9, <1>11 DEF WalkInv

-----------------------------------------------------------------------------
(* The invariant, and what follows from it.                                  *)

LEMMA WalkStepKeeps == ASSUME WalkInv, [WalkNext]_walkVars PROVE WalkInv'
<1> DEFINE Still == UNCHANGED <<looseRef, packedRef, job, walk>>
<1>1. ASSUME NEW r \in RefNames, LooseTip(r) PROVE WalkInv'
  BY <1>1, LooseTipKeeps
<1>2. ASSUME Reading, Still PROVE WalkInv'
  <2>1. StoreInv /\ RefsStand /\ RefsGiven /\ WalkKept
    BY DEF WalkInv
  <2>2. StoreInv' /\ Busy' = Busy /\ read'.oid = read.oid
    BY <1>2, <2>1, ReadingKeeps
  <2>3. RefsStand' /\ RefsGiven'
    BY <1>2, <2>1 DEF RefsStand, RefsGiven, Asked, EveryRefIsATip
  <2> QED
    BY <1>2, <2>1, <2>2, <2>3, WalkStays DEF WalkInv
<1>3. ASSUME GcStep, Still PROVE WalkInv'
  <2>1. StoreInv /\ RefsStand /\ RefsGiven /\ WalkKept
    BY DEF WalkInv
  <2>2. StoreInv' /\ Busy' = Busy /\ read' = read
    BY <1>3, <2>1, GcStepKeeps
  <2>3. RefsStand' /\ RefsGiven'
    BY <1>3, <2>1 DEF RefsStand, RefsGiven, Asked, EveryRefIsATip
  <2> QED
    BY <1>3, <2>1, <2>2, <2>3, WalkStays DEF WalkInv
<1>4. ASSUME \/ GcPacksRefs
             \/ \E r \in RefNames : GcDropsLooseRef(r) \/ MovesRef(r)
      PROVE  WalkInv'
  <2>1. StoreInv /\ RefsStand /\ RefsGiven /\ WalkKept
    BY DEF WalkInv
  <2>2. UNCHANGED <<walk, job>> /\ UNCHANGED store /\ NoRead
    BY <1>4 DEF GcPacksRefs, GcDropsLooseRef, MovesRef, NoRead, store
  <2>3. RefsStand' /\ RefsGiven'
    BY <1>4, <2>1, <2>2, RefsMove
  <2>4. StoreInv' /\ Busy' = Busy /\ read' = read
    BY <2>1, <2>2, NoReadKeeps
  <2> QED
    BY <2>1, <2>2, <2>3, <2>4, WalkStays DEF WalkInv
<1>5. ASSUME UNCHANGED walkVars PROVE WalkInv'
  <2>1. StoreInv /\ RefsStand /\ RefsGiven /\ WalkKept
    BY DEF WalkInv
  <2>2. UNCHANGED store /\ NoRead /\ Still
    BY <1>5 DEF walkVars, store, NoRead
  <2>3. RefsStand' /\ RefsGiven'
    BY <2>1, <2>2 DEF RefsStand, RefsGiven, Asked, EveryRefIsATip
  <2>4. StoreInv' /\ Busy' = Busy /\ read' = read
    BY <2>1, <2>2, NoReadKeeps
  <2> QED
    BY <2>1, <2>2, <2>3, <2>4, WalkStays DEF WalkInv
<1> QED
  BY <1>1, <1>2, <1>3, <1>4, <1>5, PackedTipsKeeps, PackedStopKeeps, StopNextKeeps, StopGotKeeps,
     StopEndKeeps, CommitNextKeeps, CommitGotKeeps, PushTreeEndKeeps, CommitsEndKeeps,
     IntroNextKeeps, IntroTreeEndKeeps, EnterTreeKeeps, TreeGotKeeps, TreeItemKeeps,
     PackedTagsKeeps, TagNextKeeps, TagGotKeeps
  DEF WalkNext, Walker

LEMMA WalkInvIs == WalkSpec => []WalkInv
<1>1. WalkInit => WalkInv
  BY WalkBegins DEF WalkInv
<1>2. WalkInv /\ [WalkNext]_walkVars => WalkInv'
  BY WalkStepKeeps
<1> QED
  BY <1>1, <1>2, PTL DEF WalkSpec

\* A set of as many elements as a sequence without repetitions.
LEMMA FoundCounted ==
    ASSUME WalkKept
    PROVE  Found \subseteq Blobs /\ Cardinality(Found) = Len(walk.blobs)
<1> DEFINE n == Len(walk.blobs)
           f == [i \in 1..n |-> walk.blobs[i].oid]
<1>1. walk.blobs \in Seq([oid : Blobs, commit : Commits]) /\ n \in Nat /\ DOMAIN walk.blobs = 1..n
  BY DEF WalkKept, WalkTyped
<1>2. \A i, j \in 1..n : walk.blobs[i].oid = walk.blobs[j].oid => i = j
  BY <1>1 DEF WalkKept, InCaps
<1>3. Found = {walk.blobs[i].oid : i \in 1..n}
  BY <1>1 DEF Found
<1>4. \A i \in 1..n : walk.blobs[i].oid \in Blobs
  <2>1. \A i \in 1..n : walk.blobs[i] \in [oid : Blobs, commit : Commits]
    BY <1>1, ElementOfSeq
  <2> QED
    BY <2>1
<1>5. ExistsBijection(1..n, Found)
  <2>1. f \in [1..n -> Found] /\ DOMAIN f = 1..n
    BY <1>3
  <2>2. \A i, j \in 1..n : f[i] = f[j] => i = j
    BY <1>2
  <2>3. \A x \in Found : \E i \in 1..n : f[i] = x
    BY <1>3
  <2> HIDE DEF f
  <2> QED
    BY <2>1, <2>2, <2>3 DEF ExistsBijection, Bijection, Injection, Surjection, IsInjective
<1>6. IsFiniteSet(1..n) /\ Cardinality(1..n) = n
  <2>1. 1 \in Int /\ n \in Int /\ (1 > n => n = 0) /\ n - 1 + 1 = n
    BY <1>1
  <2> QED
    BY <1>1, <2>1, FS_Interval
<1> HIDE DEF n, f
<1>7. Cardinality(Found) = Cardinality(1..n)
  BY <1>5, <1>6, FS_Bijection
<1> QED
  BY <1>3, <1>4, <1>6, <1>7 DEF n

\* Once nothing is forgotten and all is listed, what was asked for was walked.
LEMMA AllWalked ==
    ASSUME WalkKept, walk.stage = "done", ~Cut
    PROVE  WalkScope \subseteq (walk.seen \ walk.missed) \cap Commits
<1> DEFINE W == (walk.seen \ walk.missed) \cap Commits
           S == W \cup Stops
<1>1. Walked = W /\ Known = walk.outside \cup walk.seen
  BY DEF Walked, Known, InQueue
<1>2. \A x : <<x>> # <<>>
  BY ShortFacts
<1>3. walk.here = <<>>
  BY DEF WalkKept, InOrder
<1>4. /\ walk.tips \cap Commits \subseteq Known
      /\ \A c \in Walked : Range(Parents[c]) \subseteq Known
  BY <1>2, <1>3 DEF WalkKept, NoneForgotten
<1>5. walk.outside \cap Commits \subseteq Stops
  BY DEF WalkKept, OutsideIsBehind
<1>6. Stops \subseteq Commits /\ \A c \in Stops : Range(Parents[c]) \subseteq Stops
  <2>1. CASE job.stop = NoRef
    BY <2>1 DEF Stops
  <2>2. CASE job.stop # NoRef
    <3>1. Stops = Reach(Values(job.stop), {})
      BY <2>2 DEF Stops
    <3> QED
      BY <3>1, ReachFacts
  <2> QED
    BY <2>1, <2>2
<1>7. \A c \in Commits : Range(Parents[c]) \subseteq Commits
  BY CommitFacts, RangeIn
<1> HIDE DEF W
<1>8. W \subseteq Commits /\ (walk.seen \cap Commits) \ walk.missed \subseteq W
  BY DEF W
<1>9. S \in SUBSET Commits
  BY <1>6, <1>8
<1>10. (walk.tips \cap Commits) \ walk.missed \subseteq S
  BY <1>1, <1>4, <1>5, <1>8
<1>11. \A d \in S : Range(Parents[d]) \ walk.missed \subseteq S
  <2>1. ASSUME NEW d \in W PROVE Range(Parents[d]) \ walk.missed \subseteq S
    BY <1>1, <1>4, <1>5, <1>7, <1>8, <2>1
  <2>2. ASSUME NEW d \in Stops PROVE Range(Parents[d]) \ walk.missed \subseteq S
    BY <1>6, <2>2
  <2> QED
    BY <2>1, <2>2
<1> HIDE DEF S
<1>12. Reach(walk.tips, walk.missed) \subseteq S
  BY <1>9, <1>10, <1>11, ReachLeast
<1> QED
  BY <1>12 DEF WalkScope, S, W

LEMMA DoneIsWhole ==
    ASSUME WalkKept
    PROVE  NothingSkippedSilently /\ SignaturesCounted
<1>1. NothingSkippedSilently
  <2> SUFFICES ASSUME walk.stage = "done", ~walk.truncated, ~Signing,
                      ~(Push /\ Len(walk.blobs) >= job.max.blobs)
               PROVE  Under({RootTree[c] : c \in WalkScope}, walk.missed) \subseteq Found
    BY DEF NothingSkippedSilently, Done, Signing
  <2>1. ~Cut
    BY DEF Cut
  <2>2. WalkScope \subseteq (walk.seen \ walk.missed) \cap Commits
    BY <2>1, AllWalked
  <2>3. walk.here = <<>> /\ walk.pending = <<>> /\ walk.frames = <<>>
    BY DEF WalkKept, InOrder
  <2>4. AllSettled
    BY <2>3, TreeDone
  <2>5. \A x : <<x>> # <<>>
    BY ShortFacts
  <2>6. ~Push => Range(walk.commits) = {}
    BY ShortFacts DEF WalkKept, InOrder
  <2>7. Walked = (walk.seen \ walk.missed) \cap Commits
    BY DEF Walked
  <2>8. \A c \in Walked : RootTree[c] \in walk.seenTrees
    BY <2>1, <2>3, <2>5, <2>6 DEF WalkKept, Listed
  <2> DEFINE trees == {RootTree[c] : c \in WalkScope}
  <2>9. trees \ walk.missed \subseteq walk.seenTrees
    BY <2>2, <2>7, <2>8
  <2> HIDE DEF trees
  <2>10. Under(trees, walk.missed) \subseteq Found
    BY <2>4, <2>9, AllGathered DEF WalkKept
  <2> QED
    BY <2>10 DEF trees
<1>2. SignaturesCounted
  <2> SUFFICES ASSUME walk.stage = "done", Signing, Cardinality(walk.seen) < job.max.commits
               PROVE  /\ WalkScope \cap Signed \subseteq SignedCommits
                      /\ \A r \in Tags :
                           \/ Values(r) = {}
                           \/ Values(r) \cap (walk.tags \cup walk.missed \cup (Oids \ SignedTags)) # {}
    BY DEF SignaturesCounted, Done, Signing
  <2>1. ~(Cardinality(walk.seen) >= job.max.commits)
    <3>1. IsFiniteSet(walk.seen)
      BY CommitFacts, FS_Subset DEF WalkKept, WalkTyped
    <3>2. Cardinality(walk.seen) \in Nat /\ job.max.commits \in Nat
      BY <3>1, FS_CardinalityType, JobFacts DEF WalkKept
    <3> QED
      BY <3>2
  <2>2. ~Push /\ ~walk.truncated
    BY DEF WalkKept, InOrder, Push, Signing
  <2>3. ~Cut
    BY <2>1, <2>2 DEF Cut
  <2>4. WalkScope \subseteq (walk.seen \ walk.missed) \cap Commits
    BY <2>3, AllWalked
  <2>5. Walked = (walk.seen \ walk.missed) \cap Commits
    BY DEF Walked
  <2>6. Walked \subseteq Range(walk.commits)
    BY <2>2 DEF WalkKept, Listed
  <2>7. SignedCommits = Range(walk.commits) \cap Signed
    BY DEF SignedCommits, Range
  <2>8. \A r \in Tags : \/ Values(r) = {}
                        \/ Values(r) \cap (walk.tags \cup walk.missed \cup (Oids \ SignedTags)) # {}
    BY <2>3 DEF WalkKept, TagsKept
  <2> QED
    BY <2>4, <2>5, <2>6, <2>7, <2>8
<1> QED
  BY <1>1, <1>2

LEMMA WalkInvShows == ASSUME WalkInv PROVE WalkIsWhole /\ IntroIsOldest
<1>1. StoreInv /\ RefsStand /\ RefsGiven /\ WalkKept
  BY DEF WalkInv
<1>2. WalkTypeOK
  <2>1. ObjectsTypeOK
    BY <1>1, ReadKeptExplains
  <2>2. Found \subseteq Blobs /\ Cardinality(Found) = Len(walk.blobs)
    BY <1>1, FoundCounted
  <2>3. /\ walk.stage \in Stages /\ walk.unread \subseteq RefNames
        /\ walk.tips \cup walk.outside \cup walk.seen \cup walk.missed \subseteq Oids
    BY <1>1 DEF WalkKept, WalkTyped
  <2> QED
    BY <1>1, <2>1, <2>2, <2>3 DEF WalkTypeOK, WalkKept, InCaps, RefsStand, Stages
<1>3. MissesAreExplained /\ EveryRefIsATip
  BY <1>1, ReadKeptExplains DEF RefsGiven
<1> QED
  BY <1>1, <1>2, <1>3, DoneIsWhole DEF WalkIsWhole, WalkKept

\* gitwalk.rs:10-18, 147-169: whatever of history a walk does not show, it says so, however
\* gc packs objects and refs and branches move while it runs.
THEOREM WalkWhole == WalkSpec => []WalkIsWhole
<1>1. WalkInv => WalkIsWhole
  BY WalkInvShows
<1> QED
  BY <1>1, WalkInvIs, PTL

\* gitwalk.rs:129-132, 195-203: a blob is attributed to a commit that has it, and to none
\* that is younger than another that was walked and has it.
THEOREM OldestIntro == WalkSpec => []IntroIsOldest
<1>1. WalkInv => IntroIsOldest
  BY WalkInvShows
<1> QED
  BY <1>1, WalkInvIs, PTL
==============================================================================
