--------------------------- MODULE PipelineProofs ---------------------------
(* What Pipeline guarantees for all policies, verbs and worlds, and however  *)
(* often the administrator rewrites the policy; at the end, what Vetting     *)
(* guarantees of a commit, of the pre-commit hook and of what a scan reports.*)
EXTENDS Pipeline, Vetting, Integers, Sequences, FiniteSetTheorems, WellFoundedInduction, TLAPS

Early == {"arm", "armed", "pre", "gate", "ask", "pre wait"}
Late  == {"post", "record", "post wait"}

-----------------------------------------------------------------------------
(* Types: what a stage's turn and its program are bounded by.                *)

LEMMA LoadTyped ==
    ASSUME NEW there \in BOOLEAN, NEW now \in Files, enforce \in BOOLEAN
    PROVE  Load(there, now) \in LoadType
  BY DEF Load, Files, LoadType

LEMMA ZeroPolicyTyped == ZeroPolicy \in PolicyType
<1>1. <<>> \in Seq(STRING) /\ {} \in SUBSET Verbs
  OBVIOUS
<1> QED
  BY <1>1 DEF ZeroPolicy, PolicyType

LEMMA ProgramsAreSequences ==
    ASSUME registry \in LoadType, NEW when \in {"pre", "post"}
    PROVE  Len(Programs(when)) \in Nat
<1>1. registry.policy \in Policies \cup {ZeroPolicy}
  BY DEF LoadType
<1>2. registry.policy \in PolicyType
  BY <1>1, ZeroPolicyTyped, PipelineAssumption
<1>3. registry.policy.pre \in Seq(STRING) /\ registry.policy.post \in Seq(STRING)
  BY <1>2 DEF PolicyType
<1> QED
  BY <1>3 DEF Programs

LEMMA TypeInit == Init => TypeOK
<1> SUFFICES ASSUME Init PROVE TypeOK
  OBVIOUS
<1>1. registry \in LoadType /\ at = 0
  BY DEF Init, LoadType, NoPolicy
<1>2. Len(Programs("pre")) \in Nat /\ Len(Programs("post")) \in Nat
  BY <1>1, ProgramsAreSequences
<1>3. notes \in NotesType /\ seen \in Seq(OutcomeType)
  <2>1. notes = <<>> /\ seen = <<>>
    BY DEF Init
  <2> QED
    BY <2>1 DEF NotesType
<1>4. /\ file \in Files /\ enforce \in BOOLEAN /\ edits \in 0..Edits
      /\ meddled \subseteq {"changed", "vanished"}
  <2>1. file \in Files /\ enforce \in BOOLEAN /\ edits = 0 /\ meddled = {}
    BY DEF Init
  <2>2. Edits \in Nat
    BY PipelineAssumption
  <2> QED
    BY <2>1, <2>2
<1>5. /\ pc \in {"arm", "armed", "pre", "gate", "ask", "pre wait", "core", "exit", "post", "record",
               "post wait", "gone"}
      /\ request \in CommandType /\ marked \in BOOLEAN /\ world \in Worlds /\ found \in BOOLEAN
  BY DEF Init, CommandType
<1>6. /\ argv \in CommandType \cup {None} /\ vetting \in Policies \cup {ZeroPolicy, None}
      /\ child \in Answers \cup {None, Running} /\ ran \in CommandType \cup {None}
      /\ status \in Answers \cup {128, None} /\ fate = {} /\ row = None /\ child = None
  BY DEF Init
<1>7. /\ code \in Answers /\ known \in BOOLEAN /\ blocked \in BOOLEAN
      /\ core \in {"not entered", "running", "returned", "exited"}
  BY DEF Init, Answers
<1>8. /\ at \in Nat /\ at <= 1 + Len(Programs("pre")) /\ at <= 1 + Len(Programs("post"))
  BY <1>1, <1>2
<1>9. row \in RowType \cup {None}
  BY <1>6
<1>10. fate \subseteq {"killed", "panicked", "post panicked"}
  BY <1>6
<1> HIDE DEF Programs, LoadType, CommandType, OutcomeType, Answers, Files
<1> QED
  BY <1>1, <1>3, <1>4, <1>5, <1>6, <1>7, <1>8, <1>9, <1>10 DEF TypeOK

LEMMA OutcomeTyped == TypeOK => Outcome \in OutcomeType
  BY DEF TypeOK, Outcome, Blocked, Returned, Exited, OutcomeType, Answers

LEMMA EffectiveTyped ==
    request \in CommandType => Effective \in CommandType /\ Effective.verb = request.verb
  BY DEF Effective, CommandType

LEMMA RowTyped ==
    TypeOK => Row \in RowType /\ Load(found, file) \in LoadType
<1> SUFFICES ASSUME TypeOK PROVE Row \in RowType /\ Load(found, file) \in LoadType
  OBVIOUS
<1>1. Load(found, file) \in LoadType
  BY LoadTyped DEF TypeOK
<1>2. Load(found, file).path \in BOOLEAN
  BY <1>1 DEF LoadType
<1>3. Outcome.code \in Answers /\ Mode(Outcome) \in {"blocked", "passthrough"}
  BY OutcomeTyped DEF OutcomeType, Mode
<1>4. argv \in CommandType \cup {None}
  BY DEF TypeOK
<1> QED
  BY <1>1, <1>2, <1>3, <1>4 DEF Row, RowType

LEMMA NotesTyped ==
    ASSUME notes \in NotesType
    PROVE  /\ notes \o <<>> \in NotesType /\ Append(notes, "allow") \in NotesType
           /\ notes \o <<"block">> \in NotesType /\ notes \o <<"error">> \in NotesType
  BY DEF NotesType

\* What never changes, what a stage changes, and what only some steps change.
Fixed ==
    /\ file \in Files /\ enforce \in BOOLEAN /\ edits \in 0..Edits
    /\ meddled \subseteq {"changed", "vanished"}
    /\ request \in CommandType /\ marked \in BOOLEAN /\ world \in Worlds /\ found \in BOOLEAN
Gathered ==
    /\ argv \in CommandType \cup {None} /\ registry \in LoadType
    /\ vetting \in Policies \cup {ZeroPolicy, None} /\ ran \in CommandType \cup {None}
    /\ notes \in NotesType /\ seen \in Seq(OutcomeType) /\ row \in RowType \cup {None}
Labels ==
    /\ pc \in {"arm", "armed", "pre", "gate", "ask", "pre wait", "core", "exit", "post", "record",
               "post wait", "gone"}
    /\ core \in {"not entered", "running", "returned", "exited"}
    /\ fate \subseteq {"killed", "panicked", "post panicked"}
Codes ==
    /\ child \in Answers \cup {None, Running}
    /\ code \in Answers /\ known \in BOOLEAN /\ blocked \in BOOLEAN
    /\ status \in Answers \cup {128, None}
Turn ==
    /\ at \in Nat
    /\ pc \in {"arm", "armed", "pre", "gate", "ask", "pre wait"} => at <= 1 + Len(Programs("pre"))
    /\ pc \in {"post", "record", "post wait"} => at <= 1 + Len(Programs("post"))
    /\ child # None => pc \in {"pre wait", "post wait"} \/ fate # {}

LEMMA TypeParts == TypeOK <=> Fixed /\ Gathered /\ Labels /\ Codes /\ Turn
  BY DEF TypeOK, Fixed, Gathered, Labels, Codes, Turn

LEMMA FixedNext == Fixed /\ [Next]_vars => Fixed'
<1> SUFFICES ASSUME Fixed, [Next]_vars PROVE Fixed'
  OBVIOUS
<1>a. Edits \in Nat
  BY PipelineAssumption
<1> USE DEF Fixed, machine, typed
<1>1. ASSUME ArmPost PROVE Fixed'
  BY <1>1 DEF ArmPost, Arm, Look
<1>2. ASSUME RefuseMarked PROVE Fixed'
  BY <1>2 DEF RefuseMarked, Block, RecordExit
<1>3. ASSUME NoBackend PROVE Fixed'
  BY <1>3 DEF NoBackend, Block, RecordExit
<1>4. ASSUME GateLooks PROVE Fixed'
  BY <1>4 DEF GateLooks, Look
<1>5. ASSUME GateDecides PROVE Fixed'
  BY <1>5 DEF GateDecides, Continue, Block, RecordExit
<1>6. ASSUME SpawnPre PROVE Fixed'
  BY <1>6 DEF SpawnPre, Spawn
<1>7. ASSUME PreAnswered PROVE Fixed'
  BY <1>7 DEF PreAnswered, Continue, Block, RecordExit
<1>8. ASSUME PreFails PROVE Fixed'
  BY <1>8 DEF PreFails, Block, RecordExit
<1>9. ASSUME EnterCore PROVE Fixed'
  BY <1>9 DEF EnterCore
<1>10. ASSUME Trampoline PROVE Fixed'
  BY <1>10 DEF Trampoline
<1>11. ASSUME AuditSkips PROVE Fixed'
  BY <1>11 DEF AuditSkips, Observe, NextPost
<1>12. ASSUME AuditLooks PROVE Fixed'
  BY <1>12 DEF AuditLooks, Look, Observe
<1>13. ASSUME AuditWrites PROVE Fixed'
  BY <1>13 DEF AuditWrites, NextPost
<1>14. ASSUME SpawnPost PROVE Fixed'
  BY <1>14 DEF SpawnPost, Spawn, Observe
<1>15. ASSUME PostEnds PROVE Fixed'
  BY <1>15 DEF PostEnds, NextPost, Observe
<1>16. ASSUME Finish PROVE Fixed'
  BY <1>16 DEF Finish
<1>17. ASSUME Answer PROVE Fixed'
  BY <1>17 DEF Answer
<1>18. ASSUME CoreReturns PROVE Fixed'
  BY <1>18 DEF CoreReturns, RecordExit
<1>19. ASSUME CoreExits PROVE Fixed'
  BY <1>19 DEF CoreExits
<1>20. ASSUME Panic PROVE Fixed'
  BY <1>20 DEF Panic
<1>21. ASSUME Kill PROVE Fixed'
  BY <1>21 DEF Kill
<1>22. ASSUME EditPolicy PROVE Fixed'
  <2>1. meddled' \subseteq {"changed", "vanished"}
    <3>1. meddled' \subseteq meddled \cup {"changed", "vanished"}
      BY <1>22 DEF EditPolicy
    <3> QED
      BY <3>1
  <2> QED
    BY <1>a, <1>22, <2>1 DEF EditPolicy
<1>23. ASSUME UNCHANGED vars PROVE Fixed'
  BY <1>23 DEF vars
<1>24. ASSUME GateAsks PROVE Fixed'
  BY <1>24 DEF GateAsks
<1>25. ASSUME GitAnswers PROVE Fixed'
  BY <1>25 DEF GitAnswers, Continue, Block, RecordExit
<1> QED
  BY <1>1, <1>2, <1>3, <1>4, <1>5, <1>6, <1>7, <1>8, <1>9, <1>10, <1>11, <1>12, <1>13, <1>14, <1>15, <1>16, <1>17, <1>18, <1>19, <1>20, <1>21, <1>22, <1>23, <1>24, <1>25 DEF Next, Gitc

LEMMA GatheredNext == TypeOK /\ [Next]_vars => Gathered'
<1> SUFFICES ASSUME TypeOK, [Next]_vars PROVE Gathered'
  OBVIOUS
<1>a. Gathered
  BY TypeParts
<1>b. /\ Effective \in CommandType /\ Row \in RowType /\ Load(found, file) \in LoadType
      /\ Load(found, file).policy \in Policies \cup {ZeroPolicy}
  BY EffectiveTyped, RowTyped DEF TypeOK, LoadType
<1>c. Append(seen, Outcome) \in Seq(OutcomeType)
  <2>1. seen \in Seq(OutcomeType) /\ Outcome \in OutcomeType
    BY OutcomeTyped DEF TypeOK
  <2> HIDE DEF OutcomeType, Outcome
  <2> QED
    BY <2>1
<1>d. /\ notes \o <<>> \in NotesType /\ Append(notes, "allow") \in NotesType
      /\ notes \o <<"block">> \in NotesType /\ notes \o <<"error">> \in NotesType
  BY NotesTyped DEF TypeOK
<1> USE <1>a DEF Gathered, armed, git, after
<1>1. ASSUME ArmPost PROVE Gathered'
  BY <1>1, <1>b, <1>c, <1>d DEF ArmPost, Arm, Look
<1>2. ASSUME RefuseMarked PROVE Gathered'
  BY <1>2, <1>b, <1>c, <1>d DEF RefuseMarked, Block, RecordExit
<1>3. ASSUME NoBackend PROVE Gathered'
  BY <1>3, <1>b, <1>c, <1>d DEF NoBackend, Block, RecordExit
<1>4. ASSUME GateLooks PROVE Gathered'
  BY <1>4, <1>b, <1>c, <1>d DEF GateLooks, Look
<1>5. ASSUME GateDecides PROVE Gathered'
  BY <1>5, <1>b, <1>c, <1>d DEF GateDecides, Continue, Block, RecordExit
<1>6. ASSUME SpawnPre PROVE Gathered'
  BY <1>6, <1>b, <1>c, <1>d DEF SpawnPre, Spawn
<1>7. ASSUME PreAnswered PROVE Gathered'
  BY <1>7, <1>b, <1>c, <1>d DEF PreAnswered, Continue, Block, RecordExit
<1>8. ASSUME PreFails PROVE Gathered'
  BY <1>8, <1>b, <1>c, <1>d DEF PreFails, Block, RecordExit
<1>9. ASSUME EnterCore PROVE Gathered'
  BY <1>9, <1>b, <1>c, <1>d DEF EnterCore
<1>10. ASSUME Trampoline PROVE Gathered'
  BY <1>10, <1>b, <1>c, <1>d DEF Trampoline
<1>11. ASSUME AuditSkips PROVE Gathered'
  BY <1>11, <1>b, <1>c, <1>d DEF AuditSkips, Observe, NextPost
<1>12. ASSUME AuditLooks PROVE Gathered'
  BY <1>12, <1>b, <1>c, <1>d DEF AuditLooks, Look, Observe
<1>13. ASSUME AuditWrites PROVE Gathered'
  BY <1>13, <1>b, <1>c, <1>d DEF AuditWrites, NextPost
<1>14. ASSUME SpawnPost PROVE Gathered'
  BY <1>14, <1>b, <1>c, <1>d DEF SpawnPost, Spawn, Observe
<1>15. ASSUME PostEnds PROVE Gathered'
  BY <1>15, <1>b, <1>c, <1>d DEF PostEnds, NextPost, Observe
<1>16. ASSUME Finish PROVE Gathered'
  BY <1>16, <1>b, <1>c, <1>d DEF Finish
<1>17. ASSUME Answer PROVE Gathered'
  BY <1>17, <1>b, <1>c, <1>d DEF Answer
<1>18. ASSUME CoreReturns PROVE Gathered'
  BY <1>18, <1>b, <1>c, <1>d DEF CoreReturns, RecordExit
<1>19. ASSUME CoreExits PROVE Gathered'
  BY <1>19, <1>b, <1>c, <1>d DEF CoreExits
<1>20. ASSUME Panic PROVE Gathered'
  BY <1>20, <1>b, <1>c, <1>d DEF Panic
<1>21. ASSUME Kill PROVE Gathered'
  BY <1>21, <1>b, <1>c, <1>d DEF Kill
<1>22. ASSUME EditPolicy PROVE Gathered'
  BY <1>22, <1>b, <1>c, <1>d DEF EditPolicy
<1>23. ASSUME UNCHANGED vars PROVE Gathered'
  BY <1>23, <1>b, <1>c, <1>d DEF vars
<1>24. ASSUME GateAsks PROVE Gathered'
  BY <1>24, <1>b, <1>c, <1>d DEF GateAsks
<1>25. ASSUME GitAnswers PROVE Gathered'
  BY <1>25, <1>b, <1>c, <1>d DEF GitAnswers, Continue, Block, RecordExit
<1> QED
  BY <1>1, <1>2, <1>3, <1>4, <1>5, <1>6, <1>7, <1>8, <1>9, <1>10, <1>11, <1>12, <1>13, <1>14, <1>15, <1>16, <1>17, <1>18, <1>19, <1>20, <1>21, <1>22, <1>23, <1>24, <1>25 DEF Next, Gitc

LEMMA LabelsNext == Labels /\ [Next]_vars => Labels'
<1> SUFFICES ASSUME Labels, [Next]_vars PROVE Labels'
  OBVIOUS
<1> USE DEF Labels, git
<1>1. ASSUME ArmPost PROVE Labels'
  BY <1>1 DEF ArmPost, Arm, Look
<1>2. ASSUME RefuseMarked PROVE Labels'
  BY <1>2 DEF RefuseMarked, Block, RecordExit
<1>3. ASSUME NoBackend PROVE Labels'
  BY <1>3 DEF NoBackend, Block, RecordExit
<1>4. ASSUME GateLooks PROVE Labels'
  BY <1>4 DEF GateLooks, Look
<1>5. ASSUME GateDecides PROVE Labels'
  BY <1>5 DEF GateDecides, Continue, Block, RecordExit
<1>6. ASSUME SpawnPre PROVE Labels'
  BY <1>6 DEF SpawnPre, Spawn
<1>7. ASSUME PreAnswered PROVE Labels'
  BY <1>7 DEF PreAnswered, Continue, Block, RecordExit
<1>8. ASSUME PreFails PROVE Labels'
  BY <1>8 DEF PreFails, Block, RecordExit
<1>9. ASSUME EnterCore PROVE Labels'
  BY <1>9 DEF EnterCore
<1>10. ASSUME Trampoline PROVE Labels'
  BY <1>10 DEF Trampoline
<1>11. ASSUME AuditSkips PROVE Labels'
  BY <1>11 DEF AuditSkips, Observe, NextPost
<1>12. ASSUME AuditLooks PROVE Labels'
  BY <1>12 DEF AuditLooks, Look, Observe
<1>13. ASSUME AuditWrites PROVE Labels'
  BY <1>13 DEF AuditWrites, NextPost
<1>14. ASSUME SpawnPost PROVE Labels'
  BY <1>14 DEF SpawnPost, Spawn, Observe
<1>15. ASSUME PostEnds PROVE Labels'
  BY <1>15 DEF PostEnds, NextPost, Observe
<1>16. ASSUME Finish PROVE Labels'
  BY <1>16 DEF Finish
<1>17. ASSUME Answer PROVE Labels'
  BY <1>17 DEF Answer
<1>18. ASSUME CoreReturns PROVE Labels'
  BY <1>18 DEF CoreReturns, RecordExit
<1>19. ASSUME CoreExits PROVE Labels'
  BY <1>19 DEF CoreExits
<1>20. ASSUME Panic PROVE Labels'
  BY <1>20 DEF Panic
<1>21. ASSUME Kill PROVE Labels'
  BY <1>21 DEF Kill
<1>22. ASSUME EditPolicy PROVE Labels'
  BY <1>22 DEF EditPolicy
<1>23. ASSUME UNCHANGED vars PROVE Labels'
  BY <1>23 DEF vars
<1>24. ASSUME GateAsks PROVE Labels'
  BY <1>24 DEF GateAsks
<1>25. ASSUME GitAnswers PROVE Labels'
  BY <1>25 DEF GitAnswers, Continue, Block, RecordExit
<1> QED
  BY <1>1, <1>2, <1>3, <1>4, <1>5, <1>6, <1>7, <1>8, <1>9, <1>10, <1>11, <1>12, <1>13, <1>14, <1>15, <1>16, <1>17, <1>18, <1>19, <1>20, <1>21, <1>22, <1>23, <1>24, <1>25 DEF Next, Gitc

LEMMA CodesNext == Codes /\ [Next]_vars => Codes'
<1> SUFFICES ASSUME Codes, [Next]_vars PROVE Codes'
  OBVIOUS
<1>a. 0 \in Answers /\ 1 \in Answers
  BY DEF Answers
<1> USE DEF Codes, result
<1>1. ASSUME ArmPost PROVE Codes'
  BY <1>1, <1>a DEF ArmPost, Arm, Look
<1>2. ASSUME RefuseMarked PROVE Codes'
  BY <1>2, <1>a DEF RefuseMarked, Block, RecordExit
<1>3. ASSUME NoBackend PROVE Codes'
  BY <1>3, <1>a DEF NoBackend, Block, RecordExit
<1>4. ASSUME GateLooks PROVE Codes'
  BY <1>4, <1>a DEF GateLooks, Look
<1>5. ASSUME GateDecides PROVE Codes'
  BY <1>5, <1>a DEF GateDecides, Continue, Block, RecordExit
<1>6. ASSUME SpawnPre PROVE Codes'
  BY <1>6, <1>a DEF SpawnPre, Spawn
<1>7. ASSUME PreAnswered PROVE Codes'
  BY <1>7, <1>a DEF PreAnswered, Continue, Block, RecordExit
<1>8. ASSUME PreFails PROVE Codes'
  BY <1>8, <1>a DEF PreFails, Block, RecordExit
<1>9. ASSUME EnterCore PROVE Codes'
  BY <1>9, <1>a DEF EnterCore
<1>10. ASSUME Trampoline PROVE Codes'
  BY <1>10, <1>a DEF Trampoline
<1>11. ASSUME AuditSkips PROVE Codes'
  BY <1>11, <1>a DEF AuditSkips, Observe, NextPost
<1>12. ASSUME AuditLooks PROVE Codes'
  BY <1>12, <1>a DEF AuditLooks, Look, Observe
<1>13. ASSUME AuditWrites PROVE Codes'
  BY <1>13, <1>a DEF AuditWrites, NextPost
<1>14. ASSUME SpawnPost PROVE Codes'
  BY <1>14, <1>a DEF SpawnPost, Spawn, Observe
<1>15. ASSUME PostEnds PROVE Codes'
  BY <1>15, <1>a DEF PostEnds, NextPost, Observe
<1>16. ASSUME Finish PROVE Codes'
  BY <1>16, <1>a DEF Finish
<1>17. ASSUME Answer PROVE Codes'
  BY <1>17, <1>a DEF Answer
<1>18. ASSUME CoreReturns PROVE Codes'
  BY <1>18, <1>a DEF CoreReturns, RecordExit
<1>19. ASSUME CoreExits PROVE Codes'
  BY <1>19, <1>a DEF CoreExits
<1>20. ASSUME Panic PROVE Codes'
  BY <1>20, <1>a DEF Panic
<1>21. ASSUME Kill PROVE Codes'
  BY <1>21, <1>a DEF Kill
<1>22. ASSUME EditPolicy PROVE Codes'
  BY <1>22, <1>a DEF EditPolicy
<1>23. ASSUME UNCHANGED vars PROVE Codes'
  BY <1>23, <1>a DEF vars
<1>24. ASSUME GateAsks PROVE Codes'
  BY <1>24, <1>a DEF GateAsks
<1>25. ASSUME GitAnswers PROVE Codes'
  BY <1>25, <1>a DEF GitAnswers, Continue, Block, RecordExit
<1> QED
  BY <1>1, <1>2, <1>3, <1>4, <1>5, <1>6, <1>7, <1>8, <1>9, <1>10, <1>11, <1>12, <1>13, <1>14, <1>15, <1>16, <1>17, <1>18, <1>19, <1>20, <1>21, <1>22, <1>23, <1>24, <1>25 DEF Next, Gitc

\* Where a stage's turn may be, besides what TypeOK says of it.
TurnInv ==
    /\ pc \in {"arm", "armed", "gate", "ask", "record"} => at = 0
    /\ pc = "pre wait" => at \in 1..Len(Programs("pre"))
    /\ pc = "post wait" => at \in 1..Len(Programs("post"))

LEMMA Steps ==
    ASSUME NEW n \in Nat
    PROVE  0 <= 1 + n /\ 1 <= 1 + n /\ \A a \in 1..n : a \in Nat /\ a + 1 \in Nat /\ a + 1 <= 1 + n
  OBVIOUS

LEMMA TurnNext == TypeOK /\ TurnInv /\ [Next]_vars => Turn' /\ TurnInv'
<1> SUFFICES ASSUME TypeOK, TurnInv, [Next]_vars PROVE Turn' /\ TurnInv'
  OBVIOUS
<1>a. Turn /\ pc \in {"arm", "armed", "pre", "gate", "ask", "pre wait", "core", "exit", "post",
                     "record", "post wait", "gone"}
  BY TypeParts DEF Labels
<1>b. Len(Programs("pre")) \in Nat /\ Len(Programs("post")) \in Nat
  BY ProgramsAreSequences DEF TypeOK
<1>c. Len(Programs("pre"))' \in Nat /\ Len(Programs("post"))' \in Nat
  <2>1. (registry \in LoadType)'
    BY GatheredNext DEF Gathered
  <2> QED
    BY <2>1, ProgramsAreSequences
<1>e. registry' = registry => /\ Len(Programs("pre"))' = Len(Programs("pre"))
                              /\ Len(Programs("post"))' = Len(Programs("post"))
  BY DEF Programs
<1>d. Running # None
  BY PipelineAssumption
<1>f. /\ 0 <= 1 + Len(Programs("pre")) /\ 1 <= 1 + Len(Programs("pre"))
      /\ 0 <= 1 + Len(Programs("pre"))'
      /\ \A a \in 1..Len(Programs("pre")) : a \in Nat /\ a + 1 \in Nat /\ a + 1 <= 1 + Len(Programs("pre"))
      /\ \A a \in 1..Len(Programs("post")) : a \in Nat /\ a + 1 \in Nat /\ a + 1 <= 1 + Len(Programs("post"))
  <2>1. 0 <= 1 + Len(Programs("pre"))'
    BY <1>c
  <2> QED
    BY <1>b, <2>1, Steps
<1> USE <1>a DEF Turn, TurnInv, armed
<1>1. ASSUME ArmPost PROVE Turn' /\ TurnInv'
  <2>1. at' = at /\ at = 0 /\ child' = child /\ fate' = fate
        /\ pc' \in {"armed", "pre"} /\ pc \in {"arm", "armed"}
    BY <1>1 DEF ArmPost, Arm, Look
  <2>3. at' <= 1 + Len(Programs("pre"))'
    BY <2>1, <1>f
  <2>4. Turn'
    BY <2>1, <2>3
  <2>5. TurnInv'
    BY <2>1
  <2> QED
    BY <2>4, <2>5
<1>2. ASSUME RefuseMarked PROVE Turn' /\ TurnInv'
  BY <1>2, <1>b, <1>c, <1>d, <1>e DEF RefuseMarked, Block, RecordExit
<1>3. ASSUME NoBackend PROVE Turn' /\ TurnInv'
  BY <1>3, <1>b, <1>c, <1>d, <1>e DEF NoBackend, Block, RecordExit
<1>4. ASSUME GateLooks PROVE Turn' /\ TurnInv'
  BY <1>4, <1>b, <1>c, <1>d, <1>e DEF GateLooks, Look
<1>5. ASSUME GateDecides PROVE Turn' /\ TurnInv'
  <2>1. registry' = registry /\ child' = None
        /\ ((at' = 1 /\ pc' = "pre") \/ (at' = 0 /\ pc' = "exit"))
    <3>1. pc = "gate" /\ at = 0
      BY <1>5 DEF GateDecides
    <3> QED
      BY <1>5, <3>1 DEF GateDecides, Continue, Block, RecordExit
  <2>2. at' \in Nat
    <3> HIDE <1>a DEF Turn, TurnInv
    <3>1. at' = 1 \/ at' = 0
      BY <2>1
    <3> QED
      BY ONLY <3>1
  <2>3. pc' = "pre" => at' <= 1 + Len(Programs("pre"))'
    BY <1>e, <1>f, <2>1
  <2> QED
    BY <2>1, <2>2, <2>3
<1>6. ASSUME SpawnPre PROVE Turn' /\ TurnInv'
  BY <1>6, <1>b, <1>c, <1>d, <1>e DEF SpawnPre, Spawn
<1>7. ASSUME PreAnswered PROVE Turn' /\ TurnInv'
  <2>1. registry' = registry /\ child' = None /\ at \in 1..Len(Programs("pre"))
        /\ ((at' = at + 1 /\ pc' = "pre") \/ (at' = at /\ pc' = "exit"))
    BY <1>7 DEF PreAnswered, Continue, Block, RecordExit
  <2>2. at' \in Nat /\ (pc' = "pre" => at' <= 1 + Len(Programs("pre"))')
    BY <1>e, <1>f, <2>1
  <2> QED
    BY <2>1, <2>2
<1>8. ASSUME PreFails PROVE Turn' /\ TurnInv'
  BY <1>8, <1>b, <1>c, <1>d, <1>e DEF PreFails, Block, RecordExit
<1>9. ASSUME EnterCore PROVE Turn' /\ TurnInv'
  BY <1>9, <1>b, <1>c, <1>d, <1>e DEF EnterCore
<1>10. ASSUME Trampoline PROVE Turn' /\ TurnInv'
  BY <1>10, <1>b, <1>c, <1>d, <1>e DEF Trampoline
<1>11. ASSUME AuditSkips PROVE Turn' /\ TurnInv'
  BY <1>11, <1>b, <1>c, <1>d, <1>e DEF AuditSkips, Observe, NextPost
<1>12. ASSUME AuditLooks PROVE Turn' /\ TurnInv'
  BY <1>12, <1>b, <1>c, <1>d, <1>e DEF AuditLooks, Look, Observe
<1>13. ASSUME AuditWrites PROVE Turn' /\ TurnInv'
  BY <1>13, <1>b, <1>c, <1>d, <1>e DEF AuditWrites, NextPost
<1>14. ASSUME SpawnPost PROVE Turn' /\ TurnInv'
  BY <1>14, <1>b, <1>c, <1>d, <1>e DEF SpawnPost, Spawn, Observe
<1>15. ASSUME PostEnds PROVE Turn' /\ TurnInv'
  <2>1. registry' = registry /\ at' = at + 1 /\ pc' = "post" /\ child' = None
        /\ at \in 1..Len(Programs("post"))
    BY <1>15 DEF PostEnds, NextPost, Observe
  <2>2. at' \in Nat /\ at' <= 1 + Len(Programs("post"))'
    BY <1>e, <1>f, <2>1
  <2> QED
    BY <2>1, <2>2
<1>16. ASSUME Finish PROVE Turn' /\ TurnInv'
  BY <1>16, <1>b, <1>c, <1>d, <1>e DEF Finish
<1>17. ASSUME Answer PROVE Turn' /\ TurnInv'
  BY <1>17, <1>b, <1>c, <1>d, <1>e DEF Answer
<1>18. ASSUME CoreReturns PROVE Turn' /\ TurnInv'
  BY <1>18, <1>b, <1>c, <1>d, <1>e DEF CoreReturns, RecordExit
<1>19. ASSUME CoreExits PROVE Turn' /\ TurnInv'
  BY <1>19, <1>b, <1>c, <1>d, <1>e DEF CoreExits
<1>20. ASSUME Panic PROVE Turn' /\ TurnInv'
  BY <1>20, <1>b, <1>c, <1>d, <1>e DEF Panic
<1>21. ASSUME Kill PROVE Turn' /\ TurnInv'
  BY <1>21, <1>b, <1>c, <1>d, <1>e DEF Kill
<1>22. ASSUME EditPolicy PROVE Turn' /\ TurnInv'
  BY <1>22, <1>b, <1>c, <1>d, <1>e DEF EditPolicy
<1>23. ASSUME UNCHANGED vars PROVE Turn' /\ TurnInv'
  BY <1>23, <1>b, <1>c, <1>d, <1>e DEF vars
<1>24. ASSUME GateAsks PROVE Turn' /\ TurnInv'
  BY <1>24, <1>b, <1>c, <1>d, <1>e DEF GateAsks
<1>25. ASSUME GitAnswers PROVE Turn' /\ TurnInv'
  <2>1. registry' = registry /\ child' = None
        /\ ((at' = 1 /\ pc' = "pre") \/ (at' = 0 /\ pc' = "exit"))
    <3>1. pc = "ask" /\ at = 0
      BY <1>25 DEF GitAnswers
    <3> QED
      BY <1>25, <3>1 DEF GitAnswers, Continue, Block, RecordExit
  <2>2. at' \in Nat
    <3> HIDE <1>a DEF Turn, TurnInv
    <3>1. at' = 1 \/ at' = 0
      BY <2>1
    <3> QED
      BY ONLY <3>1
  <2>3. pc' = "pre" => at' <= 1 + Len(Programs("pre"))'
    BY <1>e, <1>f, <2>1
  <2> QED
    BY <2>1, <2>2, <2>3
<1> QED
  BY <1>1, <1>2, <1>3, <1>4, <1>5, <1>6, <1>7, <1>8, <1>9, <1>10, <1>11, <1>12, <1>13, <1>14, <1>15, <1>16, <1>17, <1>18, <1>19, <1>20, <1>21, <1>22, <1>23, <1>24, <1>25 DEF Next, Gitc

LEMMA TypeNext == TypeOK /\ TurnInv /\ [Next]_vars => TypeOK' /\ TurnInv'
<1> SUFFICES ASSUME TypeOK, TurnInv, [Next]_vars PROVE TypeOK' /\ TurnInv'
  OBVIOUS
<1>1. Fixed /\ Labels /\ Codes
  BY TypeParts
<1>2. Fixed' /\ Gathered' /\ Labels' /\ Codes' /\ Turn' /\ TurnInv'
  BY <1>1, FixedNext, GatheredNext, LabelsNext, CodesNext, TurnNext
<1>3. TypeOK'
  BY <1>2 DEF TypeOK, Fixed, Gathered, Labels, Codes, Turn
<1> QED
  BY <1>2, <1>3

\* Every variable keeps its type whatever the policies, and the turn of a stage
\* stays within the list of programs that the policy named when the stages were
\* built: no rewrite of policy.json moves that bound under a running command.
THEOREM TypeCorrect == Spec => []TypeOK
<1>1. Init => TypeOK /\ TurnInv
  <2>1. Init => pc \in {"arm", "gone"} /\ at = 0
    BY DEF Init
  <2>2. Init => TurnInv
    BY <2>1 DEF TurnInv
  <2> QED
    BY <2>2, TypeInit
<1>2. TypeOK /\ TurnInv /\ [Next]_vars => TypeOK' /\ TurnInv'
  BY TypeNext
<1> QED
  BY <1>1, <1>2, PTL DEF Spec

-----------------------------------------------------------------------------
(* How the command ends.                                                     *)

Deciding == {"pre", "gate", "ask", "pre wait"}

\* A pre stage that refuses the command, and what it leaves alone.
Refuses ==
    /\ pc \in Deciding /\ pc' = "exit"
    /\ blocked' = TRUE /\ known' = TRUE /\ code' = status' /\ status' # 0 /\ status' # None
    /\ UNCHANGED <<machine, typed, found, armed, at, git, seen, row, fate>> /\ child' = None

LEMMA Refusals ==
    ASSUME TypeOK,
           \/ RefuseMarked \/ NoBackend \/ PreFails
           \/ GateDecides /\ pc' = "exit"
           \/ GitAnswers /\ pc' = "exit"
           \/ PreAnswered /\ pc' = "exit"
    PROVE  Refuses
<1>a. Labels /\ Codes
  BY TypeParts
<1>b. None # 1 /\ None \notin Answers
  BY PipelineAssumption DEF Answers
<1>1. ASSUME NEW verdict, NEW c, c # 0, c # None, pc \in Deciding, Block(verdict, c) PROVE Refuses
  BY <1>1 DEF Refuses, Block, RecordExit, after
<1>2. CASE RefuseMarked
  <2>1. pc \in Deciding /\ Block(<<>>, 1)
    BY <1>2 DEF RefuseMarked, Deciding
  <2> QED
    BY <1>1, <1>b, <2>1
<1>3. CASE NoBackend
  <2>1. pc \in Deciding /\ Block(<<"block">>, 1)
    BY <1>3 DEF NoBackend, Deciding
  <2> QED
    BY <1>1, <1>b, <2>1
<1>4. CASE PreFails
  <2>1. pc \in Deciding /\ Block(<<"error">>, 1)
    BY <1>4 DEF PreFails, Deciding
  <2> QED
    BY <1>1, <1>b, <2>1
<1>5. CASE GateDecides /\ pc' = "exit"
  <2>1. pc \in Deciding /\ (Continue \/ Block(<<"block">>, 1))
    BY <1>5 DEF GateDecides, Deciding
  <2>2. ~Continue
    BY <1>5 DEF Continue
  <2> QED
    BY <1>1, <1>b, <2>1, <2>2
<1>7. CASE GitAnswers /\ pc' = "exit"
  <2>1. pc \in Deciding /\ (Continue \/ Block(<<"block">>, 1))
    BY <1>7 DEF GitAnswers, Deciding
  <2>2. ~Continue
    BY <1>7 DEF Continue
  <2> QED
    BY <1>1, <1>b, <2>1, <2>2
<1>6. CASE PreAnswered /\ pc' = "exit"
  <2>1. pc \in Deciding /\ child \in Answers /\ (Continue \/ (child # 0 /\ Block(<<"block">>, child)))
    BY <1>6 DEF PreAnswered, Deciding
  <2>2. ~Continue
    BY <1>6 DEF Continue
  <2> QED
    BY <1>1, <1>b, <2>1, <2>2
<1> QED
  BY <1>2, <1>3, <1>4, <1>5, <1>6, <1>7

\* A pre stage that lets the command go on.
LEMMA Permissions ==
    ASSUME (GateDecides \/ GitAnswers \/ PreAnswered) /\ pc' # "exit"
    PROVE  pc \in {"gate", "ask", "pre wait"} /\ Continue
<1>1. CASE GateDecides
  <2>1. pc = "gate" /\ (Continue \/ Block(<<"block">>, 1))
    BY <1>1 DEF GateDecides
  <2> QED
    BY <2>1 DEF Block, RecordExit
<1>2. CASE GitAnswers
  <2>1. pc = "ask" /\ (Continue \/ Block(<<"block">>, 1))
    BY <1>2 DEF GitAnswers
  <2> QED
    BY <2>1 DEF Block, RecordExit
<1>3. CASE PreAnswered
  <2>1. pc = "pre wait" /\ (Continue \/ Block(<<"block">>, child))
    BY <1>3 DEF PreAnswered
  <2> QED
    BY <2>1 DEF Block, RecordExit
<1> QED
  BY <1>1, <1>2, <1>3

\* How the command ended, as the recorded code and the exit status have it.
Ends ==
    /\ pc \in Early \cup {"core"} => status = None /\ ~known /\ ~blocked
    /\ pc \in Early => core = "not entered"
    /\ pc = "core" => core = "running"
    /\ pc \in {"exit"} \cup Late => status # None
    /\ blocked => known /\ core = "not entered" /\ code = status /\ status # 0
    /\ known /\ ~blocked => core = "returned" /\ code = status
    /\ status # None /\ ~known => core = "exited" \/ "panicked" \in fate

LEMMA EndsNext == TypeOK /\ Ends /\ [Next]_vars => Ends'
<1> SUFFICES ASSUME TypeOK, Ends, [Next]_vars PROVE Ends'
  OBVIOUS
<1>a. pc \in Early \cup Late \cup {"core", "exit", "gone"}
  BY TypeParts DEF Labels, Early, Late
<1>b. known \in BOOLEAN /\ blocked \in BOOLEAN
  BY TypeParts DEF Codes
<1>c. None \notin {0, 1, 128}
  BY PipelineAssumption
<1>d. Refuses => Ends'
  BY DEF Refuses, Deciding, Ends, Early, Late, git
<1>e. Continue /\ pc \in Early => Ends'
  <2> SUFFICES ASSUME Continue, pc \in Early PROVE Ends'
    OBVIOUS
  <2>1. core = "not entered" /\ status = None /\ ~known /\ ~blocked
    BY DEF Ends
  <2>2. pc' = "pre" /\ core' = core /\ status' = status /\ known' = known /\ blocked' = blocked
    BY DEF Continue, git, result
  <2> QED
    BY <2>1, <2>2 DEF Ends, Early, Late
<1> USE DEF Ends, Early, Late, result, git
<1>1. ASSUME ArmPost PROVE Ends'
  BY <1>1, <1>a, <1>b, <1>c DEF ArmPost, Arm, Look
<1>2. ASSUME RefuseMarked PROVE Ends'
  BY <1>2, <1>d, Refusals
<1>3. ASSUME NoBackend PROVE Ends'
  BY <1>3, <1>d, Refusals
<1>4. ASSUME GateLooks PROVE Ends'
  BY <1>4, <1>a, <1>b, <1>c DEF GateLooks, Look
<1>5. ASSUME GateDecides PROVE Ends'
  <2>1. CASE pc' = "exit"
    BY <1>5, <1>d, <2>1, Refusals
  <2>2. CASE pc' # "exit"
    <3>1. pc \in Early /\ Continue
      BY <1>5, <2>2, Permissions DEF Early
    <3> QED
      BY <1>e, <3>1
  <2> QED
    BY <2>1, <2>2
<1>6. ASSUME SpawnPre PROVE Ends'
  BY <1>6, <1>a, <1>b, <1>c DEF SpawnPre, Spawn
<1>7. ASSUME PreAnswered PROVE Ends'
  <2>1. CASE pc' = "exit"
    BY <1>7, <1>d, <2>1, Refusals
  <2>2. CASE pc' # "exit"
    <3>1. pc \in Early /\ Continue
      BY <1>7, <2>2, Permissions DEF Early
    <3> QED
      BY <1>e, <3>1
  <2> QED
    BY <2>1, <2>2
<1>8. ASSUME PreFails PROVE Ends'
  BY <1>8, <1>d, Refusals
<1>9. ASSUME EnterCore PROVE Ends'
  BY <1>9, <1>a, <1>b, <1>c DEF EnterCore
<1>10. ASSUME Trampoline PROVE Ends'
  BY <1>10, <1>a, <1>b, <1>c DEF Trampoline
<1>11. ASSUME AuditSkips PROVE Ends'
  BY <1>11, <1>a, <1>b, <1>c DEF AuditSkips, Observe, NextPost
<1>12. ASSUME AuditLooks PROVE Ends'
  BY <1>12, <1>a, <1>b, <1>c DEF AuditLooks, Look, Observe
<1>13. ASSUME AuditWrites PROVE Ends'
  BY <1>13, <1>a, <1>b, <1>c DEF AuditWrites, NextPost
<1>14. ASSUME SpawnPost PROVE Ends'
  BY <1>14, <1>a, <1>b, <1>c DEF SpawnPost, Spawn, Observe
<1>15. ASSUME PostEnds PROVE Ends'
  BY <1>15, <1>a, <1>b, <1>c DEF PostEnds, NextPost, Observe
<1>16. ASSUME Finish PROVE Ends'
  BY <1>16, <1>a, <1>b, <1>c DEF Finish
<1>17. ASSUME Answer PROVE Ends'
  BY <1>17, <1>a, <1>b, <1>c DEF Answer
<1>18. ASSUME CoreReturns PROVE Ends'
  BY <1>18, <1>a, <1>b, <1>c DEF CoreReturns, RecordExit
<1>19. ASSUME CoreExits PROVE Ends'
  BY <1>19, <1>a, <1>b, <1>c DEF CoreExits
<1>20. ASSUME Panic PROVE Ends'
  BY <1>20, <1>a, <1>b, <1>c DEF Panic
<1>21. ASSUME Kill PROVE Ends'
  BY <1>21, <1>a, <1>b, <1>c DEF Kill
<1>22. ASSUME EditPolicy PROVE Ends'
  BY <1>22, <1>a, <1>b, <1>c DEF EditPolicy
<1>23. ASSUME UNCHANGED vars PROVE Ends'
  BY <1>23, <1>a, <1>b, <1>c DEF vars
<1>24. ASSUME GateAsks PROVE Ends'
  BY <1>24, <1>a, <1>b, <1>c DEF GateAsks
<1>25. ASSUME GitAnswers PROVE Ends'
  <2>1. CASE pc' = "exit"
    BY <1>25, <1>d, <2>1, Refusals
  <2>2. CASE pc' # "exit"
    <3>1. pc \in Early /\ Continue
      BY <1>25, <2>2, Permissions DEF Early
    <3> QED
      BY <1>e, <3>1
  <2> QED
    BY <2>1, <2>2
<1> QED
  BY <1>1, <1>2, <1>3, <1>4, <1>5, <1>6, <1>7, <1>8, <1>9, <1>10, <1>11, <1>12,
     <1>13, <1>14, <1>15, <1>16, <1>17, <1>18, <1>19, <1>20, <1>21, <1>22, <1>23, <1>24, <1>25 DEF Next, Gitc

\* What a stage's program that calls gitc gets.
Inside ==
    marked => /\ pc \in {"arm", "pre", "exit", "gone"} /\ argv = None /\ child = None
              /\ core = "not entered" /\ seen = <<>> /\ status # 0

LEMMA InsideNext == TypeOK /\ Inside /\ [Next]_vars => Inside'
<1> SUFFICES ASSUME TypeOK, Inside, [Next]_vars PROVE Inside'
  OBVIOUS
<1>d. Refuses => Inside'
  BY DEF Refuses, Deciding, Inside, Early, Late, armed, git, typed
<1>a. marked => pc # "gate" /\ pc # "ask" /\ pc # "pre wait"
  BY DEF Inside
<1>c. Running # None /\ 128 # 0
  BY PipelineAssumption
<1> USE DEF Inside, typed, armed, git, after
<1>1. ASSUME ArmPost PROVE Inside'
  BY <1>1, <1>c DEF ArmPost, Arm, Look
<1>2. ASSUME RefuseMarked PROVE Inside'
  BY <1>2, <1>d, Refusals
<1>3. ASSUME NoBackend PROVE Inside'
  BY <1>3, <1>d, Refusals
<1>4. ASSUME GateLooks PROVE Inside'
  BY <1>4, <1>c DEF GateLooks, Look
<1>5. ASSUME GateDecides PROVE Inside'
  <2>1. CASE pc' = "exit"
    BY <1>5, <1>d, <2>1, Refusals
  <2>2. CASE pc' # "exit"
    <3>1. pc \in {"gate", "ask", "pre wait"} /\ Continue
      BY <1>5, <2>2, Permissions
    <3> QED
      BY <1>a, <3>1 DEF Continue, Inside, typed
  <2> QED
    BY <2>1, <2>2
<1>6. ASSUME SpawnPre PROVE Inside'
  BY <1>6, <1>c DEF SpawnPre, Spawn
<1>7. ASSUME PreAnswered PROVE Inside'
  <2>1. CASE pc' = "exit"
    BY <1>7, <1>d, <2>1, Refusals
  <2>2. CASE pc' # "exit"
    <3>1. pc \in {"gate", "ask", "pre wait"} /\ Continue
      BY <1>7, <2>2, Permissions
    <3> QED
      BY <1>a, <3>1 DEF Continue, Inside, typed
  <2> QED
    BY <2>1, <2>2
<1>8. ASSUME PreFails PROVE Inside'
  BY <1>8, <1>d, Refusals
<1>9. ASSUME EnterCore PROVE Inside'
  BY <1>9, <1>c DEF EnterCore
<1>10. ASSUME Trampoline PROVE Inside'
  BY <1>10, <1>c DEF Trampoline
<1>11. ASSUME AuditSkips PROVE Inside'
  BY <1>11, <1>c DEF AuditSkips, Observe, NextPost
<1>12. ASSUME AuditLooks PROVE Inside'
  BY <1>12, <1>c DEF AuditLooks, Look, Observe
<1>13. ASSUME AuditWrites PROVE Inside'
  BY <1>13, <1>c DEF AuditWrites, NextPost
<1>14. ASSUME SpawnPost PROVE Inside'
  BY <1>14, <1>c DEF SpawnPost, Spawn, Observe
<1>15. ASSUME PostEnds PROVE Inside'
  BY <1>15, <1>c DEF PostEnds, NextPost, Observe
<1>16. ASSUME Finish PROVE Inside'
  BY <1>16, <1>c DEF Finish
<1>17. ASSUME Answer PROVE Inside'
  BY <1>17, <1>c DEF Answer
<1>18. ASSUME CoreReturns PROVE Inside'
  BY <1>18, <1>c DEF CoreReturns, RecordExit
<1>19. ASSUME CoreExits PROVE Inside'
  BY <1>19, <1>c DEF CoreExits
<1>20. ASSUME Panic PROVE Inside'
  BY <1>20, <1>c DEF Panic
<1>21. ASSUME Kill PROVE Inside'
  BY <1>21, <1>c DEF Kill
<1>22. ASSUME EditPolicy PROVE Inside'
  BY <1>22, <1>c DEF EditPolicy
<1>23. ASSUME UNCHANGED vars PROVE Inside'
  BY <1>23, <1>c DEF vars
<1>24. ASSUME GateAsks PROVE Inside'
  BY <1>24, <1>c DEF GateAsks
<1>25. ASSUME GitAnswers PROVE Inside'
  <2>1. CASE pc' = "exit"
    BY <1>25, <1>d, <2>1, Refusals
  <2>2. CASE pc' # "exit"
    <3>1. pc \in {"gate", "ask", "pre wait"} /\ Continue
      BY <1>25, <2>2, Permissions
    <3> QED
      BY <1>a, <3>1 DEF Continue, Inside, typed
  <2> QED
    BY <2>1, <2>2
<1> QED
  BY <1>1, <1>2, <1>3, <1>4, <1>5, <1>6, <1>7, <1>8, <1>9, <1>10, <1>11, <1>12,
     <1>13, <1>14, <1>15, <1>16, <1>17, <1>18, <1>19, <1>20, <1>21, <1>22, <1>23, <1>24, <1>25 DEF Next, Gitc

-----------------------------------------------------------------------------
(* What the post stages are told.                                            *)

LEMMA Appended ==
    ASSUME NEW S, NEW s \in Seq(S), NEW e \in S
    PROVE  /\ Append(s, e) \in Seq(S) /\ Len(s) \in Nat /\ Len(Append(s, e)) = Len(s) + 1
           /\ \A i \in DOMAIN Append(s, e) : Append(s, e)[i] = e \/ (i \in DOMAIN s /\ Append(s, e)[i] = s[i])
           /\ Append(s, e) # <<>>
  OBVIOUS

LEMMA Emptied ==
    ASSUME NEW S, NEW s \in Seq(S), Len(s) = 0
    PROVE  s = <<>>
  OBVIOUS

\* What the post stages have been told, and how many of them.
Told ==
    /\ \A i \in DOMAIN seen : seen[i] = Outcome
    /\ seen # <<>> => status # None
    /\ pc \in Early \cup {"core", "exit"} => Len(seen) = 0
    /\ pc = "post" => Len(seen) = at
    /\ pc \in {"record", "post wait"} => Len(seen) = at + 1
    /\ Len(seen) <= 1 + Len(Programs("post"))
    /\ pc = "gone" /\ status # None /\ fate \subseteq {"panicked"} /\ argv # None =>
         Len(seen) = 1 + Len(Programs("post"))

LEMMA ToldNext == TypeOK /\ TurnInv /\ Ends /\ Told /\ [Next]_vars => Told'
<1> SUFFICES ASSUME TypeOK, TurnInv, Ends, Told, [Next]_vars PROVE Told'
  OBVIOUS
<1>a. /\ seen \in Seq(OutcomeType) /\ Outcome \in OutcomeType /\ fate \subseteq {"killed", "panicked", "post panicked"}
      /\ pc \in Early \cup Late \cup {"core", "exit", "gone"}
  BY OutcomeTyped DEF TypeOK, Early, Late
<1>b. at \in Nat /\ Len(Programs("pre")) \in Nat /\ Len(Programs("post")) \in Nat
  BY ProgramsAreSequences DEF TypeOK
<1>c. Len(Programs("post"))' \in Nat
  <2>1. (registry \in LoadType)'
    BY GatheredNext DEF Gathered
  <2> QED
    BY <2>1, ProgramsAreSequences
<1>d. seen' = <<>> /\ pc' \in Early \cup {"core", "exit"} => Told'
  <2> SUFFICES ASSUME seen' = <<>>, pc' \in Early \cup {"core", "exit"} PROVE Told'
    OBVIOUS
  <2>1. Len(seen') = 0 /\ DOMAIN seen' = {}
    OBVIOUS
  <2>2. Len(seen') <= 1 + Len(Programs("post"))'
    BY <1>c, <2>1
  <2>3. pc' \notin {"post", "record", "post wait", "gone"}
    BY DEF Early
  <2> QED
    BY <2>1, <2>2, <2>3 DEF Told
<1>e. pc \in Early \cup {"core", "exit"} => seen = <<>>
  <2>1. pc \in Early \cup {"core", "exit"} => Len(seen) = 0
    BY DEF Told
  <2> QED
    BY <1>a, <2>1, Emptied
<1>f. result' = result => Outcome' = Outcome
  BY DEF Outcome, result
<1>g. registry' = registry => Len(Programs("post"))' = Len(Programs("post"))
  BY DEF Programs
<1>h. ASSUME Observe, pc = "post", result' = result
      PROVE  /\ \A i \in DOMAIN seen' : seen'[i] = Outcome'
             /\ seen' # <<>> /\ Len(seen') = at + 1
  <2>1. seen' = Append(seen, Outcome) /\ Len(seen) = at
    BY <1>h DEF Observe, Told
  <2>2. \A i \in DOMAIN seen : seen[i] = Outcome
    BY DEF Told
  <2>3. Outcome' = Outcome
    BY <1>f, <1>h
  <2> HIDE DEF Outcome
  <2>4. Len(seen') = Len(seen) + 1 /\ seen' # <<>>
        /\ \A i \in DOMAIN seen' : seen'[i] = Outcome \/ (i \in DOMAIN seen /\ seen'[i] = seen[i])
    <3>0. seen \in Seq(OutcomeType) /\ Outcome \in OutcomeType
      BY <1>a
    <3>1. /\ Len(Append(seen, Outcome)) = Len(seen) + 1 /\ Append(seen, Outcome) # <<>>
          /\ \A i \in DOMAIN Append(seen, Outcome) :
               Append(seen, Outcome)[i] = Outcome \/ (i \in DOMAIN seen /\ Append(seen, Outcome)[i] = seen[i])
      BY ONLY <3>0, Appended
    <3> QED
      BY <2>1, <3>1
  <2> QED
    BY <2>1, <2>2, <2>3, <2>4
<1>i. ASSUME pc' = "gone", ~(fate' \subseteq {"panicked"}), UNCHANGED <<result, seen, status, registry>> PROVE Told'
  <2>1. Outcome' = Outcome /\ Len(Programs("post"))' = Len(Programs("post"))
    BY <1>f, <1>g, <1>i
  <2> QED
    BY <1>i, <2>1 DEF Told, Early
<1>j. Refuses => Told'
  BY <1>d, <1>e DEF Refuses, Deciding, Early
<1>k. pc = "exit" \/ pc \in Late => status # None
  BY DEF Ends
<1>1. ASSUME ArmPost PROVE Told'
  BY <1>1, <1>d, <1>e DEF ArmPost, Arm, Look, Early, after
<1>2. ASSUME RefuseMarked PROVE Told'
  BY <1>2, <1>j, Refusals
<1>3. ASSUME NoBackend PROVE Told'
  BY <1>3, <1>j, Refusals
<1>4. ASSUME GateLooks PROVE Told'
  BY <1>4, <1>d, <1>e DEF GateLooks, Look, Early, after
<1>5. ASSUME GateDecides PROVE Told'
  <2>1. CASE pc' = "exit"
    BY <1>5, <1>j, <2>1, Refusals
  <2>2. CASE pc' # "exit"
    <3>1. pc \in {"gate", "ask", "pre wait"} /\ Continue
      BY <1>5, <2>2, Permissions
    <3>2. seen' = seen /\ pc' = "pre"
      BY <3>1 DEF Continue, after
    <3> QED
      BY <1>d, <1>e, <3>1, <3>2 DEF Early
  <2> QED
    BY <2>1, <2>2
<1>6. ASSUME SpawnPre PROVE Told'
  BY <1>6, <1>d, <1>e DEF SpawnPre, Spawn, Early, after
<1>7. ASSUME PreAnswered PROVE Told'
  <2>1. CASE pc' = "exit"
    BY <1>7, <1>j, <2>1, Refusals
  <2>2. CASE pc' # "exit"
    <3>1. pc \in {"gate", "ask", "pre wait"} /\ Continue
      BY <1>7, <2>2, Permissions
    <3>2. seen' = seen /\ pc' = "pre"
      BY <3>1 DEF Continue, after
    <3> QED
      BY <1>d, <1>e, <3>1, <3>2 DEF Early
  <2> QED
    BY <2>1, <2>2
<1>8. ASSUME PreFails PROVE Told'
  BY <1>8, <1>j, Refusals
<1>9. ASSUME EnterCore PROVE Told'
  BY <1>9, <1>d, <1>e DEF EnterCore, Early, after
<1>10. ASSUME Trampoline PROVE Told'
  <2>1. seen' = <<>> /\ status' = status /\ at' = 0 /\ argv' = argv /\ pc' \in {"gone", "post"}
        /\ (pc' = "gone" <=> argv = None)
    BY <1>10, <1>e DEF Trampoline, after, armed
  <2>2. Len(seen') = 0 /\ DOMAIN seen' = {} /\ Len(seen') <= 1 + Len(Programs("post"))'
    BY <1>c, <2>1
  <2> QED
    BY <2>1, <2>2 DEF Told, Early
<1>11. ASSUME AuditSkips PROVE Told'
  <2>1. pc = "post" /\ Observe /\ result' = result /\ registry' = registry /\ status' = status
    BY <1>11 DEF AuditSkips, NextPost, armed
  <2>2. at = 0 /\ at' = at + 1 /\ pc' = "post"
    BY <1>11 DEF AuditSkips, NextPost
  <2>3. Len(seen') <= 1 + Len(Programs("post"))'
    <3>1. at <= Len(Programs("post"))
      <4>1. at = 0 \/ at \in 1..Len(Programs("post"))
        BY <2>2
      <4> QED
        BY <1>b, <4>1
    <3>2. Len(Programs("post"))' = Len(Programs("post")) /\ Len(seen') = at + 1
      BY <1>g, <1>h, <2>1
    <3> QED
      BY <1>b, <3>1, <3>2
  <2>4. status' # None
    BY <1>k, <2>1 DEF Late
  <2> QED
    BY <1>h, <2>1, <2>2, <2>3, <2>4 DEF Told, Early
<1>12. ASSUME AuditLooks PROVE Told'
  <2>1. pc = "post" /\ Observe /\ result' = result /\ registry' = registry /\ status' = status
    BY <1>12 DEF AuditLooks, Look, armed
  <2>2. at = 0 /\ at' = at /\ pc' = "record"
    BY <1>12 DEF AuditLooks, Look
  <2>3. Len(seen') <= 1 + Len(Programs("post"))'
    <3>1. at <= Len(Programs("post"))
      <4>1. at = 0 \/ at \in 1..Len(Programs("post"))
        BY <2>2
      <4> QED
        BY <1>b, <4>1
    <3>2. Len(Programs("post"))' = Len(Programs("post")) /\ Len(seen') = at + 1
      BY <1>g, <1>h, <2>1
    <3> QED
      BY <1>b, <3>1, <3>2
  <2>4. status' # None
    BY <1>k, <2>1 DEF Late
  <2> QED
    BY <1>h, <2>1, <2>2, <2>3, <2>4 DEF Told, Early
<1>13. ASSUME AuditWrites PROVE Told'
  <2>1. seen' = seen /\ result' = result /\ registry' = registry /\ status' = status
    BY <1>13 DEF AuditWrites, NextPost, armed, after
  <2>2. Outcome' = Outcome /\ Len(Programs("post"))' = Len(Programs("post"))
    BY <1>f, <1>g, <2>1
  <2>3. pc = "record" /\ pc' = "post" /\ at' = at + 1
    BY <1>13 DEF AuditWrites, NextPost
  <2> QED
    BY <2>1, <2>2, <2>3 DEF Told, Early
<1>14. ASSUME SpawnPost PROVE Told'
  <2>1. pc = "post" /\ Observe /\ result' = result /\ registry' = registry /\ status' = status
    BY <1>14 DEF SpawnPost, Spawn, armed
  <2>2. at \in 1..Len(Programs("post")) /\ at' = at /\ pc' = "post wait"
    BY <1>14 DEF SpawnPost, Spawn
  <2>3. Len(seen') <= 1 + Len(Programs("post"))'
    <3>1. at <= Len(Programs("post"))
      <4>1. at = 0 \/ at \in 1..Len(Programs("post"))
        BY <2>2
      <4> QED
        BY <1>b, <4>1
    <3>2. Len(Programs("post"))' = Len(Programs("post")) /\ Len(seen') = at + 1
      BY <1>g, <1>h, <2>1
    <3> QED
      BY <1>b, <3>1, <3>2
  <2>4. status' # None
    BY <1>k, <2>1 DEF Late
  <2> QED
    BY <1>h, <2>1, <2>2, <2>3, <2>4 DEF Told, Early
<1>15. ASSUME PostEnds PROVE Told'
  <2>1. CASE pc = "post wait"
    <3>1. seen' = seen /\ result' = result /\ registry' = registry /\ status' = status /\ pc' = "post" /\ at' = at + 1
      BY <1>15, <2>1 DEF PostEnds, NextPost, armed
    <3>2. Outcome' = Outcome /\ Len(Programs("post"))' = Len(Programs("post"))
      BY <1>f, <1>g, <3>1
    <3> QED
      BY <2>1, <3>1, <3>2 DEF Told, Early
  <2>2. CASE pc # "post wait"
    <3>1. pc = "post" /\ Observe /\ result' = result /\ registry' = registry /\ status' = status
      BY <1>15, <2>2 DEF PostEnds, NextPost, armed
    <3>2. at \in 1..Len(Programs("post")) /\ at' = at + 1 /\ pc' = "post"
      BY <1>15, <2>2 DEF PostEnds, NextPost
    <3>3. Len(seen') <= 1 + Len(Programs("post"))'
      <4>1. at <= Len(Programs("post"))
        <5>1. at = 0 \/ at \in 1..Len(Programs("post"))
          BY <3>2
        <5> QED
          BY <1>b, <5>1
      <4>2. Len(Programs("post"))' = Len(Programs("post")) /\ Len(seen') = at + 1
        BY <1>g, <1>h, <3>1
      <4> QED
        BY <1>b, <4>1, <4>2
    <3>4. status' # None
      BY <1>k, <3>1 DEF Late
    <3> QED
      BY <1>h, <3>1, <3>2, <3>3, <3>4 DEF Told, Early
  <2> QED
    BY <2>1, <2>2
<1>16. ASSUME Finish PROVE Told'
  <2>1. seen' = seen /\ result' = result /\ registry' = registry /\ status' = status
    BY <1>16 DEF Finish, armed, after
  <2>2. Outcome' = Outcome /\ Len(Programs("post"))' = Len(Programs("post"))
    BY <1>f, <1>g, <2>1
  <2>3. pc = "post" /\ pc' = "gone" /\ at > Len(Programs("post")) /\ at <= 1 + Len(Programs("post"))
    BY <1>16 DEF Finish, TypeOK
  <2>4. Len(seen') = 1 + Len(Programs("post"))'
    <3>1. Len(seen') = at /\ Len(Programs("post"))' = Len(Programs("post"))
      BY <2>1, <2>2, <2>3 DEF Told
    <3>2. at = 1 + Len(Programs("post"))
      BY <1>b, <2>3
    <3> QED
      BY <3>1, <3>2
  <2>5. Len(seen') <= 1 + Len(Programs("post"))'
    BY <1>c, <2>4
  <2> QED
    BY <2>1, <2>2, <2>3, <2>4, <2>5 DEF Told, Early
<1>17. ASSUME Answer PROVE Told'
  <2>1. seen' = seen /\ result' = result /\ registry' = registry /\ status' = status
    BY <1>17 DEF Answer, armed, after
  <2>2. Outcome' = Outcome /\ Len(Programs("post"))' = Len(Programs("post"))
    BY <1>f, <1>g, <2>1
  <2>3. pc' = pc /\ at' = at /\ argv' = argv /\ fate' = fate
    BY <1>17 DEF Answer, armed
  <2> QED
    BY <2>1, <2>2, <2>3 DEF Told
<1>18. ASSUME CoreReturns PROVE Told'
  BY <1>18, <1>d, <1>e DEF CoreReturns, RecordExit, Early, after
<1>19. ASSUME CoreExits PROVE Told'
  BY <1>19, <1>d, <1>e DEF CoreExits, Early, after
<1>20. ASSUME Panic PROVE Told'
  <2>1. CASE pc \in Early
    BY <1>20, <1>d, <1>e, <2>1 DEF Panic, Early, after
  <2>2. CASE pc \notin Early
    <3>1. pc' = "gone" /\ fate' = fate \cup {"post panicked"} /\ UNCHANGED <<result, seen, status, registry>>
      BY <1>20, <2>2 DEF Panic, Early, after, armed
    <3> QED
      BY <1>i, <3>1
  <2> QED
    BY <2>1, <2>2
<1>21. ASSUME Kill PROVE Told'
  BY <1>21, <1>i DEF Kill, after, armed
<1>22. ASSUME EditPolicy PROVE Told'
  <2>1. seen' = seen /\ result' = result /\ registry' = registry /\ status' = status
    BY <1>22 DEF EditPolicy, armed, after
  <2>2. Outcome' = Outcome /\ Len(Programs("post"))' = Len(Programs("post"))
    BY <1>f, <1>g, <2>1
  <2>3. pc' = pc /\ at' = at /\ argv' = argv /\ fate' = fate
    BY <1>22 DEF EditPolicy, armed
  <2> QED
    BY <2>1, <2>2, <2>3 DEF Told
<1>23. ASSUME UNCHANGED vars PROVE Told'
  <2>1. seen' = seen /\ result' = result /\ registry' = registry /\ status' = status
    BY <1>23 DEF vars, armed, after
  <2>2. Outcome' = Outcome /\ Len(Programs("post"))' = Len(Programs("post"))
    BY <1>f, <1>g, <2>1
  <2>3. pc' = pc /\ at' = at /\ argv' = argv /\ fate' = fate
    BY <1>23 DEF vars, armed
  <2> QED
    BY <2>1, <2>2, <2>3 DEF Told
<1>24. ASSUME GateAsks PROVE Told'
  BY <1>24, <1>d, <1>e DEF GateAsks, Early, after
<1>25. ASSUME GitAnswers PROVE Told'
  <2>1. CASE pc' = "exit"
    BY <1>25, <1>j, <2>1, Refusals
  <2>2. CASE pc' # "exit"
    <3>1. pc \in {"gate", "ask", "pre wait"} /\ Continue
      BY <1>25, <2>2, Permissions
    <3>2. seen' = seen /\ pc' = "pre"
      BY <3>1 DEF Continue, after
    <3> QED
      BY <1>d, <1>e, <3>1, <3>2 DEF Early
  <2> QED
    BY <2>1, <2>2
<1> QED
  BY <1>1, <1>2, <1>3, <1>4, <1>5, <1>6, <1>7, <1>8, <1>9, <1>10, <1>11, <1>12,
     <1>13, <1>14, <1>15, <1>16, <1>17, <1>18, <1>19, <1>20, <1>21, <1>22, <1>23, <1>24, <1>25 DEF Next, Gitc

-----------------------------------------------------------------------------
(* Whose command line it is, and what the gate read.                         *)

\* Whose command line it is.
Lines ==
    /\ argv \in {None, Effective} /\ ran \in {None, Effective}
    /\ pc \in Late => argv # None
    /\ argv = None /\ ~marked => pc \in {"arm", "armed", "exit", "gone"} /\ ~blocked /\ core = "not entered"
    /\ core = "not entered" => ran = None
    /\ core # "not entered" => ran = Effective
    /\ row # None => status # None

LEMMA LinesNext == TypeOK /\ Ends /\ Inside /\ Lines /\ [Next]_vars => Lines'
<1> SUFFICES ASSUME TypeOK, Ends, Inside, Lines, [Next]_vars PROVE Lines'
  OBVIOUS
<1>a. Effective # None /\ Effective \in CommandType
  BY EffectiveTyped, PipelineAssumption DEF TypeOK, CommandType
<1>b. request' = request => Effective' = Effective
  BY DEF Effective
<1>c. core \in {"not entered", "running", "returned", "exited"}
  BY DEF TypeOK
<1>e. /\ pc \in Early \cup {"core"} => status = None
      /\ pc \in Early => core = "not entered" /\ ~blocked
      /\ pc = "core" => core = "running"
      /\ pc \in {"exit"} \cup Late => status # None
  BY DEF Ends
<1>d. Refuses => Lines'
  <2> SUFFICES ASSUME Refuses PROVE Lines'
    OBVIOUS
  <2>1. /\ pc \in {"pre", "gate", "ask", "pre wait"} /\ pc' = "exit" /\ status' # None
        /\ argv' = argv /\ ran' = ran /\ core' = core /\ row' = row /\ marked' = marked
        /\ Effective' = Effective
    BY <1>b DEF Refuses, Deciding, armed, git, typed
  <2>2. argv' = None => marked'
    BY <2>1 DEF Lines
  <2> QED
    BY <2>1, <2>2 DEF Lines, Late
<1> USE DEF Lines, typed, armed, git, after, result, Early, Late
<1>1. ASSUME ArmPost PROVE Lines'
  BY <1>1, <1>a, <1>b, <1>c, <1>e DEF ArmPost, Arm, Look
<1>2. ASSUME RefuseMarked PROVE Lines'
  <2>1. Refuses /\ marked
    BY <1>2, Refusals DEF RefuseMarked
  <2> QED
    BY <1>d, <2>1
<1>3. ASSUME NoBackend PROVE Lines'
  BY <1>3, <1>d, Refusals
<1>4. ASSUME GateLooks PROVE Lines'
  BY <1>4, <1>a, <1>b, <1>c, <1>e DEF GateLooks, Look
<1>5. ASSUME GateDecides PROVE Lines'
  <2>1. CASE pc' = "exit"
    BY <1>5, <1>d, <2>1, Refusals
  <2>2. CASE pc' # "exit"
    <3>1. pc \in {"gate", "ask", "pre wait"} /\ Continue
      BY <1>5, <2>2, Permissions
    <3> QED
      BY <1>a, <1>b, <1>e, <3>1 DEF Continue, Lines, typed, armed, git, after, Early, Late
  <2> QED
    BY <2>1, <2>2
<1>6. ASSUME SpawnPre PROVE Lines'
  BY <1>6, <1>a, <1>b, <1>c, <1>e DEF SpawnPre, Spawn
<1>7. ASSUME PreAnswered PROVE Lines'
  <2>1. CASE pc' = "exit"
    BY <1>7, <1>d, <2>1, Refusals
  <2>2. CASE pc' # "exit"
    <3>1. pc \in {"gate", "ask", "pre wait"} /\ Continue
      BY <1>7, <2>2, Permissions
    <3> QED
      BY <1>a, <1>b, <1>e, <3>1 DEF Continue, Lines, typed, armed, git, after, Early, Late
  <2> QED
    BY <2>1, <2>2
<1>8. ASSUME PreFails PROVE Lines'
  BY <1>8, <1>d, Refusals
<1>9. ASSUME EnterCore PROVE Lines'
  BY <1>9, <1>a, <1>b, <1>c, <1>e DEF EnterCore
<1>10. ASSUME Trampoline PROVE Lines'
  BY <1>10, <1>a, <1>b, <1>c, <1>e DEF Trampoline
<1>11. ASSUME AuditSkips PROVE Lines'
  BY <1>11, <1>a, <1>b, <1>c, <1>e DEF AuditSkips, Observe, NextPost
<1>12. ASSUME AuditLooks PROVE Lines'
  BY <1>12, <1>a, <1>b, <1>c, <1>e DEF AuditLooks, Look, Observe
<1>13. ASSUME AuditWrites PROVE Lines'
  BY <1>13, <1>a, <1>b, <1>c, <1>e DEF AuditWrites, NextPost
<1>14. ASSUME SpawnPost PROVE Lines'
  BY <1>14, <1>a, <1>b, <1>c, <1>e DEF SpawnPost, Spawn, Observe
<1>15. ASSUME PostEnds PROVE Lines'
  BY <1>15, <1>a, <1>b, <1>c, <1>e DEF PostEnds, NextPost, Observe
<1>16. ASSUME Finish PROVE Lines'
  BY <1>16, <1>a, <1>b, <1>c, <1>e DEF Finish
<1>17. ASSUME Answer PROVE Lines'
  BY <1>17, <1>a, <1>b, <1>c, <1>e DEF Answer
<1>18. ASSUME CoreReturns PROVE Lines'
  BY <1>18, <1>a, <1>b, <1>c, <1>e DEF CoreReturns, RecordExit
<1>19. ASSUME CoreExits PROVE Lines'
  BY <1>19, <1>a, <1>b, <1>c, <1>e DEF CoreExits
<1>20. ASSUME Panic PROVE Lines'
  BY <1>20, <1>a, <1>b, <1>c, <1>e DEF Panic
<1>21. ASSUME Kill PROVE Lines'
  BY <1>21, <1>a, <1>b, <1>c, <1>e DEF Kill
<1>22. ASSUME EditPolicy PROVE Lines'
  BY <1>22, <1>a, <1>b, <1>c, <1>e DEF EditPolicy
<1>23. ASSUME UNCHANGED vars PROVE Lines'
  BY <1>23, <1>a, <1>b, <1>c, <1>e DEF vars
<1>24. ASSUME GateAsks PROVE Lines'
  BY <1>24, <1>a, <1>b, <1>c, <1>e DEF GateAsks
<1>25. ASSUME GitAnswers PROVE Lines'
  <2>1. CASE pc' = "exit"
    BY <1>25, <1>d, <2>1, Refusals
  <2>2. CASE pc' # "exit"
    <3>1. pc \in {"gate", "ask", "pre wait"} /\ Continue
      BY <1>25, <2>2, Permissions
    <3> QED
      BY <1>a, <1>b, <1>e, <3>1 DEF Continue, Lines, typed, armed, git, after, Early, Late
  <2> QED
    BY <2>1, <2>2
<1> QED
  BY <1>1, <1>2, <1>3, <1>4, <1>5, <1>6, <1>7, <1>8, <1>9, <1>10, <1>11, <1>12,
     <1>13, <1>14, <1>15, <1>16, <1>17, <1>18, <1>19, <1>20, <1>21, <1>22, <1>23, <1>24, <1>25 DEF Next, Gitc

\* What the audit row says.
Booked ==
    row # None => /\ row.argv = Effective /\ (row.mode = "blocked" <=> blocked)
                  /\ row.code = IF blocked \/ known THEN code ELSE -1

LEMMA BookedNext == TypeOK /\ Ends /\ Lines /\ Booked /\ [Next]_vars => Booked'
<1> SUFFICES ASSUME TypeOK, Ends, Lines, Booked, [Next]_vars PROVE Booked'
  OBVIOUS
<1>b. request' = request => Effective' = Effective
  BY DEF Effective
<1>c. pc \in Early \cup {"core"} => row = None
  BY DEF Ends, Lines
<1>d. Refuses => Booked'
  BY <1>b, <1>c DEF Refuses, Deciding, Booked, Early
<1> HIDE DEF Effective
<1>f. ASSUME UNCHANGED <<request, result, row>> PROVE Booked'
  BY <1>b, <1>f DEF Booked, result
<1>g. ASSUME row' = row, pc \in Early \cup {"core"} PROVE Booked'
  BY <1>c, <1>g DEF Booked
<1>1. ASSUME ArmPost PROVE Booked'
  BY <1>1, <1>f DEF ArmPost, typed, after
<1>2. ASSUME RefuseMarked PROVE Booked'
  BY <1>2, <1>d, Refusals
<1>3. ASSUME NoBackend PROVE Booked'
  BY <1>3, <1>d, Refusals
<1>4. ASSUME GateLooks PROVE Booked'
  BY <1>4, <1>f DEF GateLooks, Look, typed, after
<1>5. ASSUME GateDecides PROVE Booked'
  <2>1. CASE pc' = "exit"
    BY <1>5, <1>d, <2>1, Refusals
  <2>2. CASE pc' # "exit"
    <3>1. pc \in {"gate", "ask", "pre wait"} /\ Continue
      BY <1>5, <2>2, Permissions
    <3> QED
      BY <1>g, <3>1 DEF Continue, after, Early
  <2> QED
    BY <2>1, <2>2
<1>6. ASSUME SpawnPre PROVE Booked'
  BY <1>6, <1>f DEF SpawnPre, Spawn, typed, after
<1>7. ASSUME PreAnswered PROVE Booked'
  <2>1. CASE pc' = "exit"
    BY <1>7, <1>d, <2>1, Refusals
  <2>2. CASE pc' # "exit"
    <3>1. pc \in {"gate", "ask", "pre wait"} /\ Continue
      BY <1>7, <2>2, Permissions
    <3> QED
      BY <1>g, <3>1 DEF Continue, after, Early
  <2> QED
    BY <2>1, <2>2
<1>8. ASSUME PreFails PROVE Booked'
  BY <1>8, <1>d, Refusals
<1>9. ASSUME EnterCore PROVE Booked'
  BY <1>9, <1>g DEF EnterCore, Early, after
<1>10. ASSUME Trampoline PROVE Booked'
  BY <1>10, <1>f DEF Trampoline, typed, after
<1>11. ASSUME AuditSkips PROVE Booked'
  BY <1>11, <1>f DEF AuditSkips, Observe, NextPost, typed, after
<1>12. ASSUME AuditLooks PROVE Booked'
  BY <1>12, <1>f DEF AuditLooks, Look, Observe, typed, after
<1>13. ASSUME AuditWrites PROVE Booked'
  <2>1. row' \in {None, Row} /\ request' = request /\ result' = result /\ pc = "record"
    BY <1>13 DEF AuditWrites, typed
  <2>2. argv = Effective
    BY <2>1 DEF Lines, Late
  <2>3. blocked \in BOOLEAN /\ known \in BOOLEAN
    BY DEF TypeOK
  <2>4. /\ Row.argv = argv /\ (Row.mode = "blocked" <=> blocked)
        /\ Row.code = IF blocked \/ known THEN code ELSE -1
    BY <2>3 DEF Row, Mode, Outcome, Blocked, Returned, Exited
  <2> HIDE DEF Row
  <2> QED
    BY <1>b, <2>1, <2>2, <2>4 DEF Booked, result
<1>14. ASSUME SpawnPost PROVE Booked'
  BY <1>14, <1>f DEF SpawnPost, Spawn, Observe, typed, after
<1>15. ASSUME PostEnds PROVE Booked'
  BY <1>15, <1>f DEF PostEnds, NextPost, Observe, typed, after
<1>16. ASSUME Finish PROVE Booked'
  BY <1>16, <1>f DEF Finish, typed, after
<1>17. ASSUME Answer PROVE Booked'
  BY <1>17, <1>f DEF Answer, typed, after
<1>18. ASSUME CoreReturns PROVE Booked'
  BY <1>18, <1>g DEF CoreReturns, RecordExit, Early, after
<1>19. ASSUME CoreExits PROVE Booked'
  BY <1>19, <1>g DEF CoreExits, Early, after
<1>20. ASSUME Panic PROVE Booked'
  BY <1>20, <1>f DEF Panic, typed, after
<1>21. ASSUME Kill PROVE Booked'
  BY <1>21, <1>f DEF Kill, typed, after
<1>22. ASSUME EditPolicy PROVE Booked'
  BY <1>22, <1>f DEF EditPolicy, typed, after
<1>23. ASSUME UNCHANGED vars PROVE Booked'
  BY <1>23, <1>f DEF vars, typed, after
<1>24. ASSUME GateAsks PROVE Booked'
  BY <1>24, <1>f DEF GateAsks, typed, after
<1>25. ASSUME GitAnswers PROVE Booked'
  <2>1. CASE pc' = "exit"
    BY <1>25, <1>d, <2>1, Refusals
  <2>2. CASE pc' # "exit"
    <3>1. pc \in {"gate", "ask", "pre wait"} /\ Continue
      BY <1>25, <2>2, Permissions
    <3> QED
      BY <1>g, <3>1 DEF Continue, after, Early
  <2> QED
    BY <2>1, <2>2
<1> QED
  BY <1>1, <1>2, <1>3, <1>4, <1>5, <1>6, <1>7, <1>8, <1>9, <1>10, <1>11, <1>12,
     <1>13, <1>14, <1>15, <1>16, <1>17, <1>18, <1>19, <1>20, <1>21, <1>22, <1>23, <1>24, <1>25 DEF Next, Gitc

\* What the gate's two looks at policy.json, and ENFORCE, leave to a removal.
Marker ==
    /\ pc = "gate" /\ found /\ file.kind = "absent" => "vanished" \in meddled
    /\ enforce /\ vetting # None => vetting \in Policies \/ "vanished" \in meddled

LEMMA MarkerNext == TypeOK /\ Marker /\ [Next]_vars => Marker'
<1> SUFFICES ASSUME TypeOK, Marker, [Next]_vars PROVE Marker'
  OBVIOUS
<1>a. file \in Files /\ enforce \in BOOLEAN
  BY DEF TypeOK
<1>b. Files = [kind : {"absent", "broken"}, policy : {ZeroPolicy}] \cup [kind : {"whole"}, policy : Policies]
  BY DEF Files
<1>d. UNCHANGED <<vetting, machine>> /\ pc' # "gate" => Marker'
  BY DEF Marker, machine
<1>e. Load(found, file).ok /\ pc = "gate" /\ enforce => Load(found, file).policy \in Policies \/ "vanished" \in meddled
  BY <1>a, <1>b DEF Marker, Load
<1>1. ASSUME ArmPost PROVE Marker'
  BY <1>1, <1>d DEF ArmPost, Arm, Look
<1>2. ASSUME RefuseMarked PROVE Marker'
  BY <1>2, <1>d DEF RefuseMarked, Block, RecordExit
<1>3. ASSUME NoBackend PROVE Marker'
  BY <1>3, <1>d DEF NoBackend, Block, RecordExit
<1>4. ASSUME GateLooks PROVE Marker'
  BY <1>4 DEF GateLooks, Look, Marker, machine
<1>5. ASSUME GateDecides PROVE Marker'
  <2>1. pc = "gate" /\ pc' # "gate" /\ machine' = machine
        /\ vetting' = IF Load(found, file).ok THEN Load(found, file).policy ELSE None
    BY <1>5 DEF GateDecides, Continue, Block, RecordExit
  <2> HIDE DEF Load
  <2> QED
    BY <1>e, <2>1 DEF Marker, machine
<1>6. ASSUME SpawnPre PROVE Marker'
  BY <1>6, <1>d DEF SpawnPre, Spawn
<1>7. ASSUME PreAnswered PROVE Marker'
  BY <1>7, <1>d DEF PreAnswered, Continue, Block, RecordExit
<1>8. ASSUME PreFails PROVE Marker'
  BY <1>8, <1>d DEF PreFails, Block, RecordExit
<1>9. ASSUME EnterCore PROVE Marker'
  BY <1>9, <1>d DEF EnterCore
<1>10. ASSUME Trampoline PROVE Marker'
  BY <1>10, <1>d DEF Trampoline
<1>11. ASSUME AuditSkips PROVE Marker'
  BY <1>11, <1>d DEF AuditSkips, Observe, NextPost
<1>12. ASSUME AuditLooks PROVE Marker'
  BY <1>12, <1>d DEF AuditLooks, Look, Observe
<1>13. ASSUME AuditWrites PROVE Marker'
  BY <1>13, <1>d DEF AuditWrites, NextPost
<1>14. ASSUME SpawnPost PROVE Marker'
  BY <1>14, <1>d DEF SpawnPost, Spawn, Observe
<1>15. ASSUME PostEnds PROVE Marker'
  BY <1>15, <1>d DEF PostEnds, NextPost, Observe
<1>16. ASSUME Finish PROVE Marker'
  BY <1>16, <1>d DEF Finish
<1>17. ASSUME Answer PROVE Marker'
  BY <1>17 DEF Answer, Marker, machine
<1>18. ASSUME CoreReturns PROVE Marker'
  BY <1>18, <1>d DEF CoreReturns, RecordExit
<1>19. ASSUME CoreExits PROVE Marker'
  BY <1>19, <1>d DEF CoreExits
<1>20. ASSUME Panic PROVE Marker'
  BY <1>20, <1>d DEF Panic
<1>21. ASSUME Kill PROVE Marker'
  BY <1>21, <1>d DEF Kill
<1>22. ASSUME EditPolicy PROVE Marker'
  BY <1>22 DEF EditPolicy, Marker
<1>23. ASSUME UNCHANGED vars PROVE Marker'
  BY <1>23 DEF vars, Marker, machine
<1>24. ASSUME GateAsks PROVE Marker'
  <2>1. /\ pc = "gate" /\ pc' # "gate" /\ machine' = machine
        /\ Load(found, file).ok /\ vetting' = Load(found, file).policy
    BY <1>24 DEF GateAsks
  <2> HIDE DEF Load
  <2> QED
    BY <1>e, <2>1 DEF Marker, machine
<1>25. ASSUME GitAnswers PROVE Marker'
  BY <1>25, <1>d DEF GitAnswers, Continue, Block, RecordExit
<1> QED
  BY <1>1, <1>2, <1>3, <1>4, <1>5, <1>6, <1>7, <1>8, <1>9, <1>10, <1>11, <1>12, <1>13, <1>14,
     <1>15, <1>16, <1>17, <1>18, <1>19, <1>20, <1>21, <1>22, <1>23, <1>24, <1>25 DEF Next, Gitc

\* While nobody rewrites policy.json, its readings agree.
Readings ==
    /\ pc \in {"arm", "armed"} => vetting = None
    /\ "changed" \notin meddled =>
         /\ pc = "armed" => found = (file.kind # "absent")
         /\ pc = "pre" /\ at = 0 /\ ~marked => registry = Load(file.kind # "absent", file)
         /\ pc = "gate" => found = (file.kind # "absent") /\ registry = Load(found, file)
         /\ vetting # None => registry.ok /\ vetting = registry.policy

LEMMA ReadingsNext == TypeOK /\ TurnInv /\ Readings /\ [Next]_vars => Readings'
<1> SUFFICES ASSUME TypeOK, TurnInv, Readings, [Next]_vars PROVE Readings'
  OBVIOUS
<1>a. at \in Nat /\ at + 1 # 0 /\ (pc \in {"arm", "armed", "gate", "ask"} => at = 0)
  <2>1. at \in Nat
    BY DEF TypeOK
  <2>2. at + 1 # 0
    BY ONLY <2>1
  <2>3. pc \in {"arm", "armed", "gate", "ask"} => at = 0
    BY DEF TurnInv
  <2> QED
    BY <2>1, <2>2, <2>3
<1>b. \A there, now : enforce' = enforce => Load(there, now)' = Load(there', now')
  BY DEF Load
<1> HIDE DEF Load
<1>d. ASSUME UNCHANGED <<machine, registry, vetting, marked>>,
             pc' \notin {"arm", "armed", "gate"}, pc' = "pre" => at' # 0
      PROVE  Readings'
  BY <1>d DEF Readings, machine
<1>1. ASSUME ArmPost PROVE Readings'
  <2>0. machine' = machine /\ marked' = marked /\ vetting' = vetting /\ at' = at /\ at = 0
    BY <1>1, <1>a DEF ArmPost, Arm, Look, typed
  <2>1. CASE pc = "arm" /\ marked
    <3>1. pc' = "pre" /\ registry' = registry
      BY <1>1, <2>1 DEF ArmPost, Arm, Look, armed
    <3> QED
      BY <2>0, <2>1, <3>1 DEF Readings, machine
  <2>2. CASE pc = "arm" /\ ~marked
    <3>1. pc' = "armed" /\ found' = (file.kind # "absent") /\ registry' = registry
      BY <1>1, <2>2 DEF ArmPost, Arm, Look, armed
    <3> QED
      BY <2>0, <2>2, <3>1 DEF Readings, machine
  <2>3. CASE pc = "armed"
    <3>1. pc' = "pre" /\ registry' = Load(found, file)
      BY <1>1, <2>3 DEF ArmPost, Arm, Look
    <3>2. "changed" \notin meddled => registry' = Load(file.kind # "absent", file)
      BY <2>3, <3>1 DEF Readings
    <3>3. Load(file.kind # "absent", file)' = Load(file.kind # "absent", file)
      BY <2>0 DEF machine, Load
    <3> QED
      BY <2>0, <2>3, <3>1, <3>2, <3>3 DEF Readings, machine
  <2> QED
    BY <1>1, <2>1, <2>2, <2>3 DEF ArmPost, Arm, Look
<1>2. ASSUME RefuseMarked PROVE Readings'
  BY <1>2, <1>d DEF RefuseMarked, Block, RecordExit, armed, typed
<1>3. ASSUME NoBackend PROVE Readings'
  BY <1>3, <1>d DEF NoBackend, Block, RecordExit, armed, typed
<1>4. ASSUME GateLooks PROVE Readings'
  <2>1. /\ pc = "pre" /\ at = 0 /\ ~marked /\ pc' = "gate" /\ found' = (file.kind # "absent")
        /\ machine' = machine /\ registry' = registry /\ vetting' = vetting /\ marked' = marked
    BY <1>4 DEF GateLooks, Look, armed, typed
  <2>2. Load(found, file)' = Load(file.kind # "absent", file)
    <3>1. found' = (file.kind # "absent") /\ file' = file /\ enforce' = enforce
      BY <2>1 DEF machine
    <3>2. Load(found, file)' = Load(found', file')
      BY <1>b, <3>1
    <3>3. Load(found', file') = Load(file.kind # "absent", file)
      BY <3>1
    <3> QED
      BY <3>2, <3>3
  <2> QED
    BY <2>1, <2>2 DEF Readings, machine
<1>5. ASSUME GateDecides PROVE Readings'
  <2>1. /\ pc = "gate" /\ machine' = machine /\ registry' = registry /\ marked' = marked
        /\ pc' \notin {"arm", "armed", "gate"} /\ (pc' = "pre" => at' = at + 1)
        /\ vetting' = IF Load(found, file).ok THEN Load(found, file).policy ELSE None
    BY <1>5 DEF GateDecides, Continue, Block, RecordExit, armed, typed
  <2> QED
    BY <1>a, <2>1 DEF Readings, machine
<1>6. ASSUME SpawnPre PROVE Readings'
  BY <1>6, <1>d DEF SpawnPre, Spawn, armed, typed
<1>7. ASSUME PreAnswered PROVE Readings'
  <2>1. /\ UNCHANGED <<machine, registry, vetting, marked>> /\ pc' \in {"pre", "exit"}
        /\ (pc' = "pre" => at' = at + 1)
    BY <1>7 DEF PreAnswered, Continue, Block, RecordExit, armed, typed
  <2> QED
    BY <1>a, <1>d, <2>1
<1>8. ASSUME PreFails PROVE Readings'
  BY <1>8, <1>d DEF PreFails, Block, RecordExit, armed, typed
<1>9. ASSUME EnterCore PROVE Readings'
  BY <1>9, <1>d DEF EnterCore, armed, typed
<1>10. ASSUME Trampoline PROVE Readings'
  BY <1>10, <1>d DEF Trampoline, armed, typed
<1>11. ASSUME AuditSkips PROVE Readings'
  BY <1>11, <1>d DEF AuditSkips, Observe, NextPost, armed, typed
<1>12. ASSUME AuditLooks PROVE Readings'
  BY <1>12, <1>d DEF AuditLooks, Look, Observe, armed, typed
<1>13. ASSUME AuditWrites PROVE Readings'
  BY <1>13, <1>d DEF AuditWrites, NextPost, armed, typed
<1>14. ASSUME SpawnPost PROVE Readings'
  BY <1>14, <1>d DEF SpawnPost, Spawn, Observe, armed, typed
<1>15. ASSUME PostEnds PROVE Readings'
  BY <1>15, <1>d DEF PostEnds, NextPost, Observe, armed, typed
<1>16. ASSUME Finish PROVE Readings'
  BY <1>16, <1>d DEF Finish, armed, typed
<1>17. ASSUME Answer PROVE Readings'
  <2>1. UNCHANGED <<machine, pc, typed, found, armed, vetting, at>>
    BY <1>17 DEF Answer
  <2>2. Load(found, file)' = Load(found, file) /\ Load(file.kind # "absent", file)' = Load(file.kind # "absent", file)
    BY <2>1 DEF machine, Load
  <2> QED
    BY <2>1, <2>2 DEF Readings, machine, armed, typed
<1>18. ASSUME CoreReturns PROVE Readings'
  BY <1>18, <1>d DEF CoreReturns, RecordExit, armed, typed
<1>19. ASSUME CoreExits PROVE Readings'
  BY <1>19, <1>d DEF CoreExits, armed, typed
<1>20. ASSUME Panic PROVE Readings'
  BY <1>20, <1>d DEF Panic, armed, typed
<1>21. ASSUME Kill PROVE Readings'
  BY <1>21, <1>d DEF Kill, armed, typed
<1>22. ASSUME EditPolicy PROVE Readings'
  <2>1. UNCHANGED <<enforce, pc, typed, found, armed, vetting, at>> /\ meddled \subseteq meddled'
        /\ (pc \in {"armed", "gate"} \/ (pc = "pre" /\ at = 0) => "changed" \in meddled')
    BY <1>22 DEF EditPolicy
  <2> QED
    BY <2>1 DEF Readings, armed, typed
<1>23. ASSUME UNCHANGED vars PROVE Readings'
  <2>1. UNCHANGED <<machine, pc, typed, found, armed, vetting, at>>
    BY <1>23 DEF vars
  <2>2. Load(found, file)' = Load(found, file) /\ Load(file.kind # "absent", file)' = Load(file.kind # "absent", file)
    BY <2>1 DEF machine, Load
  <2> QED
    BY <2>1, <2>2 DEF Readings, machine, armed, typed
<1>24. ASSUME GateAsks PROVE Readings'
  <2>1. /\ pc = "gate" /\ pc' = "ask" /\ machine' = machine /\ registry' = registry
        /\ Load(found, file).ok /\ vetting' = Load(found, file).policy /\ marked' = marked
    BY <1>24 DEF GateAsks, armed, typed
  <2> QED
    BY <2>1 DEF Readings, machine
<1>25. ASSUME GitAnswers PROVE Readings'
  <2>1. /\ UNCHANGED <<machine, registry, vetting, marked>> /\ pc' \in {"pre", "exit"}
        /\ (pc' = "pre" => at' = at + 1)
    BY <1>25 DEF GitAnswers, Continue, Block, RecordExit, armed, typed
  <2> QED
    BY <1>a, <1>d, <2>1
<1> QED
  BY <1>1, <1>2, <1>3, <1>4, <1>5, <1>6, <1>7, <1>8, <1>9, <1>10, <1>11, <1>12, <1>13, <1>14,
     <1>15, <1>16, <1>17, <1>18, <1>19, <1>20, <1>21, <1>22, <1>23, <1>24, <1>25 DEF Next, Gitc

-----------------------------------------------------------------------------
(* What lets a command pass.                                                 *)

\* The gate decided by a policy that lets the command pass.
Vetted ==
    /\ pc \in {"gate", "ask"} \/ (pc \in {"pre", "pre wait"} /\ at # 0) => ~marked /\ world.backend
    /\ pc = "ask" => vetting # None
    /\ (pc \in {"pre", "pre wait"} /\ at # 0) \/ core # "not entered" =>
         /\ ~marked /\ world.backend /\ vetting # None
         /\ ~EnforceGates(vetting, Effective.verb, world)

LEMMA VettedNext == TypeOK /\ TurnInv /\ Ends /\ Inside /\ Vetted /\ [Next]_vars => Vetted'
<1> SUFFICES ASSUME TypeOK, TurnInv, Ends, Inside, Vetted, [Next]_vars PROVE Vetted'
  OBVIOUS
<1>a. /\ pc \in Early => core = "not entered"
      /\ pc \in {"arm", "armed"} => at = 0
      /\ marked => pc \in {"arm", "pre", "exit", "gone"}
  BY DEF Ends, TurnInv, Inside
<1>d. Refuses => Vetted'
  BY <1>a DEF Refuses, Deciding, Vetted, Early, git
<1>e. ASSUME UNCHANGED <<typed, vetting, core>>,
             pc' \in {"pre", "pre wait"} /\ at' # 0 => pc \in {"pre", "pre wait"} /\ at # 0,
             pc' = "gate" => pc = "gate", pc' = "ask" => pc = "ask"
      PROVE  Vetted'
  BY <1>e DEF Vetted, typed, Effective
<1>1. ASSUME ArmPost PROVE Vetted'
  BY <1>1, <1>a, <1>e DEF ArmPost, Arm, Look, git
<1>2. ASSUME RefuseMarked PROVE Vetted'
  BY <1>2, <1>d, Refusals
<1>3. ASSUME NoBackend PROVE Vetted'
  BY <1>3, <1>d, Refusals
<1>4. ASSUME GateLooks PROVE Vetted'
  BY <1>4, <1>a DEF GateLooks, Look, Vetted, typed, git, Early
<1>5. ASSUME GateDecides PROVE Vetted'
  <2>1. CASE pc' = "exit"
    BY <1>5, <1>d, <2>1, Refusals
  <2>2. CASE pc' # "exit"
    <3>1. pc = "gate" /\ Continue
      BY <1>5, <2>2, Permissions DEF GateDecides
    <3>2. Load(found, file).ok /\ ~EnforceGates(Load(found, file).policy, Effective.verb, world)
      BY <1>5, <2>2 DEF GateDecides, Block, RecordExit
    <3>3. vetting' = Load(found, file).policy /\ vetting' # None
      <4>1. vetting' = Load(found, file).policy
        BY <1>5, <3>2 DEF GateDecides
      <4>2. Load(found, file).policy \in Policies \cup {ZeroPolicy}
        BY LoadTyped DEF TypeOK, LoadType
      <4> QED
        BY <4>1, <4>2, ZeroPolicyTyped, PipelineAssumption
    <3>4. Effective' = Effective /\ world' = world /\ marked' = marked /\ core' = core
      BY <3>1 DEF Continue, typed, git, Effective
    <3> HIDE DEF Load, EnforceGates
    <3> QED
      BY <3>1, <3>2, <3>3, <3>4 DEF Vetted
  <2> QED
    BY <2>1, <2>2
<1>6. ASSUME SpawnPre PROVE Vetted'
  <2>1. at # 0
    <3>1. at \in 1..Len(Programs("pre")) /\ Len(Programs("pre")) \in Nat
      BY <1>6, ProgramsAreSequences DEF SpawnPre, Spawn, TypeOK
    <3> QED
      BY <3>1
  <2> QED
    BY <1>6, <1>e, <2>1 DEF SpawnPre, Spawn, git
<1>7. ASSUME PreAnswered PROVE Vetted'
  <2>1. CASE pc' = "exit"
    BY <1>7, <1>d, <2>1, Refusals
  <2>2. CASE pc' # "exit"
    <3>1. pc = "pre wait" /\ at # 0 /\ Continue
      <4>1. pc = "pre wait" /\ Continue
        BY <1>7, <2>2, Permissions DEF PreAnswered
      <4>2. at \in 1..Len(Programs("pre"))
        BY <4>1 DEF TurnInv
      <4>3. Len(Programs("pre")) \in Nat
        BY ProgramsAreSequences DEF TypeOK
      <4>4. at # 0
        BY <4>2, <4>3
      <4> QED
        BY <4>1, <4>4
    <3> QED
      BY <1>7, <1>e, <3>1 DEF Continue, PreAnswered, git
  <2> QED
    BY <2>1, <2>2
<1>8. ASSUME PreFails PROVE Vetted'
  BY <1>8, <1>d, Refusals
<1>9. ASSUME EnterCore PROVE Vetted'
  <2>1. pc = "pre" /\ pc' = "core" /\ UNCHANGED <<typed, vetting>>
    BY <1>9 DEF EnterCore
  <2>2. at # 0
    <3>1. at > Len(Programs("pre")) /\ Len(Programs("pre")) \in Nat
      BY <1>9, ProgramsAreSequences DEF EnterCore, TypeOK
    <3> QED
      BY <3>1
  <2> QED
    BY <2>1, <2>2 DEF Vetted, typed, Effective
<1>10. ASSUME Trampoline PROVE Vetted'
  BY <1>10, <1>e DEF Trampoline, git
<1>11. ASSUME AuditSkips PROVE Vetted'
  BY <1>11, <1>e DEF AuditSkips, Observe, NextPost, git
<1>12. ASSUME AuditLooks PROVE Vetted'
  BY <1>12, <1>e DEF AuditLooks, Look, Observe, git
<1>13. ASSUME AuditWrites PROVE Vetted'
  BY <1>13, <1>e DEF AuditWrites, NextPost, git
<1>14. ASSUME SpawnPost PROVE Vetted'
  BY <1>14, <1>e DEF SpawnPost, Spawn, Observe, git
<1>15. ASSUME PostEnds PROVE Vetted'
  BY <1>15, <1>e DEF PostEnds, NextPost, Observe, git
<1>16. ASSUME Finish PROVE Vetted'
  BY <1>16, <1>e DEF Finish, git
<1>17. ASSUME Answer PROVE Vetted'
  BY <1>17, <1>e DEF Answer, git
<1>18. ASSUME CoreReturns PROVE Vetted'
  <2>1. pc = "core" /\ pc' = "exit" /\ UNCHANGED <<typed, vetting>>
    BY <1>18 DEF CoreReturns, RecordExit
  <2>2. core # "not entered"
    BY <2>1 DEF Ends
  <2> QED
    BY <2>1, <2>2 DEF Vetted, typed, Effective
<1>19. ASSUME CoreExits PROVE Vetted'
  <2>1. pc = "core" /\ pc' = "exit" /\ UNCHANGED <<typed, vetting>>
    BY <1>19 DEF CoreExits
  <2>2. core # "not entered"
    BY <2>1 DEF Ends
  <2> QED
    BY <2>1, <2>2 DEF Vetted, typed, Effective
<1>20. ASSUME Panic PROVE Vetted'
  BY <1>20, <1>e DEF Panic, git
<1>21. ASSUME Kill PROVE Vetted'
  BY <1>21, <1>e DEF Kill, git
<1>22. ASSUME EditPolicy PROVE Vetted'
  BY <1>22, <1>e DEF EditPolicy, git
<1>23. ASSUME UNCHANGED vars PROVE Vetted'
  BY <1>23, <1>e DEF vars, git
<1>24. ASSUME GateAsks PROVE Vetted'
  <2>1. /\ pc = "gate" /\ pc' = "ask" /\ typed' = typed /\ core' = core
        /\ Load(found, file).ok /\ vetting' = Load(found, file).policy
    BY <1>24 DEF GateAsks, git
  <2>2. vetting' # None
    <3>1. Load(found, file).policy \in Policies \cup {ZeroPolicy}
      BY LoadTyped DEF TypeOK, LoadType
    <3> QED
      BY <2>1, <3>1, ZeroPolicyTyped, PipelineAssumption
  <2>3. core' = "not entered" /\ ~marked' /\ world'.backend
    <3>1. ~marked /\ world.backend
      BY <2>1 DEF Vetted
    <3>2. marked' = marked /\ world' = world
      BY <2>1 DEF typed
    <3>3. core = "not entered"
      BY <1>a, <2>1 DEF Early
    <3> QED
      BY <2>1, <3>1, <3>2, <3>3
  <2>4. pc' = "ask" /\ vetting' # None
    BY <2>1, <2>2
  <2> HIDE DEF EnforceGates, Effective
  <2> QED
    BY <2>3, <2>4 DEF Vetted
<1>25. ASSUME GitAnswers PROVE Vetted'
  <2>1. CASE pc' = "exit"
    BY <1>25, <1>d, <2>1, Refusals
  <2>2. CASE pc' # "exit"
    <3>1. pc = "ask" /\ Continue /\ vetting' = vetting
      BY <1>25, <2>2, Permissions DEF GitAnswers
    <3>2. ~EnforceGates(vetting, Effective.verb, world)
      BY <1>25, <2>2 DEF GitAnswers, Block, RecordExit
    <3>3. Effective' = Effective /\ world' = world /\ marked' = marked /\ core' = core
      BY <3>1 DEF Continue, typed, git, Effective
    <3> HIDE DEF EnforceGates
    <3> QED
      BY <3>1, <3>2, <3>3 DEF Vetted
  <2> QED
    BY <2>1, <2>2
<1> QED
  BY <1>1, <1>2, <1>3, <1>4, <1>5, <1>6, <1>7, <1>8, <1>9, <1>10, <1>11, <1>12,
     <1>13, <1>14, <1>15, <1>16, <1>17, <1>18, <1>19, <1>20, <1>21, <1>22, <1>23, <1>24, <1>25 DEF Next, Gitc

Allows(n) == [i \in 1..n |-> "allow"]

LEMMA AllowsOneMore == Allows(0) = <<>> /\ \A n \in Nat : Append(Allows(n), "allow") = Allows(n + 1)
<1>1. Allows(0) = <<>>
  BY DEF Allows
<1>2. ASSUME NEW n \in Nat PROVE Append(Allows(n), "allow") = Allows(n + 1)
  <2>1. Allows(n) \in Seq({"allow"}) /\ Len(Allows(n)) = n
    BY DEF Allows
  <2>2. ASSUME NEW s \in Seq({"allow"}), Len(s) = n
        PROVE  Append(s, "allow") \in [1..(n + 1) -> {"allow"}]
    <3>1. Append(s, "allow") \in Seq({"allow"}) /\ Len(Append(s, "allow")) = n + 1
      BY <2>2
    <3>2. ASSUME NEW t \in Seq({"allow"}) PROVE t \in [1..Len(t) -> {"allow"}]
      OBVIOUS
    <3> QED
      BY <3>1, <3>2
  <2>3. Append(Allows(n), "allow") \in [1..(n + 1) -> {"allow"}]
    BY <2>1, <2>2
  <2>4. ASSUME NEW f \in [1..(n + 1) -> {"allow"}] PROVE f = Allows(n + 1)
    BY <2>4 DEF Allows
  <2> QED
    BY <2>3, <2>4
<1> QED
  BY <1>1, <1>2

\* The ledger of a command that goes on.
Noted ==
    /\ pc \in Early /\ at = 0 => notes = <<>>
    /\ pc \in {"pre", "pre wait"} /\ at # 0 => notes = Allows(at)
    /\ core # "not entered" => notes = Allows(1 + Len(Programs("pre")))

LEMMA NotedNext == TypeOK /\ TurnInv /\ Ends /\ Noted /\ [Next]_vars => Noted'
<1> SUFFICES ASSUME TypeOK, TurnInv, Ends, Noted, [Next]_vars PROVE Noted'
  OBVIOUS
<1>a. /\ pc \in Early => core = "not entered"
      /\ pc \in {"arm", "armed", "gate", "ask"} => at = 0
  BY DEF Ends, TurnInv
<1>b. registry' = registry => Len(Programs("pre"))' = Len(Programs("pre"))
  BY DEF Programs
<1>c. at \in Nat /\ Len(Programs("pre")) \in Nat
  BY ProgramsAreSequences DEF TypeOK
<1>d. Refuses => Noted'
  BY <1>a DEF Refuses, Deciding, Noted, Early, git
<1>e. ASSUME UNCHANGED <<notes, core>>, pc \in Early \/ registry' = registry,
             pc' \in Early => (pc \in Early /\ at' = at)
                              /\ (pc' \in {"pre", "pre wait"} => pc \in {"pre", "pre wait"} \/ at = 0)
      PROVE  Noted'
  BY <1>a, <1>b, <1>e DEF Noted, Early
<1>f. ASSUME Continue, pc \in {"gate", "ask", "pre wait"} PROVE Noted'
  <2>1. at' = at + 1 /\ pc' = "pre" /\ notes' = Append(notes, "allow") /\ core' = core
    BY <1>f DEF Continue, git
  <2>2. notes = Allows(at)
    BY <1>a, <1>f, AllowsOneMore DEF Noted, Early
  <2>3. notes' = Allows(at + 1) /\ at + 1 # 0
    <3>1. at + 1 # 0
      BY <1>c
    <3>2. Append(Allows(at), "allow") = Allows(at + 1)
      BY <1>c, AllowsOneMore
    <3> QED
      BY <2>1, <2>2, <3>1, <3>2
  <2>4. core' = "not entered"
    BY <1>a, <1>f, <2>1 DEF Early
  <2> QED
    BY <2>1, <2>3, <2>4 DEF Noted
<1>1. ASSUME ArmPost PROVE Noted'
  BY <1>1, <1>a, <1>e DEF ArmPost, Arm, Look, git, Early
<1>2. ASSUME RefuseMarked PROVE Noted'
  BY <1>2, <1>d, Refusals
<1>3. ASSUME NoBackend PROVE Noted'
  BY <1>3, <1>d, Refusals
<1>4. ASSUME GateLooks PROVE Noted'
  BY <1>4, <1>e DEF GateLooks, Look, armed, git, Early
<1>5. ASSUME GateDecides PROVE Noted'
  <2>1. CASE pc' = "exit"
    BY <1>5, <1>d, <2>1, Refusals
  <2>2. CASE pc' # "exit"
    BY <1>5, <1>f, <2>2, Permissions
  <2> QED
    BY <2>1, <2>2
<1>6. ASSUME SpawnPre PROVE Noted'
  BY <1>6, <1>e DEF SpawnPre, Spawn, armed, git, Early
<1>7. ASSUME PreAnswered PROVE Noted'
  <2>1. CASE pc' = "exit"
    BY <1>7, <1>d, <2>1, Refusals
  <2>2. CASE pc' # "exit"
    BY <1>7, <1>f, <2>2, Permissions
  <2> QED
    BY <2>1, <2>2
<1>8. ASSUME PreFails PROVE Noted'
  BY <1>8, <1>d, Refusals
<1>9. ASSUME EnterCore PROVE Noted'
  <2>1. pc = "pre" /\ pc' = "core" /\ notes' = notes /\ registry' = registry /\ at > Len(Programs("pre"))
    BY <1>9 DEF EnterCore, armed
  <2>2. at <= 1 + Len(Programs("pre"))
    BY <2>1 DEF TypeOK
  <2>3. at # 0 /\ at = 1 + Len(Programs("pre"))
    <3>1. at > Len(Programs("pre"))
      BY <2>1
    <3> QED
      BY <1>c, <2>2, <3>1
  <2>4. notes' = Allows(1 + Len(Programs("pre")))'
    BY <1>b, <2>1, <2>3 DEF Noted
  <2> QED
    BY <2>1, <2>4 DEF Noted, Early
<1>10. ASSUME Trampoline PROVE Noted'
  BY <1>10, <1>e DEF Trampoline, armed, git, Early
<1>11. ASSUME AuditSkips PROVE Noted'
  BY <1>11, <1>e DEF AuditSkips, Observe, NextPost, armed, git, Early
<1>12. ASSUME AuditLooks PROVE Noted'
  BY <1>12, <1>e DEF AuditLooks, Look, Observe, armed, git, Early
<1>13. ASSUME AuditWrites PROVE Noted'
  BY <1>13, <1>e DEF AuditWrites, NextPost, armed, git, Early
<1>14. ASSUME SpawnPost PROVE Noted'
  BY <1>14, <1>e DEF SpawnPost, Spawn, Observe, armed, git, Early
<1>15. ASSUME PostEnds PROVE Noted'
  BY <1>15, <1>e DEF PostEnds, NextPost, Observe, armed, git, Early
<1>16. ASSUME Finish PROVE Noted'
  BY <1>16, <1>e DEF Finish, armed, git, Early
<1>17. ASSUME Answer PROVE Noted'
  BY <1>17, <1>e DEF Answer, armed, git, Early
<1>18. ASSUME CoreReturns PROVE Noted'
  <2>1. pc = "core" /\ pc' = "exit" /\ notes' = notes /\ registry' = registry
    BY <1>18 DEF CoreReturns, RecordExit, armed
  <2>2. core = "running"
    BY <2>1 DEF Ends
  <2> QED
    BY <1>b, <2>1, <2>2 DEF Noted, Early
<1>19. ASSUME CoreExits PROVE Noted'
  <2>1. pc = "core" /\ pc' = "exit" /\ notes' = notes /\ registry' = registry
    BY <1>19 DEF CoreExits, armed
  <2>2. core = "running"
    BY <2>1 DEF Ends
  <2> QED
    BY <1>b, <2>1, <2>2 DEF Noted, Early
<1>20. ASSUME Panic PROVE Noted'
  BY <1>20, <1>e DEF Panic, armed, git, Early
<1>21. ASSUME Kill PROVE Noted'
  BY <1>21, <1>e DEF Kill, armed, git, Early
<1>22. ASSUME EditPolicy PROVE Noted'
  BY <1>22, <1>e DEF EditPolicy, armed, git, Early
<1>23. ASSUME UNCHANGED vars PROVE Noted'
  BY <1>23, <1>e DEF vars, armed, git, Early
<1>24. ASSUME GateAsks PROVE Noted'
  BY <1>24, <1>e DEF GateAsks, armed, git, Early
<1>25. ASSUME GitAnswers PROVE Noted'
  <2>1. CASE pc' = "exit"
    BY <1>25, <1>d, <2>1, Refusals
  <2>2. CASE pc' # "exit"
    BY <1>25, <1>f, <2>2, Permissions
  <2> QED
    BY <2>1, <2>2
<1> QED
  BY <1>1, <1>2, <1>3, <1>4, <1>5, <1>6, <1>7, <1>8, <1>9, <1>10, <1>11, <1>12,
     <1>13, <1>14, <1>15, <1>16, <1>17, <1>18, <1>19, <1>20, <1>21, <1>22, <1>23, <1>24, <1>25 DEF Next, Gitc

-----------------------------------------------------------------------------
(* The theorems.                                                             *)

IInv ==
    /\ TypeOK /\ TurnInv
    /\ Ends /\ Inside /\ Told
    /\ Lines /\ Booked
    /\ Marker /\ Readings /\ Vetted /\ Noted

LEMMA IInvInit == Init => IInv
<1> SUFFICES ASSUME Init PROVE IInv
  OBVIOUS
<1>1. TypeOK /\ at = 0 /\ pc \in {"arm", "gone"}
  BY TypeInit DEF Init
<1>2. /\ core = "not entered" /\ status = None /\ ~known /\ ~blocked
      /\ child = None /\ argv = None /\ ran = None /\ row = None /\ vetting = None /\ found = FALSE
      /\ seen = <<>> /\ notes = <<>>
  BY DEF Init
<1>3. Len(seen) = 0 /\ DOMAIN seen = {} /\ Len(seen) <= 1 + Len(Programs("post"))
  <2>1. Len(Programs("post")) \in Nat
    BY <1>1, ProgramsAreSequences DEF TypeOK
  <2>2. Len(seen) = 0 /\ DOMAIN seen = {}
    <3>1. seen = <<>>
      BY <1>2
    <3> QED
      BY ONLY <3>1
  <2>3. 0 <= 1 + Len(Programs("post"))
    BY <2>1
  <2> QED
    BY <2>2, <2>3
<1>4. None # 0
  BY PipelineAssumption
<1>5. TurnInv /\ Ends
  BY <1>1, <1>2 DEF TurnInv, Ends, Early, Late
<1>6. Inside
  BY <1>1, <1>2, <1>4 DEF Inside
<1>7. Told
  BY <1>1, <1>2, <1>3 DEF Told, Early
<1>8. Lines /\ Booked
  BY <1>1, <1>2 DEF Lines, Booked, Late
<1>9. Marker /\ Readings /\ Vetted /\ Noted
  BY <1>1, <1>2 DEF Marker, Readings, Vetted, Noted, Early
<1> QED
  BY <1>1, <1>5, <1>6, <1>7, <1>8, <1>9 DEF IInv

LEMMA IInvNext == IInv /\ [Next]_vars => IInv'
<1> SUFFICES ASSUME IInv, [Next]_vars PROVE IInv'
  OBVIOUS
<1>1. TypeOK' /\ TurnInv'
  BY TypeNext DEF IInv
<1>2. Ends' /\ Inside' /\ Told'
  BY EndsNext, InsideNext, ToldNext DEF IInv
<1>3. Lines' /\ Booked'
  BY LinesNext, BookedNext DEF IInv
<1>4. Marker' /\ Readings' /\ Vetted' /\ Noted'
  BY MarkerNext, ReadingsNext, VettedNext, NotedNext DEF IInv
<1> QED
  BY <1>1, <1>2, <1>3, <1>4 DEF IInv

LEMMA IInvHolds == Spec => []IInv
  BY IInvInit, IInvNext, PTL DEF Spec

\* What the gate lets pass is what the policy permits: the order of its checks,
\* and its way out when neither check is configured, lose none of them.
LEMMA GatePermits ==
    ASSUME NEW chosen \in PolicyType, NEW verb, NEW w \in WorldType, ~EnforceGates(chosen, verb, w)
    PROVE  Permitted(chosen, verb, w)
<1>1. w.remote \in {"listed", "unlisted", "unknown", "unverifiable"} /\ w.scanner \in {"ready", "fails"}
  BY DEF WorldType
<1>2. CASE verb = "commit"
  <2>1. ~PreflightBlocks(chosen, w)
    BY <1>2 DEF EnforceGates
  <2> QED
    BY <1>1, <1>2, <2>1 DEF PreflightBlocks, Permitted
<1>3. CASE verb # "commit"
  <2>1. chosen.secrets # "off" \/ chosen.allowlist =>
          ~w.alias /\ ~AllowlistBlocks(chosen, verb, w) /\ ~SecretGateBlocks(chosen, verb, w)
    BY <1>3 DEF EnforceGates
  <2>2. SecretGateApplies(chosen, verb) => chosen.secrets # "off"
    BY DEF SecretGateApplies
  <2> QED
    BY <1>1, <1>3, <2>1, <2>2 DEF AllowlistBlocks, SecretGateBlocks, Permitted
<1> QED
  BY <1>2, <1>3

\* Whatever policies there are and whenever they are rewritten, git core runs
\* only a command that the policy the gate loaded permits, after every program
\* of the stages has answered 0.
THEOREM CoreVetted == Spec => []CoreIsVetted
<1>1. IInv => CoreIsVetted
  <2> SUFFICES ASSUME IInv, core # "not entered" PROVE CoreIsVetted
    BY DEF CoreIsVetted
  <2>1. ~marked /\ world.backend /\ vetting # None /\ ~EnforceGates(vetting, Effective.verb, world)
    BY DEF IInv, Vetted
  <2>2. ran = Effective
    BY DEF IInv, Lines
  <2>3. world \in WorldType /\ vetting \in PolicyType
    BY <2>1, ZeroPolicyTyped, PipelineAssumption DEF IInv, TypeOK
  <2>4. Permitted(vetting, Effective.verb, world)
    BY <2>1, <2>3, GatePermits
  <2>5. notes = [i \in 1..(1 + Len(Programs("pre"))) |-> "allow"]
    BY DEF IInv, Noted, Allows
  <2> HIDE DEF Effective
  <2> QED
    BY <2>1, <2>2, <2>4, <2>5 DEF CoreIsVetted
<1> QED
  BY <1>1, IInvHolds, PTL

\* However often and whenever the administrator rewrites policy.json, a policy
\* that ENFORCE demands is read as none only when it was removed between the look
\* and the read of one gate; and unless it was rewritten between the readings of
\* one command, the programs that ran are those of the policy that let it pass.
THEOREM PolicyHonoured == Spec => []PolicyIsHonoured
<1>1. IInv => PolicyIsHonoured
  BY DEF IInv, Marker, Readings, Vetted, PolicyIsHonoured, MarkerIsHonoured, ProgramsAreOfThePolicy
<1> QED
  BY <1>1, IInvHolds, PTL

\* No post stage is ever told an end that the command did not have.
THEOREM OutcomeTrue == Spec => []OutcomeIsTrue
<1>1. IInv => OutcomeIsTrue
  <2> SUFFICES ASSUME IInv, NEW i \in DOMAIN seen
               PROVE CASE seen[i].kind = "blocked"  -> /\ core = "not entered"
                                                       /\ seen[i].code = status /\ status # 0
                       [] seen[i].kind = "returned" -> core = "returned" /\ seen[i].code = status
                       [] seen[i].kind = "exited"   -> core = "exited" \/ "panicked" \in fate
    BY DEF OutcomeIsTrue
  <2>1. seen[i] = Outcome /\ status # None
    <3>1. seen # <<>>
      OBVIOUS
    <3> QED
      BY <3>1 DEF IInv, Told
  <2>2. /\ blocked \in BOOLEAN /\ known \in BOOLEAN
        /\ blocked => core = "not entered" /\ code = status /\ status # 0
        /\ known /\ ~blocked => core = "returned" /\ code = status
        /\ ~known => core = "exited" \/ "panicked" \in fate
    BY <2>1 DEF IInv, Ends, TypeOK
  <2>3. CASE blocked
    <3>1. seen[i].kind = "blocked" /\ seen[i].code = code
      BY <2>1, <2>3 DEF Outcome, Blocked
    <3> QED
      BY <2>2, <2>3, <3>1
  <2>4. CASE ~blocked /\ known
    BY <2>1, <2>2, <2>4 DEF Outcome, Returned
  <2>5. CASE ~blocked /\ ~known
    <3>1. seen[i].kind = "exited"
      BY <2>1, <2>5 DEF Outcome, Exited
    <3> QED
      BY <2>2, <2>5, <3>1
  <2> QED
    BY <2>2, <2>3, <2>4, <2>5
<1> QED
  BY <1>1, IInvHolds, PTL

\* No way to the end of a command passes a post stage by, or shows it twice.
THEOREM EndsObserved == Spec => []EveryEndIsObserved
<1>1. IInv => EveryEndIsObserved
  <2>1. IInv => core \in {"not entered", "running", "returned", "exited"}
    BY DEF IInv, TypeOK
  <2> QED
    BY <2>1 DEF IInv, Told, Lines, EveryEndIsObserved
<1> QED
  BY <1>1, IInvHolds, PTL

\* The audit row is of the command that ran, and claims no success it had not.
THEOREM RowTrue == Spec => []RowIsTrue
<1>1. IInv => RowIsTrue
  <2> SUFFICES ASSUME IInv, row # None PROVE RowIsTrue
    BY DEF RowIsTrue
  <2>1. /\ row.argv = Effective /\ (row.mode = "blocked" <=> blocked)
        /\ row.code = IF blocked \/ known THEN code ELSE -1
    BY DEF IInv, Booked
  <2>2. ran # None => ran = Effective
    BY DEF IInv, Lines
  <2>3. row.code = 0 => core = "returned" /\ status = 0
    <3>1. row.code = 0 => (blocked \/ known) /\ code = 0
      BY <2>1
    <3> QED
      BY <3>1 DEF IInv, Ends
  <2> HIDE DEF Effective
  <2> QED
    BY <2>1, <2>2, <2>3 DEF RowIsTrue
<1> QED
  BY <1>1, IInvHolds, PTL

\* Stages do not recurse, however deep the programs they run call gitc.
THEOREM NotRecursive == Spec => []NoRecursion
<1>1. IInv => NoRecursion
  BY DEF IInv, Inside, NoRecursion
<1> QED
  BY <1>1, IInvHolds, PTL

\* Nothing that runs after the exit status is committed reaches it any more.
THEOREM StatusFinal == Spec => StatusStands
<1>1. IInv /\ [Next]_vars => [status # None => status' = status]_vars
  <2> SUFFICES ASSUME IInv, Next, status # None PROVE status' = status
    BY DEF vars
  <2>1. pc \notin Early \cup {"core"}
    BY DEF IInv, Ends
  <2>2. CASE ArmPost
    BY <2>1, <2>2 DEF ArmPost, Arm, Look
  <2>3. CASE RefuseMarked
    BY <2>1, <2>3 DEF RefuseMarked, Early
  <2>4. CASE NoBackend
    BY <2>1, <2>4 DEF NoBackend, Early
  <2>5. CASE GateLooks
    BY <2>1, <2>5 DEF GateLooks, Look
  <2>6. CASE GateDecides
    BY <2>1, <2>6 DEF GateDecides, Early
  <2>7. CASE SpawnPre
    BY <2>1, <2>7 DEF SpawnPre, Spawn
  <2>8. CASE PreAnswered
    BY <2>1, <2>8 DEF PreAnswered, Early
  <2>9. CASE PreFails
    BY <2>1, <2>9 DEF PreFails, Early
  <2>10. CASE EnterCore
    BY <2>1, <2>10 DEF EnterCore
  <2>11. CASE Trampoline
    BY <2>1, <2>11 DEF Trampoline
  <2>12. CASE AuditSkips
    BY <2>1, <2>12 DEF AuditSkips, Observe, NextPost
  <2>13. CASE AuditLooks
    BY <2>1, <2>13 DEF AuditLooks, Look, Observe
  <2>14. CASE AuditWrites
    BY <2>1, <2>14 DEF AuditWrites, NextPost
  <2>15. CASE SpawnPost
    BY <2>1, <2>15 DEF SpawnPost, Spawn, Observe
  <2>16. CASE PostEnds
    BY <2>1, <2>16 DEF PostEnds, NextPost, Observe
  <2>17. CASE Finish
    BY <2>1, <2>17 DEF Finish
  <2>18. CASE Answer
    BY <2>1, <2>18 DEF Answer
  <2>19. CASE CoreReturns
    BY <2>1, <2>19 DEF CoreReturns
  <2>20. CASE CoreExits
    BY <2>1, <2>20 DEF CoreExits
  <2>21. CASE Panic
    BY <2>1, <2>21 DEF Panic, Early
  <2>22. CASE Kill
    BY <2>1, <2>22 DEF Kill
  <2>23. CASE EditPolicy
    BY <2>1, <2>23 DEF EditPolicy
  <2>24. CASE GateAsks
    BY <2>1, <2>24 DEF GateAsks
  <2>25. CASE GitAnswers
    BY <2>1, <2>25 DEF GitAnswers, Early
  <2> QED
    BY <2>2, <2>3, <2>4, <2>5, <2>6, <2>7, <2>8, <2>9, <2>10, <2>11, <2>12,
       <2>13, <2>14, <2>15, <2>16, <2>17, <2>18, <2>19, <2>20, <2>21, <2>22, <2>23, <2>24,
       <2>25 DEF Next, Gitc
<1> QED
  BY <1>1, IInvHolds, PTL DEF Spec, StatusStands

\* The account of a command's end is true, for all policies, programs and worlds: the
\* conjunction of the five theorems above.
THEOREM EndsTrue == Spec => []EndsAreTrue
<1>1. TypeOK /\ OutcomeIsTrue /\ EveryEndIsObserved /\ RowIsTrue /\ NoRecursion => EndsAreTrue
  BY DEF EndsAreTrue
<1> QED
  BY <1>1, TypeCorrect, OutcomeTrue, EndsObserved, RowTrue, NotRecursive, PTL

-----------------------------------------------------------------------------
(* Vetting: the gate of a commit and the pre-commit hook.                    *)

\* A commit is decided in one step, and one that its scan lets through had no
\* finding, in the index or in the tree.
CommitInv ==
    CommitGate!Verb(line) = "commit" =>
        \/ step = "gate"
        \/ /\ step = "done"
           /\ ~refused /\ pol.secrets = "block" /\ CommitGate!SecretGateApplies =>
                /\ CommitGate!StagedFindings(unseen.staged) = {}
                /\ CommitGate!TreeFindings(unseen.work) = {}

LEMMA CommitInvStep ==
    ASSUME CommitInv, [CommitGate!Next]_(CommitGate!vars) PROVE CommitInv'
<1>1. UNCHANGED CommitGate!given
  BY DEF CommitGate!Next, CommitGate!vars, CommitGate!given, CommitGate!Preflight,
     CommitGate!PreflightFails, CommitGate!Enforce, CommitGate!Resolve,
     CommitGate!Unverifiable, CommitGate!Vet, CommitGate!SecretGate,
     CommitGate!SecretGateFails, CommitGate!Finished, CommitGate!Refuse, CommitGate!Allow
<1>2. /\ CommitGate!Verb(line)' = CommitGate!Verb(line)
      /\ CommitGate!SecretGateApplies' = CommitGate!SecretGateApplies
      /\ CommitGate!StagedFindings(unseen.staged)' = CommitGate!StagedFindings(unseen'.staged)
      /\ CommitGate!TreeFindings(unseen.work)' = CommitGate!TreeFindings(unseen'.work)
      /\ pol' = pol
  BY <1>1 DEF CommitGate!given, CommitGate!SecretGateApplies, CommitGate!StagedFindings,
     CommitGate!TreeFindings, CommitGate!Verb
<1> HIDE DEF CommitGate!StagedFindings, CommitGate!TreeFindings
<1>3. CASE UNCHANGED CommitGate!vars
  BY <1>2, <1>3 DEF CommitInv, CommitGate!vars
<1>4. CASE CommitGate!Preflight
  <2>1. PICK silent, dark \in SUBSET tree :
          /\ finds' = CommitGate!StagedFindings(silent) \cup CommitGate!TreeFindings(dark)
          /\ unseen' = [staged |-> silent, work |-> dark]
    BY <1>4 DEF CommitGate!Preflight
  <2>2. step' = "done"
    BY <1>4 DEF CommitGate!Preflight
  <2>3. ~refused' /\ pol.secrets = "block" /\ CommitGate!SecretGateApplies => finds' = {}
    BY <1>4 DEF CommitGate!Preflight
  <2>4. unseen'.staged = silent /\ unseen'.work = dark
    BY <2>1
  <2> QED
    BY <1>2, <2>1, <2>2, <2>3, <2>4 DEF CommitInv
<1>5. CASE CommitGate!PreflightFails
  BY <1>2, <1>5 DEF CommitGate!PreflightFails, CommitGate!Refuse, CommitGate!Allow, CommitInv
<1>6. CASE CommitGate!Enforce
  BY <1>2, <1>6 DEF CommitGate!Enforce, CommitInv
<1>7. CASE CommitGate!Finished
  BY <1>2, <1>7 DEF CommitGate!Finished, CommitGate!vars, CommitInv
<1>8. CASE \/ CommitGate!Resolve \/ CommitGate!Unverifiable \/ CommitGate!Vet
           \/ CommitGate!SecretGate \/ CommitGate!SecretGateFails
  <2>1. step \in {"vet", "secret"}
    BY <1>8 DEF CommitGate!Resolve, CommitGate!Unverifiable, CommitGate!Vet,
       CommitGate!SecretGate, CommitGate!SecretGateFails
  <2>2. CommitGate!Verb(line) # "commit"
    BY <2>1 DEF CommitInv
  <2> QED
    BY <1>2, <2>2 DEF CommitInv
<1> QED
  BY <1>3, <1>4, <1>5, <1>6, <1>7, <1>8 DEF CommitGate!Next

\* gates.rs: a commit that the gate of a blocking policy let through brings no secret
\* that its own version of a file holds, for all commands, policies and trees, whether
\* what is recorded is the index or, under -a, the working copy; but for what neither
\* of the two scans got to see, git or the file system failing, which the gate passes
\* over in silence.
THEOREM CommitClean == VettingSpec => []CommitIsClean
<1>1. VettingInit => (line # Void => CommitInv)
  BY DEF VettingInit, GateIdle, CommitGate!Init, CommitInv
<1>2. (/\ line # Void => CommitInv
       /\ [GateNext \/ ScansNext]_<<gate, scans>>) => (line # Void => CommitInv)'
  <2> SUFFICES ASSUME line # Void => CommitInv, [GateNext \/ ScansNext]_<<gate, scans>>,
                      line' # Void
               PROVE  CommitInv'
    OBVIOUS
  <2>1. CASE GateNext
    <3>1. line # Void /\ CommitGate!Next
      BY <2>1 DEF GateNext
    <3> QED
      BY <3>1, CommitInvStep
  <2>2. CASE ScansNext \/ UNCHANGED <<gate, scans>>
    <3>1. UNCHANGED CommitGate!vars /\ line' = line
      BY <2>2 DEF ScansNext, gate, CommitGate!vars, CommitGate!given
    <3> QED
      BY <3>1, CommitInvStep
  <2> QED
    BY <2>1, <2>2
<1> DEFINE Scanned(f) == ~f.skipped /\ f.regular /\ f.work # Void /\ CommitGate!Scannable(f.work)
                         /\ f \notin unseen.work
<1>3. CommitInv => CommitGate!CommitIsClean
  <2> SUFFICES ASSUME CommitInv, step = "done", ~refused, pol.secrets = "block",
                      CommitGate!Verb(line) = "commit", CommitGate!SecretGateApplies,
                      NEW f \in tree,
                      CommitGate!Recorded(f) # Void, CommitGate!Recorded(f) # f.head,
                      CommitGate!Recorded(f).secrets # {},
                      ~(/\ CommitGate!Recorded(f) = f.index /\ (f.renamed \/ f \in unseen.staged)
                        /\ ~(f.work = f.index /\ Scanned(f))),
                      ~(/\ CommitGate!Recorded(f) = f.work /\ CommitGate!Recorded(f) # f.index
                        /\ ~Scanned(f))
               PROVE  FALSE
    BY DEF CommitGate!CommitIsClean, Scanned
  <2>1. CommitGate!StagedFindings(unseen.staged) = {} /\ CommitGate!TreeFindings(unseen.work) = {}
    BY DEF CommitInv
  <2>2. CommitGate!Recorded(f) \in {f.work, f.index}
    BY DEF CommitGate!Recorded
  <2>3. CASE CommitGate!Recorded(f) = f.index /\ ~f.renamed /\ f \notin unseen.staged
    <3>1. CommitGate!Staged(f)
      BY <2>3 DEF CommitGate!Staged
    <3>2. CommitGate!Findings(f.path, f.index) \subseteq CommitGate!StagedFindings(unseen.staged)
      BY <2>3, <3>1 DEF CommitGate!StagedFindings
    <3>3. PICK s \in f.index.secrets : TRUE
      BY <2>3
    <3>4. [path |-> f.path, secret |-> s] \in CommitGate!Findings(f.path, f.index)
      BY <3>3 DEF CommitGate!Findings
    <3> QED
      BY <2>1, <3>2, <3>4
  <2>4. CASE CommitGate!Recorded(f) = f.work /\ Scanned(f)
    <3>1. CommitGate!Walked(f) /\ f \notin unseen.work
      BY <2>4 DEF Scanned, CommitGate!Walked
    <3>2. CommitGate!Findings(f.path, f.work) \subseteq CommitGate!TreeFindings(unseen.work)
      BY <3>1 DEF CommitGate!TreeFindings
    <3>3. PICK s \in f.work.secrets : TRUE
      BY <2>4
    <3>4. [path |-> f.path, secret |-> s] \in CommitGate!Findings(f.path, f.work)
      BY <3>3 DEF CommitGate!Findings
    <3> QED
      BY <2>1, <3>2, <3>4
  <2> QED
    BY <2>2, <2>3, <2>4
<1>4. (line # Void => CommitInv) => CommitIsClean
  BY <1>3 DEF CommitIsClean
<1> QED
  BY <1>1, <1>2, <1>4, PTL DEF VettingSpec

\* A hook command at work has set the user's hook aside, and a hook of the user's that
\* is in place is the last one written, unless an install has met what it took for a hook
\* of the user's.
Ours == {Scanner!Nothing, Scanner!Managed, Scanner!Cut}
HookInv ==
    /\ hook.at = "write" => hook.pre \in {Scanner!Nothing, Scanner!Managed}
    /\ hook.at = "fill" => hook.pre = Scanner!Cut
    /\ hook.at = "restore" => hook.pre = Scanner!Nothing
    /\ hook.last \notin {Scanner!Managed, Scanner!Cut}
    /\ hook.last # Scanner!Nothing /\ hook.past = {} =>
         /\ hook.last \in {hook.pre, hook.backup}
         /\ hook.pre \notin Ours => hook.pre = hook.last
HookType ==
    DOMAIN hook = {"pre", "backup", "last", "past", "at", "ops"}

LEMMA HookInvStep ==
    ASSUME HookType, HookInv,
           [Scanner!Next]_scans
    PROVE  HookType' /\ HookInv'
<1>1. CASE hook' = hook
  BY <1>1 DEF HookType, HookInv
<1>2. CASE Scanner!HookStep
  <2>0. {Scanner!Nothing, Scanner!Managed, Scanner!Cut} \cap UserHooks = {}
    BY ScanInputs DEF Scanner!WellFormed
  <2> USE DEF HookType, HookInv, Ours, Scanner!HookSets, Scanner!HookIdle, Scanner!Op,
              Scanner!Backed, Scanner!Nothing, Scanner!Managed, Scanner!Cut
  <2>1. CASE Scanner!Installs
    <3>1. CASE hook' = Scanner!Op("write") /\ hook.pre \in {Scanner!Nothing, Scanner!Managed}
      BY <3>1
    <3>2. CASE hook' = Scanner!Backed(Scanner!Op("write")) /\ hook.pre \notin Ours
      BY <3>2
    <3>3. ASSUME NEW what,
                 hook' = [Scanner!Backed(Scanner!Op("write")) EXCEPT !.past = @ \cup {what}]
          PROVE  HookType' /\ HookInv'
      <4>1. hook'.past # {} /\ hook'.pre = Scanner!Nothing /\ hook'.last = hook.last
            /\ hook'.at = "write" /\ HookType'
        BY <3>3
      <4> QED
        BY <4>1
    <3> QED
      BY <2>1, <3>1, <3>2, <3>3 DEF Scanner!Installs
  <2>2. CASE Scanner!InstallTruncates \/ Scanner!InstallWrites
    BY <2>2 DEF Scanner!InstallTruncates, Scanner!InstallWrites
  <2>3. CASE Scanner!Uninstalls
    BY <2>3 DEF Scanner!Uninstalls
  <2>4. CASE Scanner!UninstallRestores
    BY <2>4 DEF Scanner!UninstallRestores
  <2>5. CASE Scanner!HookCommandDies
    BY <2>5 DEF Scanner!HookCommandDies
  <2>6. CASE Scanner!UserWritesHook
    <3>1. PICK h \in UserHooks : hook' = [Scanner!Op("idle") EXCEPT !.pre = h, !.last = h,
                                                                    !.past = {}]
      BY <2>6 DEF Scanner!UserWritesHook
    <3>2. hook'.pre = h /\ hook'.last = h /\ hook'.at = "idle" /\ HookType'
      BY <3>1
    <3>3. h \notin {Scanner!Managed, Scanner!Cut}
      BY <2>0
    <3> QED
      BY <3>2, <3>3
  <2>7. CASE Scanner!UserDeletesHook
    BY <2>7 DEF Scanner!UserDeletesHook
  <2> QED
    BY <1>2, <2>1, <2>2, <2>3, <2>4, <2>5, <2>6, <2>7 DEF Scanner!HookStep
<1>3. CASE \E p \in Procs : Scanner!ScanStep(p)
  <2>0. PICK p \in Procs : Scanner!ScanStep(p)
    BY <1>3
  <2> SUFFICES hook' = hook
    BY <1>1
  <2>1. CASE Scanner!Begin(p)
    BY <2>1 DEF Scanner!Begin
  <2>2. CASE Scanner!ScanNext(p)
    BY <2>2 DEF Scanner!ScanNext, Scanner!Sets
  <2>3. CASE Scanner!WalkEntry(p) \/ Scanner!WalkFails(p)
    BY <2>3 DEF Scanner!WalkEntry, Scanner!WalkFails, Scanner!Sets
  <2>4. CASE Scanner!EndScan(p)
    BY <2>4 DEF Scanner!EndScan, Scanner!Sets
  <2>5. CASE \E w \in Workers :
                Scanner!Claim(p, w) \/ Scanner!ReadsClaimed(p, w) \/ Scanner!Records(p, w)
    BY <2>5 DEF Scanner!Claim, Scanner!ReadsClaimed, Scanner!Records, Scanner!Sets
  <2>6. CASE Scanner!SaveBegins(p) \/ Scanner!SaveEnds(p)
    BY <2>6 DEF Scanner!SaveBegins, Scanner!SaveEnds
  <2>7. CASE Scanner!BaselineBegins(p) \/ Scanner!BaselineEnds(p)
    BY <2>7 DEF Scanner!BaselineBegins, Scanner!BaselineEnds
  <2>8. CASE Scanner!Finish(p) \/ Scanner!Dies(p) \/ Scanner!Again(p)
    BY <2>8 DEF Scanner!Finish, Scanner!Dies, Scanner!Again, Scanner!Sets
  <2> QED
    BY <2>0, <2>1, <2>2, <2>3, <2>4, <2>5, <2>6, <2>7, <2>8 DEF Scanner!ScanStep
<1> QED
  BY <1>1, <1>2, <1>3 DEF Scanner!Next, scans

\* scancmd.rs:1176: a hook the user wrote is in place or in the backup, through any number
\* of installs and uninstalls that die or fail at any of their calls, unless an install met
\* a managed hook it could not read or one that an install before it left cut short.
THEOREM HookKept == VettingSpec => []LatestHookKept
<1> DEFINE Kept == scan # Void => HookType /\ HookInv
<1>1. VettingInit => Kept
  <2>1. Scanner!Init => HookType /\ HookInv
    BY DEF Scanner!Init, HookType, HookInv, Scanner!Nothing, Scanner!Managed, Scanner!Cut
  <2> QED
    BY <2>1 DEF VettingInit, ScansIdle
<1>2. Kept /\ [GateNext \/ ScansNext]_<<gate, scans>> => Kept'
  <2> SUFFICES ASSUME Kept, [GateNext \/ ScansNext]_<<gate, scans>>, scan' # Void
               PROVE  HookType' /\ HookInv'
    OBVIOUS
  <2>1. CASE ScansNext
    <3>1. scan # Void /\ Scanner!Next
      BY <2>1 DEF ScansNext
    <3> QED
      BY <3>1, HookInvStep
  <2>2. CASE GateNext \/ UNCHANGED <<gate, scans>>
    <3>1. UNCHANGED scans /\ scan' = scan
      BY <2>2 DEF GateNext, scans
    <3> QED
      BY <3>1, HookInvStep
  <2> QED
    BY <2>1, <2>2
<1>3. Kept => LatestHookKept
  BY DEF HookInv, LatestHookKept, Scanner!LatestHookKept
<1> HIDE DEF Kept
<1> QED
  BY <1>1, <1>2, <1>3, PTL DEF VettingSpec

-----------------------------------------------------------------------------
(* The tools the proofs about scans need: a least number, induction,         *)
(* sequences, and what FlattenSeq makes of a list of them.                   *)

LEMMA Least ==
    ASSUME NEW S \in SUBSET Nat, S # {}
    PROVE  \E x \in S : \A y \in S : x <= y
<1>1. PICK s \in S : TRUE
  OBVIOUS
<1> DEFINE Small == {x \in S : x <= s}
           Under(y) == {z \in Small : z < y}
           Unders == {Under(y) : y \in Small}
           Smaller == StrictSubsetOrdering(Small)
<1>2. IsFiniteSet(Small)
  <2>1. s \in Nat /\ 0 \in Int /\ s \in Int
    OBVIOUS
  <2>2. IsFiniteSet(0..s)
    BY <2>1, FS_Interval
  <2>3. Small \subseteq 0..s
    <3> SUFFICES ASSUME NEW z \in S, z <= s PROVE z \in 0..s
      OBVIOUS
    <3>1. z \in Nat
      OBVIOUS
    <3> QED
      BY ONLY <2>1, <3>1, z <= s
  <2> QED
    BY <2>2, <2>3, FS_Subset
<1>3. IsWellFoundedOn(Smaller, SUBSET Small)
  BY <1>2, FS_FiniteSubsetsOfFinite, FS_StrictSubsetOrderingWellFounded, Zenon
<1>4. Unders \subseteq SUBSET Small /\ Unders # {}
  <2>1. s \in Small
    BY <1>1
  <2> QED
    BY <2>1
<1>5. PICK t \in Unders : \A u \in Unders : <<u, t>> \notin Smaller
  <2> HIDE DEF Smaller, Unders
  <2> QED
    BY <1>3, <1>4, WFMin
<1>6. PICK x \in Small : t = Under(x)
  OBVIOUS
<1>7. \A y \in Small : x <= y
  <2> SUFFICES ASSUME NEW y \in Small, y < x PROVE FALSE
    OBVIOUS
  <2>1. Under(y) \subseteq Under(x)
    <3> SUFFICES ASSUME NEW z \in Small, z < y PROVE z < x
      OBVIOUS
    <3>1. x \in Nat /\ y \in Nat /\ z \in Nat
      OBVIOUS
    <3> QED
      BY ONLY <3>1, z < y, y < x
  <2>2. y \in Under(x) /\ y \notin Under(y)
    OBVIOUS
  <2>3. Under(x) \in SUBSET Small /\ Under(y) \in SUBSET Small /\ Under(y) \in Unders
    OBVIOUS
  <2> HIDE DEF Under
  <2>4. <<Under(y), Under(x)>> \in Smaller
    BY <2>1, <2>2, <2>3 DEF StrictSubsetOrdering
  <2> QED
    BY <1>5, <1>6, <2>3, <2>4
<1> QED
  BY <1>1, <1>7

\* Induction, on the set of the numbers that have the property.
LEMMA Induct ==
    ASSUME NEW S, 0 \in S, \A n \in Nat : n \in S => n + 1 \in S
    PROVE  Nat \subseteq S
<1> SUFFICES ASSUME Nat \ S # {} PROVE FALSE
  OBVIOUS
<1>1. PICK n \in Nat \ S : \A m \in Nat \ S : n <= m
  BY Least
<1>2. n # 0 /\ n - 1 \in Nat /\ ~(n <= n - 1)
  BY <1>1
<1>3. n - 1 \in S
  BY <1>1, <1>2
<1> QED
  BY <1>1, <1>2, <1>3, (n - 1) + 1 = n

IsASeq(s) == \E S : s \in Seq(S)

LEMMA AppendFacts ==
    ASSUME NEW s, IsASeq(s), NEW x
    PROVE  /\ Len(s) \in Nat /\ DOMAIN s = 1..Len(s) /\ IsASeq(Append(s, x))
           /\ Len(Append(s, x)) = Len(s) + 1 /\ Append(s, x)[Len(s) + 1] = x
           /\ \A i \in 1..Len(s) : Append(s, x)[i] = s[i]
<1>1. PICK S : s \in Seq(S)
  BY DEF IsASeq
<1> DEFINE R == S \cup {x}
<1>2. s \in Seq(R) /\ x \in R
  BY <1>1
<1> HIDE DEF R
<1>3. Append(s, x) \in Seq(R)
  BY <1>2
<1> QED
  BY <1>2, <1>3 DEF IsASeq

LEMMA OneFacts ==
    ASSUME NEW x
    PROVE  IsASeq(<<x>>) /\ Len(<<x>>) = 1 /\ <<x>>[1] = x /\ \A i \in 1..Len(<<x>>) : i = 1
<1>1. <<x>> \in Seq({x}) /\ Len(<<x>>) = 1 /\ <<x>>[1] = x
  OBVIOUS
<1>2. \A i \in 1..1 : i = 1
  OBVIOUS
<1>3. IsASeq(<<x>>)
  BY <1>1, Zenon DEF IsASeq
<1> QED
  BY <1>1, <1>2, <1>3

LEMMA TailFacts ==
    ASSUME NEW s, IsASeq(s), s # <<>>
    PROVE  /\ Len(s) \in Nat /\ Len(s) > 0 /\ Head(s) = s[1]
           /\ IsASeq(Tail(s)) /\ Len(Tail(s)) = Len(s) - 1 /\ DOMAIN Tail(s) = 1..(Len(s) - 1)
           /\ \A i \in 1..(Len(s) - 1) : Tail(s)[i] = s[i + 1]
<1>1. PICK S : s \in Seq(S)
  BY DEF IsASeq
<1>2. Tail(s) \in Seq(S)
  BY <1>1
<1> QED
  BY <1>1, <1>2 DEF IsASeq

LEMMA ConcFacts ==
    ASSUME NEW s, NEW t, IsASeq(s), IsASeq(t)
    PROVE  /\ Len(s) \in Nat /\ Len(t) \in Nat /\ IsASeq(s \o t)
           /\ Len(s \o t) = Len(s) + Len(t) /\ DOMAIN (s \o t) = 1..(Len(s) + Len(t))
           /\ \A i \in 1..Len(s) : (s \o t)[i] = s[i]
           /\ \A i \in 1..Len(t) : (s \o t)[Len(s) + i] = t[i]
<1>1. PICK S, T : s \in Seq(S) /\ t \in Seq(T)
  BY DEF IsASeq
<1> DEFINE R == S \cup T
<1>2. s \in Seq(R) /\ t \in Seq(R)
  BY <1>1
<1> HIDE DEF R
<1>3. s \o t \in Seq(R)
  BY <1>2
<1> QED
  BY <1>2, <1>3 DEF IsASeq

LEMMA ListFacts ==
    ASSUME NEW n \in Nat, NEW q, q = [i \in 1..n |-> q[i]]
    PROVE  IsASeq(q) /\ Len(q) = n
<1> DEFINE S == {q[i] : i \in 1..n}
<1>1. q \in [1..n -> S]
  OBVIOUS
<1> HIDE DEF S
<1>2. q \in Seq(S)
  BY <1>1
<1> QED
  BY <1>1, <1>2 DEF IsASeq

\* A list of sequences, joined from the left.
Joins(q, n, f) == \A i \in 1..n : f[i] = IF i = 1 THEN q[i] ELSE f[i - 1] \o q[i]
Flattened(q, f) == f = [i \in 1..Len(q) |-> IF i = 1 THEN q[i] ELSE f[i - 1] \o q[i]]

LEMMA FlattenIs ==
    ASSUME NEW S, NEW n \in Nat, NEW q \in [1..n -> Seq(S)]
    PROVE  /\ n = 0 => Scanner!FlattenSeq(q) = <<>>
           /\ n > 0 => \E f : /\ Scanner!FlattenSeq(q) = f[n] /\ Joins(q, n, f)
                              /\ \A i \in 1..n : f[i] \in Seq(S)
<1> DEFINE T == {m \in Nat : m <= n => \E f \in [1..n -> Seq(S)] : Joins(q, m, f)}
<1>1. q \in Seq(Seq(S)) /\ Len(q) = n
  OBVIOUS
<1>2. 0 \in T
  BY <1>1 DEF Joins
<1>3. ASSUME NEW m \in Nat, m \in T PROVE m + 1 \in T
  <2> SUFFICES ASSUME m + 1 <= n PROVE \E g \in [1..n -> Seq(S)] : Joins(q, m + 1, g)
    OBVIOUS
  <2>1. PICK f \in [1..n -> Seq(S)] : Joins(q, m, f)
    BY <1>3
  <2> DEFINE x == IF m + 1 = 1 THEN q[m + 1] ELSE f[m] \o q[m + 1]
             g == [f EXCEPT ![m + 1] = x]
  <2>2. m + 1 \in 1..n /\ (m + 1 # 1 => m \in 1..n)
    OBVIOUS
  <2>3. x \in Seq(S)
    BY <2>2
  <2> HIDE DEF x
  <2>4. g \in [1..n -> Seq(S)] /\ g[m + 1] = x /\ \A i \in 1..n : i # m + 1 => g[i] = f[i]
    BY <2>2, <2>3
  <2> HIDE DEF g
  <2>5. ASSUME NEW i \in 1..(m + 1)
        PROVE  g[i] = IF i = 1 THEN q[i] ELSE g[i - 1] \o q[i]
    <3>1. i # 1 => i - 1 \in 1..n /\ i - 1 # m + 1
      BY <2>2
    <3>2. CASE i = m + 1
      <4>1. i - 1 = m
        BY <3>2
      <4> QED
        BY <2>4, <3>1, <3>2, <4>1 DEF x
    <3>3. CASE i # m + 1
      <4>1. i \in 1..m /\ i \in 1..n
        BY <2>2, <3>3
      <4> QED
        BY <2>1, <2>4, <3>1, <3>3, <4>1 DEF Joins
    <3> QED
      BY <3>2, <3>3
  <2>6. Joins(q, m + 1, g)
    BY <2>5 DEF Joins
  <2> QED
    BY <2>4, <2>6
<1>4. Nat \subseteq T
  <2> HIDE DEF T
  <2> QED
    BY <1>2, <1>3, Induct
<1>5. PICK f \in [1..n -> Seq(S)] : Joins(q, n, f)
  <2>1. n \in T
    BY <1>4
  <2> QED
    BY <2>1
<1>6. Flattened(q, f)
  BY <1>1, <1>5 DEF Flattened, Joins
<1> DEFINE F == CHOOSE h : Flattened(q, h)
<1>7. Scanner!FlattenSeq(q) = IF n = 0 THEN q ELSE F[n]
  BY <1>1 DEF Scanner!FlattenSeq, Flattened
<1>8. Flattened(q, F)
  BY <1>6
<1> HIDE DEF F
<1>9. Joins(q, n, F)
  BY <1>1, <1>8 DEF Flattened, Joins
<1> DEFINE U == {m \in Nat : m \in 1..n => F[m] \in Seq(S)}
<1>10. 0 \in U
  OBVIOUS
<1>11. ASSUME NEW m \in Nat, m \in U PROVE m + 1 \in U
  <2> SUFFICES ASSUME m + 1 \in 1..n PROVE F[m + 1] \in Seq(S)
    OBVIOUS
  <2>1. (m + 1) - 1 = m /\ q[m + 1] \in Seq(S) /\ (m + 1 # 1 => m \in 1..n)
    OBVIOUS
  <2>2. F[m + 1] = IF m + 1 = 1 THEN q[m + 1] ELSE F[m] \o q[m + 1]
    BY <1>9, <2>1 DEF Joins
  <2>3. m + 1 # 1 => F[m] \in Seq(S)
    BY <1>11, <2>1
  <2> QED
    BY <2>1, <2>2, <2>3
<1>12. Nat \subseteq U
  <2> HIDE DEF U
  <2> QED
    BY <1>10, <1>11, Induct
<1>13. \A i \in 1..n : F[i] \in Seq(S)
  BY <1>12
<1>14. n = 0 => q = <<>>
  BY <1>1
<1> QED
  BY <1>7, <1>9, <1>13, <1>14

\* One more sequence in the list is one more at the end.
LEMMA FlattenMore ==
    ASSUME NEW S, NEW n \in Nat, NEW q \in [1..n -> Seq(S)], NEW r \in [1..(n + 1) -> Seq(S)],
           \A i \in 1..n : r[i] = q[i]
    PROVE  /\ Scanner!FlattenSeq(q) \in Seq(S)
           /\ Scanner!FlattenSeq(r) = Scanner!FlattenSeq(q) \o r[n + 1]
<1>1. n + 1 \in Nat /\ n + 1 > 0 /\ n + 1 \in 1..(n + 1) /\ (n + 1) - 1 = n /\ r[n + 1] \in Seq(S)
  OBVIOUS
<1>2. PICK g : Scanner!FlattenSeq(r) = g[n + 1] /\ Joins(r, n + 1, g)
  BY <1>1, FlattenIs
<1>3. g[n + 1] = IF n + 1 = 1 THEN r[n + 1] ELSE g[n] \o r[n + 1]
  BY <1>1, <1>2 DEF Joins
<1>4. CASE n = 0
  <2>1. Scanner!FlattenSeq(q) = <<>>
    BY <1>4, FlattenIs
  <2>2. Scanner!FlattenSeq(r) = r[n + 1]
    BY <1>2, <1>3, <1>4
  <2>3. <<>> \o r[n + 1] = r[n + 1] /\ <<>> \in Seq(S)
    BY <1>1
  <2> QED
    BY <2>1, <2>2, <2>3
<1>5. CASE n > 0
  <2>1. PICK f : Scanner!FlattenSeq(q) = f[n] /\ Joins(q, n, f) /\ \A i \in 1..n : f[i] \in Seq(S)
    BY <1>5, FlattenIs
  <2> DEFINE T == {m \in Nat : m \in 1..n => f[m] = g[m]}
  <2>2. 0 \in T
    OBVIOUS
  <2>3. ASSUME NEW m \in Nat, m \in T PROVE m + 1 \in T
    <3> SUFFICES ASSUME m + 1 \in 1..n PROVE f[m + 1] = g[m + 1]
      OBVIOUS
    <3>1. (m + 1) - 1 = m /\ (m + 1 # 1 => m \in 1..n) /\ m + 1 \in 1..(n + 1)
      OBVIOUS
    <3>2. f[m + 1] = IF m + 1 = 1 THEN q[m + 1] ELSE f[m] \o q[m + 1]
      BY <2>1, <3>1 DEF Joins
    <3>3. g[m + 1] = IF m + 1 = 1 THEN r[m + 1] ELSE g[m] \o r[m + 1]
      BY <1>2, <3>1 DEF Joins
    <3>4. m + 1 # 1 => f[m] = g[m]
      BY <2>3, <3>1
    <3> QED
      BY <3>2, <3>3, <3>4
  <2>4. Nat \subseteq T
    <3> HIDE DEF T
    <3> QED
      BY <2>2, <2>3, Induct
  <2>5. n \in 1..n /\ n # 0
    BY <1>5
  <2>6. f[n] = g[n] /\ f[n] \in Seq(S)
    BY <2>1, <2>4, <2>5
  <2>7. n + 1 # 1
    BY <1>5
  <2>8. g[n + 1] = f[n] \o r[n + 1]
    BY ONLY <1>3, <2>6, <2>7
  <2> QED
    BY ONLY <1>2, <2>1, <2>6, <2>8
<1> QED
  BY <1>4, <1>5

-----------------------------------------------------------------------------
(* Scans: what a run has found.                                              *)

\* What the blob at i yields, what the first n do.
Yields(req, hidden, list, i) ==
    IF Content[list[i].oid].class = "text"
    THEN Scanner!Hit(i, Scanner!Detect(req, hidden, list[i])) ELSE <<>>
UpTo(req, hidden, list, n) == Scanner!FlattenSeq([i \in 1..n |-> Yields(req, hidden, list, i)])

LEMMA YieldsMore ==
    ASSUME NEW req, NEW hidden, NEW list, NEW n \in Nat
    PROVE  /\ UpTo(req, hidden, list, 0) = <<>> /\ IsASeq(UpTo(req, hidden, list, n))
           /\ UpTo(req, hidden, list, n + 1)
                = UpTo(req, hidden, list, n) \o Yields(req, hidden, list, n + 1)
<1> DEFINE S == {[at |-> i, rules |-> Scanner!Detect(req, hidden, list[i])] : i \in Nat}
           q(m) == [i \in 1..m |-> Yields(req, hidden, list, i)]
<1>1. ASSUME NEW i \in Nat PROVE Yields(req, hidden, list, i) \in Seq(S)
  <2> DEFINE x == [at |-> i, rules |-> Scanner!Detect(req, hidden, list[i])]
  <2>1. x \in S
    OBVIOUS
  <2>2. Yields(req, hidden, list, i) = <<>> \/ Yields(req, hidden, list, i) = <<x>>
    BY DEF Yields, Scanner!Hit
  <2> HIDE DEF x, S
  <2>3. <<>> \in Seq(S) /\ <<x>> \in Seq(S)
    BY ONLY <2>1
  <2> QED
    BY ONLY <2>2, <2>3
<1> HIDE DEF S
<1>2. \A m \in Nat : q(m) \in [1..m -> Seq(S)]
  BY <1>1
<1>3. q(0) \in [1..0 -> Seq(S)] /\ q(n) \in [1..n -> Seq(S)] /\ q(n + 1) \in [1..(n + 1) -> Seq(S)]
  <2>1. 0 \in Nat /\ n + 1 \in Nat
    OBVIOUS
  <2> QED
    BY <1>2, <2>1
<1>4. (\A i \in 1..n : q(n + 1)[i] = q(n)[i]) /\ q(n + 1)[n + 1] = Yields(req, hidden, list, n + 1)
  OBVIOUS
<1>5. /\ UpTo(req, hidden, list, 0) = Scanner!FlattenSeq(q(0))
      /\ UpTo(req, hidden, list, n) = Scanner!FlattenSeq(q(n))
      /\ UpTo(req, hidden, list, n + 1) = Scanner!FlattenSeq(q(n + 1))
  BY DEF UpTo
<1> HIDE DEF q
<1>6. Scanner!FlattenSeq(q(0)) = <<>>
  BY <1>3, FlattenIs
<1>7. /\ Scanner!FlattenSeq(q(n)) \in Seq(S)
      /\ Scanner!FlattenSeq(q(n + 1)) = Scanner!FlattenSeq(q(n)) \o q(n + 1)[n + 1]
  BY <1>3, <1>4, FlattenMore
<1> QED
  BY <1>4, <1>5, <1>6, <1>7 DEF IsASeq

\* A hit more is found in its own blob and in no other.
LEMMA FoundMore ==
    ASSUME NEW hits, IsASeq(hits), NEW i, NEW rules, NEW j
    PROVE  /\ Scanner!FoundAt(<<>>, j) = <<>>
           /\ IsASeq(hits \o Scanner!Hit(i, rules))
           /\ Scanner!FoundAt(hits, j) = <<>> /\ i = j =>
                Scanner!FoundAt(hits \o Scanner!Hit(i, rules), j) = Scanner!Hit(i, rules)
           /\ i # j => Scanner!FoundAt(hits \o Scanner!Hit(i, rules), j) = Scanner!FoundAt(hits, j)
<1> DEFINE x == [at |-> i, rules |-> rules]
           h == Scanner!Hit(i, rules)
           P(s, k) == IF s[k].at = j THEN <<s[k]>> ELSE <<>>
<1>1. PICK S0 : hits \in Seq(S0)
  BY DEF IsASeq
<1> DEFINE S == S0 \cup {x}
           n == Len(hits)
<1>2. hits \in Seq(S) /\ n \in Nat /\ DOMAIN hits = 1..n
  BY <1>1
<1>3. x \in S /\ x.at = i
  OBVIOUS
<1>4. Scanner!FoundAt(<<>>, j) = <<>>
  <2> DEFINE q == [k \in DOMAIN <<>> |-> IF <<>>[k].at = j THEN <<<<>>[k]>> ELSE <<>>]
  <2>1. q \in [1..0 -> Seq(S)] /\ Scanner!FoundAt(<<>>, j) = Scanner!FlattenSeq(q)
    BY DEF Scanner!FoundAt
  <2> HIDE DEF q
  <2> QED
    BY <2>1, FlattenIs
<1>5. CASE rules = {}
  <2>1. h = <<>>
    BY <1>5 DEF Scanner!Hit
  <2>2. hits \o h = hits
    BY <1>2, <2>1
  <2> HIDE DEF h
  <2> QED
    BY <1>4, <2>1, <2>2 DEF h
<1>6. CASE rules # {}
  <2>1. h = <<x>>
    BY <1>6 DEF Scanner!Hit
  <2> DEFINE w == Append(hits, x)
             q == [k \in 1..n |-> P(hits, k)]
             r == [k \in 1..(n + 1) |-> P(w, k)]
  <2> HIDE DEF S, x
  <2>2. w \in Seq(S) /\ hits \o <<x>> = w /\ Len(w) = n + 1 /\ DOMAIN w = 1..(n + 1) /\ w[n + 1] = x
        /\ \A k \in 1..n : w[k] = hits[k] /\ hits[k] \in S
    BY <1>2, <1>3
  <2> HIDE DEF w, n
  <2>3. \A k \in 1..(n + 1) : w[k] \in S
    BY <2>2
  <2>4. q \in [1..n -> Seq(S)] /\ r \in [1..(n + 1) -> Seq(S)]
    <3>1. ASSUME NEW k \in 1..n PROVE P(hits, k) \in Seq(S)
      BY <2>2
    <3>2. ASSUME NEW k \in 1..(n + 1) PROVE P(w, k) \in Seq(S)
      BY <2>3
    <3> HIDE DEF P
    <3> QED
      BY <3>1, <3>2
  <2>5. (\A k \in 1..n : r[k] = q[k]) /\ r[n + 1] = P(w, n + 1)
    BY <1>2, <2>2
  <2>6. Scanner!FoundAt(hits, j) = Scanner!FlattenSeq(q) /\ Scanner!FoundAt(w, j) = Scanner!FlattenSeq(r)
    BY <1>2, <2>2 DEF Scanner!FoundAt
  <2> HIDE DEF q, r
  <2>7. /\ Scanner!FlattenSeq(q) \in Seq(S)
        /\ Scanner!FlattenSeq(r) = Scanner!FlattenSeq(q) \o r[n + 1]
    BY <1>2, <2>4, <2>5, FlattenMore
  <2>8. r[n + 1] = IF i = j THEN <<x>> ELSE <<>>
    BY <1>3, <2>2, <2>5
  <2>9. i = j /\ Scanner!FoundAt(hits, j) = <<>> => Scanner!FoundAt(w, j) = <<x>>
    BY <2>6, <2>7, <2>8, <1>3
  <2>10. i # j => Scanner!FoundAt(w, j) = Scanner!FoundAt(hits, j)
    BY <2>6, <2>7, <2>8
  <2>11. IsASeq(w)
    BY <2>2, Zenon DEF IsASeq
  <2> QED
    BY <1>4, <2>1, <2>2, <2>9, <2>10, <2>11
<1> QED
  BY <1>5, <1>6

\* The first element of a sequence replaced.
LEMMA FirstFacts ==
    ASSUME NEW s, IsASeq(s), s # <<>>, NEW x
    PROVE  /\ IsASeq([s EXCEPT ![1] = x]) /\ Len([s EXCEPT ![1] = x]) = Len(s)
           /\ [s EXCEPT ![1] = x][1] = x
           /\ \A i \in 1..Len(s) : i # 1 => [s EXCEPT ![1] = x][i] = s[i]
<1>1. PICK S : s \in Seq(S)
  BY DEF IsASeq
<1> DEFINE R == S \cup {x}
           t == [s EXCEPT ![1] = x]
<1>2. s \in Seq(R) /\ x \in R /\ 1 \in DOMAIN s
  BY <1>1
<1> HIDE DEF R
<1>3. t \in Seq(R) /\ Len(t) = Len(s) /\ t[1] = x /\ \A i \in 1..Len(s) : i # 1 => t[i] = s[i]
  BY <1>2
<1> HIDE DEF t
<1>4. IsASeq(t)
  BY <1>3, Zenon DEF IsASeq
<1> QED
  BY <1>3, <1>4 DEF t

\* What is in a sequence with a hit more.
LEMMA HitFacts ==
    ASSUME NEW hits, IsASeq(hits), NEW i, NEW rules
    PROVE  /\ IsASeq(hits \o Scanner!Hit(i, rules))
           /\ Scanner!Range(hits \o Scanner!Hit(i, rules))
                = Scanner!Range(hits) \cup IF rules = {} THEN {} ELSE {[at |-> i, rules |-> rules]}
<1> DEFINE x == [at |-> i, rules |-> rules]
<1>1. PICK S0 : hits \in Seq(S0)
  BY DEF IsASeq
<1> DEFINE S == S0 \cup {x}
<1>2. hits \in Seq(S) /\ x \in S
  BY <1>1
<1>3. CASE rules = {}
  <2>1. Scanner!Hit(i, rules) = <<>> /\ hits \o <<>> = hits
    BY <1>2, <1>3 DEF Scanner!Hit
  <2> QED
    BY <1>3, <2>1
<1>4. CASE rules # {}
  <2>1. Scanner!Hit(i, rules) = <<x>>
    BY <1>4 DEF Scanner!Hit
  <2> HIDE DEF x, S
  <2> DEFINE t == hits \o <<x>>
             n == Len(hits)
  <2>2. t \in Seq(S) /\ n \in Nat /\ DOMAIN hits = 1..n /\ DOMAIN t = 1..(n + 1) /\ t[n + 1] = x
        /\ \A k \in 1..n : t[k] = hits[k]
    BY <1>2
  <2> HIDE DEF t, n
  <2>3. \A k \in 1..(n + 1) : k \in 1..n \/ k = n + 1
    BY ONLY <2>2
  <2>4. n + 1 \in 1..(n + 1) /\ \A k \in 1..n : k \in 1..(n + 1)
    BY ONLY <2>2
  <2>5. Scanner!Range(t) = Scanner!Range(hits) \cup {x}
    BY <2>2, <2>3, <2>4 DEF Scanner!Range
  <2>6. IsASeq(t)
    BY <2>2, Zenon DEF IsASeq
  <2> QED
    BY <1>4, <2>1, <2>5, <2>6 DEF t, x
<1> QED
  BY <1>3, <1>4

-----------------------------------------------------------------------------
(* Scans: what is true of a run, whatever the others do.                     *)

Blobs == [oid : Oids, path : Paths, commit : STRING]
RunFields == {"stage", "req", "hidden", "list", "frames", "next", "total", "said", "entries",
              "dirty", "at", "hits", "exit"}

RunType(s) ==
    /\ DOMAIN s = RunFields /\ s.req \in Requests
    /\ s.list \in Seq(Blobs) /\ s.next \in Nat \ {0} /\ s.at \in [Workers -> Int]
    /\ s.req.rev[1] # "dir" => s.frames = <<>> /\ s.total \in Nat
    /\ s.req.rev[1] = "dir" => s.list = <<>>
    /\ ~s.req.cache => s.entries = <<>>

\* One blob after another: what the blobs behind yielded.
SerialInv(s) ==
    s.req.rev[1] # "dir" /\ ~s.req.cache /\ ~Scanner!Parallel(s) /\ "truncated" \notin s.said =>
        /\ s.next <= Len(s.list) + 1
        /\ s.hits = UpTo(s.req, s.hidden, s.list, s.next - 1)

\* With threads: a blob is held by one worker, and nothing is found in it until it is let
\* go; what it yields is found once.
BlobOf(s, n) == IF n > Len(s.list) THEN n - Len(s.list) ELSE n
Unheld(s, i) == \A w \in Workers : s.at[w] \notin {i, i + Len(s.list)}
Held(s) ==
    /\ \A w \in Workers :
          /\ s.at[w] \in (-1)..(2 * Len(s.list))
          /\ s.at[w] = -1 => s.next > Len(s.list) \/ s.total > s.req.cap
          /\ s.at[w] > 0 => BlobOf(s, s.at[w]) < s.next
          /\ s.at[w] > Len(s.list) => Content[s.list[BlobOf(s, s.at[w])].oid].class = "text"
    /\ \A w, v \in Workers :
          s.at[w] > 0 /\ s.at[v] > 0 /\ BlobOf(s, s.at[w]) = BlobOf(s, s.at[v]) => w = v
FoundOnce(s) ==
    s.total <= s.req.cap =>
        \A i \in 1..Len(s.list) :
            Scanner!FoundAt(s.hits, i) =
                IF i < s.next /\ Unheld(s, i) THEN Yields(s.req, s.hidden, s.list, i) ELSE <<>>
ParallelInv(s) == Scanner!Parallel(s) => Held(s) /\ FoundOnce(s)

\* A tree: the directories n levels down, and what is in them.
AreLevels(req, dir, f) ==
    f = [n \in 0..MaxWalkDepth |->
           IF n = 0 THEN {dir}
           ELSE {e.to : e \in {x \in UNION {Dirs[d] : d \in f[n - 1]} : Scanner!Stat(req, x) = "dir"}}]
Levels(req, dir) == CHOOSE f : AreLevels(req, dir, f)
EntriesAt(req, n) == UNION {Dirs[d] : d \in Levels(req, req.rev[2])[n]}

Tells(s, f) == Content[f.oid].class = "text" /\ Scanner!Detect(s.req, s.hidden, f) # {}
IsTold(s, f) == [at |-> f.path, rules |-> Scanner!Detect(s.req, s.hidden, f)] \in Scanner!Range(s.hits)
DoneWith(s, W, n, e) ==
    /\ Scanner!Stat(s.req, e) = "dir" => n < MaxWalkDepth /\ e.to \in W[n + 1]
    /\ Scanner!Stat(s.req, e) = "file" /\ Tells(s, e.to) => IsTold(s, e.to)

\* W[n] are the directories entered n levels down: each of their entries is still to be
\* seen, in the frame of that level, or is done with.
Seen(s, W) ==
    /\ DOMAIN W = 0..MaxWalkDepth /\ s.req.rev[2] \in W[0]
    /\ \A n \in 0..MaxWalkDepth : \A d \in W[n] : \A e \in Dirs[d] :
          \/ n < Len(s.frames) /\ e \in s.frames[Len(s.frames) - n]
          \/ DoneWith(s, W, n, e)
TreeInv(s) ==
    s.req.rev[1] = "dir" =>
        /\ IsASeq(s.frames) /\ Len(s.frames) <= MaxWalkDepth + 1
        /\ \A k \in 1..Len(s.frames) : s.frames[k] \subseteq EntriesAt(s.req, Len(s.frames) - k)
        /\ \A h \in Scanner!Range(s.hits) :
              \E f \in Scanner!FilesUnder(s.req, s.req.rev[2]) :
                 Tells(s, f) /\ h = [at |-> f.path, rules |-> Scanner!Detect(s.req, s.hidden, f)]
        /\ "truncated" \notin s.said => \E W : Seen(s, W)

Whole(s) ==
    (~s.req.cache /\ "truncated" \notin s.said /\ s.total <= s.req.cap) =>
      IF s.req.rev[1] = "dir"
      THEN {[path |-> h.at, rules |-> h.rules] : h \in Scanner!Range(s.hits)} =
             {[path |-> b.path, rules |-> Scanner!Detect(s.req, s.hidden, b)] :
                b \in {f \in Scanner!FilesUnder(s.req, s.req.rev[2]) :
                         Content[f.oid].class = "text" /\ Scanner!Detect(s.req, s.hidden, f) # {}}}
      ELSE s.hits = Scanner!Fresh(s.req, s.hidden, s.list)

Found(s) == IsASeq(s.hits) /\ SerialInv(s) /\ ParallelInv(s) /\ TreeInv(s)
RunInv(s) ==
    s.stage \notin {"idle", "done"} =>
        /\ RunType(s)
        /\ s.stage = "scan" => Found(s)
        /\ s.stage # "scan" => Whole(s)

\* What a request is.
LEMMA RequestFacts ==
    ASSUME NEW req \in Requests
    PROVE  /\ req.cap \in Nat /\ (req.cmd = "trace" => req.rev[1] # "dir")
           /\ Scanner!Unresolved(req.rev) \/ Scanner!List(req.rev) \in Seq(Blobs)
           /\ Workers # {} /\ MaxWalkDepth \in Nat
           /\ \A o \in Oids : Content[o].class \in {"text", "binary", "big", "lost"} /\ Content[o].size \in Nat
  BY ScanInputs DEF Scanner!WellFormed, Blobs

LEMMA LevelsIs ==
    ASSUME NEW req, NEW dir, MaxWalkDepth \in Nat
    PROVE  /\ AreLevels(req, dir, Levels(req, dir))
           /\ Scanner!FilesUnder(req, dir) =
                {e.to : e \in {x \in UNION {Dirs[d] : d \in UNION {Levels(req, dir)[n] : n \in 0..MaxWalkDepth}} :
                                 Scanner!Stat(req, x) = "file"}}
<1> DEFINE below(X) == {e.to : e \in {x \in UNION {Dirs[d] : d \in X} : Scanner!Stat(req, x) = "dir"}}
           Good(m, f) == f[0] = {dir} /\ \A n \in 1..m : f[n] = below(f[n - 1])
           T == {m \in Nat : m <= MaxWalkDepth => \E f : DOMAIN f = 0..MaxWalkDepth /\ Good(m, f)}
<1>1. 0 \in T
  <2> DEFINE f == [n \in 0..MaxWalkDepth |-> {dir}]
  <2>1. DOMAIN f = 0..MaxWalkDepth /\ f[0] = {dir} /\ 1..0 = {}
    OBVIOUS
  <2> HIDE DEF f, below
  <2>2. Good(0, f)
    BY <2>1
  <2> QED
    BY <2>1, <2>2
<1>2. ASSUME NEW m \in Nat, m \in T PROVE m + 1 \in T
  <2> HIDE DEF below
  <2> SUFFICES ASSUME m + 1 <= MaxWalkDepth
               PROVE  \E f : DOMAIN f = 0..MaxWalkDepth /\ Good(m + 1, f)
    OBVIOUS
  <2>1. PICK f : DOMAIN f = 0..MaxWalkDepth /\ Good(m, f)
    BY <1>2
  <2> DEFINE x == below(f[m])
             g == [f EXCEPT ![m + 1] = x]
  <2>2. m + 1 \in 0..MaxWalkDepth /\ m + 1 # 0
    OBVIOUS
  <2> HIDE DEF x
  <2>3. /\ DOMAIN g = 0..MaxWalkDepth /\ g[m + 1] = x
        /\ \A n \in 0..MaxWalkDepth : n # m + 1 => g[n] = f[n]
    BY <2>1, <2>2
  <2> HIDE DEF g
  <2>4. g[0] = {dir}
    BY <2>1, <2>2, <2>3
  <2>5. ASSUME NEW n \in 1..(m + 1) PROVE g[n] = below(g[n - 1])
    <3>1. n - 1 \in 0..MaxWalkDepth /\ n - 1 # m + 1 /\ n \in 0..MaxWalkDepth
      BY <2>2
    <3>2. g[n - 1] = f[n - 1]
      BY <2>3, <3>1
    <3>3. CASE n = m + 1
      <4>1. n - 1 = m
        BY <3>3
      <4> QED
        BY <2>3, <3>2, <3>3, <4>1 DEF x
    <3>4. CASE n # m + 1
      <4>1. n \in 1..m
        BY <3>4
      <4> QED
        BY <2>1, <2>3, <3>1, <3>2, <3>4, <4>1
    <3> QED
      BY <3>3, <3>4
  <2> QED
    BY <2>3, <2>4, <2>5
<1>3. Nat \subseteq T
  <2> HIDE DEF T
  <2> QED
    BY <1>1, <1>2, Induct
<1>4. PICK f : DOMAIN f = 0..MaxWalkDepth /\ Good(MaxWalkDepth, f)
  <2>1. MaxWalkDepth \in T /\ MaxWalkDepth <= MaxWalkDepth
    <3>1. MaxWalkDepth <= MaxWalkDepth
      OBVIOUS
    <3> HIDE DEF T
    <3> QED
      BY <1>3, <3>1
  <2> HIDE DEF Good
  <2> QED
    BY <2>1
<1> DEFINE g == [n \in 0..MaxWalkDepth |-> f[n]]
<1>5. AreLevels(req, dir, g)
  <2>1. ASSUME NEW n \in 0..MaxWalkDepth
        PROVE  g[n] = IF n = 0 THEN {dir} ELSE below(g[n - 1])
    <3>1. n # 0 => n - 1 \in 0..MaxWalkDepth /\ n \in 1..MaxWalkDepth
      OBVIOUS
    <3> HIDE DEF below
    <3> QED
      BY <1>4, <3>1
  <2> DEFINE h == [n \in 0..MaxWalkDepth |-> IF n = 0 THEN {dir} ELSE below(g[n - 1])]
  <2>2. g = h
    <3> HIDE DEF below
    <3> QED
      BY <2>1
  <2> HIDE DEF g
  <2> QED
    BY <2>2 DEF AreLevels
<1>6. AreLevels(req, dir, Levels(req, dir))
  <2> HIDE DEF g
  <2> QED
    BY <1>5 DEF Levels
<1> QED
  BY <1>6 DEF Scanner!FilesUnder, Levels, AreLevels

\* What is in a level, and what its directories and files are.
LEMMA LevelFacts ==
    ASSUME NEW req \in Requests
    PROVE  /\ Levels(req, req.rev[2])[0] = {req.rev[2]}
           /\ \A n \in 0..MaxWalkDepth : \A e \in EntriesAt(req, n) :
                 /\ Scanner!Stat(req, e) = "dir" /\ n < MaxWalkDepth => e.to \in Levels(req, req.rev[2])[n + 1]
                 /\ Scanner!Stat(req, e) = "file" => e.to \in Scanner!FilesUnder(req, req.rev[2])
           /\ \A n \in 0..(MaxWalkDepth - 1) : \A d \in Levels(req, req.rev[2])[n + 1] :
                 \E e \in EntriesAt(req, n) : Scanner!Stat(req, e) = "dir" /\ d = e.to
           /\ \A f \in Scanner!FilesUnder(req, req.rev[2]) :
                 \E n \in 0..MaxWalkDepth : \E e \in EntriesAt(req, n) :
                    Scanner!Stat(req, e) = "file" /\ f = e.to
<1>0. MaxWalkDepth \in Nat
  BY RequestFacts
<1> DEFINE L == Levels(req, req.rev[2])
<1>1. /\ AreLevels(req, req.rev[2], L)
      /\ Scanner!FilesUnder(req, req.rev[2]) =
           {e.to : e \in {x \in UNION {Dirs[d] : d \in UNION {L[n] : n \in 0..MaxWalkDepth}} :
                            Scanner!Stat(req, x) = "file"}}
  BY <1>0, LevelsIs
<1> HIDE DEF L
<1>2. \A n \in 0..MaxWalkDepth :
         L[n] = IF n = 0 THEN {req.rev[2]}
                ELSE {e.to : e \in {x \in UNION {Dirs[d] : d \in L[n - 1]} : Scanner!Stat(req, x) = "dir"}}
  BY <1>1 DEF AreLevels
<1>3. L[0] = {req.rev[2]}
  <2>1. 0 \in 0..MaxWalkDepth
    BY <1>0
  <2> QED
    BY <1>2, <2>1
<1>4. ASSUME NEW n \in 0..(MaxWalkDepth - 1)
      PROVE  L[n + 1] = {e.to : e \in {x \in UNION {Dirs[d] : d \in L[n]} : Scanner!Stat(req, x) = "dir"}}
  <2>1. n + 1 \in 0..MaxWalkDepth /\ n + 1 # 0 /\ (n + 1) - 1 = n
    BY <1>0
  <2> QED
    BY <1>2, <2>1
<1>5. \A n : EntriesAt(req, n) = UNION {Dirs[d] : d \in L[n]}
  BY DEF EntriesAt, L
<1>6. ASSUME NEW n \in 0..MaxWalkDepth, NEW e \in EntriesAt(req, n)
      PROVE  /\ Scanner!Stat(req, e) = "dir" /\ n < MaxWalkDepth => e.to \in L[n + 1]
             /\ Scanner!Stat(req, e) = "file" => e.to \in Scanner!FilesUnder(req, req.rev[2])
  <2>1. PICK d \in L[n] : e \in Dirs[d]
    BY <1>5
  <2>2. ASSUME Scanner!Stat(req, e) = "dir", n < MaxWalkDepth PROVE e.to \in L[n + 1]
    <3>1. n \in 0..(MaxWalkDepth - 1)
      BY <1>0, <2>2
    <3> QED
      BY <1>4, <2>1, <2>2, <3>1
  <2>3. ASSUME Scanner!Stat(req, e) = "file" PROVE e.to \in Scanner!FilesUnder(req, req.rev[2])
    <3>1. d \in UNION {L[m] : m \in 0..MaxWalkDepth}
      BY <2>1
    <3> QED
      BY <1>1, <2>1, <2>3, <3>1
  <2> QED
    BY <2>2, <2>3
<1>7. ASSUME NEW n \in 0..(MaxWalkDepth - 1), NEW d \in L[n + 1]
      PROVE  \E e \in EntriesAt(req, n) : Scanner!Stat(req, e) = "dir" /\ d = e.to
  BY <1>4, <1>5
<1>8. ASSUME NEW f \in Scanner!FilesUnder(req, req.rev[2])
      PROVE  \E n \in 0..MaxWalkDepth : \E e \in EntriesAt(req, n) :
                Scanner!Stat(req, e) = "file" /\ f = e.to
  <2>1. PICK d \in UNION {L[n] : n \in 0..MaxWalkDepth} :
           \E e \in Dirs[d] : Scanner!Stat(req, e) = "file" /\ f = e.to
    BY <1>1
  <2>2. PICK n \in 0..MaxWalkDepth : d \in L[n]
    BY <2>1
  <2> QED
    BY <1>5, <2>1, <2>2
<1> QED
  BY <1>3, <1>6, <1>7, <1>8 DEF L

LEMMA NoneFacts == IsASeq(<<>>) /\ DOMAIN <<>> = {} /\ Len(<<>>) = 0 /\ Scanner!Range(<<>>) = {}
<1>1. <<>> \in Seq({}) /\ DOMAIN <<>> = {} /\ Len(<<>>) = 0
  OBVIOUS
<1>2. IsASeq(<<>>)
  BY <1>1, Zenon DEF IsASeq
<1> QED
  BY <1>1, <1>2 DEF Scanner!Range

\* A scan begins with nothing found and all to be seen.
LEMMA BeginHolds ==
    ASSUME NEW req \in Requests, ~Scanner!Unresolved(req.rev)
    PROVE  RunInv(Scanner!Begins(req))
<1> DEFINE t == Scanner!Begins(req)
<1>1. /\ DOMAIN t = RunFields /\ t.stage = "scan" /\ t.req = req /\ t.hidden = Scanner!Hidden(req)
      /\ t.list = Scanner!List(req.rev) /\ t.next = 1 /\ t.total = 0 /\ t.said = {}
      /\ t.entries = Scanner!Load(req) /\ t.hits = <<>>
      /\ t.frames = IF req.rev[1] = "dir" THEN <<Dirs[req.rev[2]]>> ELSE <<>>
      /\ t.at \in [Workers -> Int] /\ \A w \in Workers : t.at[w] = 0
  BY DEF Scanner!Begins, RunFields
<1>2. /\ Scanner!List(req.rev) \in Seq(Blobs) /\ MaxWalkDepth \in Nat
  BY RequestFacts
<1> HIDE DEF t
<1>3. RunType(t)
  <2>1. req.rev[1] = "dir" => Scanner!List(req.rev) = <<>>
    BY DEF Scanner!List
  <2>2. ~req.cache => Scanner!Load(req) = <<>>
    BY DEF Scanner!Load
  <2> QED
    BY <1>1, <1>2, <2>1, <2>2 DEF RunType
<1>4. SerialInv(t)
  <2>1. UpTo(t.req, t.hidden, t.list, 0) = <<>>
    BY YieldsMore
  <2>2. Len(t.list) \in Nat
    BY <1>3 DEF RunType
  <2> QED
    BY <1>1, <2>1, <2>2 DEF SerialInv
<1>5. ParallelInv(t)
  <2>1. Len(t.list) \in Nat
    BY <1>3 DEF RunType
  <2>2. Held(t)
    BY <1>1, <2>1 DEF Held
  <2>3. \A i : Scanner!FoundAt(t.hits, i) = <<>>
    BY <1>1, NoneFacts, FoundMore
  <2>4. \A i \in 1..Len(t.list) : ~(i < t.next)
    BY <1>1, <2>1
  <2>5. FoundOnce(t)
    BY <2>3, <2>4 DEF FoundOnce
  <2> QED
    BY <2>2, <2>5 DEF ParallelInv
<1>6. TreeInv(t)
  <2> SUFFICES ASSUME req.rev[1] = "dir" PROVE TreeInv(t)
    BY <1>1 DEF TreeInv
  <2> DEFINE all == Dirs[req.rev[2]]
             W == [n \in 0..MaxWalkDepth |-> IF n = 0 THEN {req.rev[2]} ELSE {}]
  <2>1. t.frames = <<all>>
    BY <1>1, <1>2
  <2> HIDE DEF all
  <2>2. IsASeq(t.frames) /\ Len(t.frames) = 1 /\ t.frames[1] = all /\ \A k \in 1..Len(t.frames) : k = 1
    BY <2>1, OneFacts
  <2>3. all \subseteq EntriesAt(t.req, 0)
    <3>1. Levels(req, req.rev[2])[0] = {req.rev[2]}
      BY LevelFacts
    <3> QED
      BY <1>1, <3>1 DEF EntriesAt, all
  <2>4. DOMAIN W = 0..MaxWalkDepth /\ W[0] = {req.rev[2]} /\ \A n \in 0..MaxWalkDepth : n # 0 => W[n] = {}
    BY <1>2
  <2> HIDE DEF W
  <2>5. ASSUME NEW n \in 0..MaxWalkDepth, NEW d \in W[n], NEW e \in Dirs[d]
        PROVE  n < Len(t.frames) /\ e \in t.frames[Len(t.frames) - n]
    <3>1. n = 0 /\ d = req.rev[2]
      BY <2>4
    <3>2. Len(t.frames) - n = 1 /\ n < Len(t.frames)
      BY <2>2, <3>1
    <3> QED
      BY <2>2, <3>1, <3>2 DEF all
  <2>6. Seen(t, W)
    BY <1>1, <2>4, <2>5 DEF Seen
  <2>7. Len(t.frames) <= MaxWalkDepth + 1
    BY <1>2, <2>2
  <2>8. \A k \in 1..Len(t.frames) : t.frames[k] \subseteq EntriesAt(t.req, Len(t.frames) - k)
    <3>1. Len(t.frames) - 1 = 0
      BY <2>2
    <3> QED
      BY <2>2, <2>3, <3>1
  <2>9. Scanner!Range(t.hits) = {}
    BY <1>1, NoneFacts
  <2> QED
    BY <2>2, <2>6, <2>7, <2>8, <2>9 DEF TreeInv
<1> QED
  BY <1>1, <1>3, <1>4, <1>5, <1>6, NoneFacts DEF RunInv, Found, t

\* A scan of one blob after another goes on.
LEMMA SerialKeeps ==
    ASSUME NEW s, RunType(s), s.req.rev[1] # "dir", ~Scanner!Parallel(s),
           NEW t, DOMAIN t = RunFields, t.stage = "scan", t.req = s.req, t.list = s.list,
           t.frames = s.frames, t.at = s.at, t.next \in Nat \ {0}, t.total \in Nat,
           ~s.req.cache => t.entries = <<>>, IsASeq(t.hits), SerialInv(t)
    PROVE  RunInv(t)
<1>1. RunType(t)
  BY DEF RunType
<1>2. ~Scanner!Parallel(t)
  BY DEF Scanner!Parallel
<1> QED
  BY <1>1, <1>2 DEF RunInv, Found, ParallelInv, TreeInv

LEMMA ScanNextHolds ==
    ASSUME NEW p \in Procs, RunInv(scan[p]), Scanner!ScanNext(p)
    PROVE  \E t : RunInv(t) /\ scan' = [scan EXCEPT ![p] = t]
<1>1. PICK s : s = scan[p]
  OBVIOUS
<1>2. /\ s.stage = "scan" /\ ~Scanner!Parallel(s) /\ s.frames = <<>> /\ s.next <= Len(s.list)
  BY <1>1 DEF Scanner!ScanNext
<1>3. RunType(s) /\ IsASeq(s.hits) /\ SerialInv(s)
  BY <1>1, <1>2 DEF RunInv, Found
<1> DEFINE b == s.list[s.next]
           on == [s EXCEPT !.next = @ + 1]
           total == s.total + Content[b.oid].size
           rules == Scanner!Detect(s.req, s.hidden, b)
           is == Scanner!Outcome(s, b)
           class == Content[b.oid].class
           t == CASE is = "cached" -> [on EXCEPT !.hits = @ \o Scanner!Hit(s.next, s.entries[b.oid].rules)]
                  [] is = "lost" -> [on EXCEPT !.said = @ \cup {"skipped"}]
                  [] is = "skipped" -> on
                  [] is = "over" -> [s EXCEPT !.next = Len(s.list) + 1, !.said = @ \cup {"truncated"}]
                  [] is = "scanned" ->
                       Scanner!Remembers([on EXCEPT !.total = total, !.hits = @ \o Scanner!Hit(s.next, rules)],
                                         b, rules)
<1>4. scan' = [scan EXCEPT ![p] = t]
  BY <1>1 DEF Scanner!ScanNext, Scanner!Sets
<1>5. /\ DOMAIN s = RunFields /\ s.req \in Requests /\ s.list \in Seq(Blobs) /\ s.next \in Nat \ {0}
      /\ Len(s.list) \in Nat /\ s.next + 1 \in Nat \ {0}
  BY <1>3 DEF RunType
<1>6. b \in Blobs /\ b.oid \in Oids
  <2>1. s.next \in 1..Len(s.list)
    BY <1>2, <1>5
  <2>2. b \in Blobs
    BY <1>5, <2>1
  <2> HIDE DEF b
  <2> QED
    BY <2>2 DEF Blobs
<1>7. s.req.rev[1] # "dir"
  <2>1. s.list = <<>> => Len(s.list) = 0
    OBVIOUS
  <2> QED
    BY <1>2, <1>3, <1>5, <2>1 DEF RunType
<1>8. class \in {"text", "binary", "big", "lost"} /\ Content[b.oid].size \in Nat
  BY <1>5, <1>6, RequestFacts
<1>9. s.total \in Nat /\ total \in Nat
  <2>1. s.total \in Nat
    BY <1>3, <1>7 DEF RunType
  <2> QED
    BY <1>8, <2>1
<1>10. UpTo(s.req, s.hidden, s.list, s.next)
         = UpTo(s.req, s.hidden, s.list, s.next - 1) \o Yields(s.req, s.hidden, s.list, s.next)
  <2>1. s.next - 1 \in Nat /\ (s.next - 1) + 1 = s.next
    BY <1>5
  <2> QED
    BY <2>1, YieldsMore
<1>11. Yields(s.req, s.hidden, s.list, s.next) = IF class = "text" THEN Scanner!Hit(s.next, rules) ELSE <<>>
  BY DEF Yields
<1>12. /\ DOMAIN on = RunFields /\ on.next = s.next + 1 /\ on.stage = "scan" /\ on.req = s.req
       /\ on.hidden = s.hidden /\ on.list = s.list /\ on.frames = s.frames /\ on.at = s.at
       /\ on.total = s.total /\ on.entries = s.entries /\ on.hits = s.hits /\ on.said = s.said
  BY <1>2, <1>5 DEF RunFields
<1> HIDE DEF b, on, total, rules, class, t
<1>13. ASSUME NEW u, DOMAIN u = RunFields, u.stage = "scan", u.req = s.req, u.list = s.list,
              u.hidden = s.hidden, u.frames = s.frames, u.at = s.at, u.next = s.next + 1, u.total \in Nat,
              ~s.req.cache => u.entries = <<>>, IsASeq(u.hits),
              "truncated" \notin u.said => "truncated" \notin s.said,
              ~s.req.cache => u.hits = s.hits \o Yields(s.req, s.hidden, s.list, s.next)
       PROVE  RunInv(u)
  <2>1. SerialInv(u)
    <3> SUFFICES ASSUME ~u.req.cache, ~Scanner!Parallel(u), "truncated" \notin u.said
                 PROVE  /\ u.next <= Len(u.list) + 1
                        /\ u.hits = UpTo(u.req, u.hidden, u.list, u.next - 1)
      BY DEF SerialInv
    <3>1. s.hits = UpTo(s.req, s.hidden, s.list, s.next - 1)
      BY <1>2, <1>3, <1>7, <1>13 DEF SerialInv
    <3>2. u.next - 1 = s.next /\ u.next <= Len(u.list) + 1
      BY <1>2, <1>5, <1>13
    <3> QED
      BY <1>10, <1>13, <3>1, <3>2
  <2> QED
    BY <1>2, <1>3, <1>5, <1>7, <1>13, <2>1, SerialKeeps
<1>14. s.hits \o <<>> = s.hits
  BY <1>3 DEF IsASeq
<1>15. ~s.req.cache => s.entries = <<>> /\ b.oid \notin DOMAIN s.entries
  BY <1>3, NoneFacts DEF RunType
<1>16. CASE is = "cached"
  <2>1. s.req.cache
    BY <1>15, <1>16, <1>8 DEF Scanner!Outcome, class
  <2>2. t = [on EXCEPT !.hits = @ \o Scanner!Hit(s.next, s.entries[b.oid].rules)]
    BY <1>16 DEF t
  <2>3. IsASeq(s.hits \o Scanner!Hit(s.next, s.entries[b.oid].rules))
    BY <1>3, HitFacts
  <2>4. RunInv(t)
    <3> DEFINE h == s.hits \o Scanner!Hit(s.next, s.entries[b.oid].rules)
    <3>1. t = [on EXCEPT !.hits = h]
      BY <1>12, <2>2
    <3>2. IsASeq(h)
      BY <2>3
    <3> HIDE DEF h
    <3>3. /\ DOMAIN t = RunFields /\ t.next = s.next + 1 /\ t.stage = "scan" /\ t.req = s.req
          /\ t.hidden = s.hidden /\ t.list = s.list /\ t.frames = s.frames /\ t.at = s.at
          /\ t.total = s.total /\ t.entries = s.entries /\ t.hits = h /\ t.said = s.said
      BY <1>12, <3>1 DEF RunFields
    <3> QED
      BY <1>9, <1>13, <2>1, <3>2, <3>3
  <2> QED
    BY <1>4, <2>4
<1>17. CASE is = "lost"
  <2>1. class = "lost"
    BY <1>17, <1>8 DEF Scanner!Outcome, class
  <2>2. t = [on EXCEPT !.said = @ \cup {"skipped"}]
    BY <1>17 DEF t
  <2>3. /\ DOMAIN t = RunFields /\ t.next = s.next + 1 /\ t.stage = "scan" /\ t.req = s.req
        /\ t.hidden = s.hidden /\ t.list = s.list /\ t.frames = s.frames /\ t.at = s.at
        /\ t.total = s.total /\ t.entries = s.entries /\ t.hits = s.hits
        /\ t.said = s.said \cup {"skipped"}
    BY <1>12, <2>2 DEF RunFields
  <2>4. Yields(s.req, s.hidden, s.list, s.next) = <<>>
    BY <1>11, <2>1
  <2>5. RunInv(t)
    BY <1>3, <1>9, <1>13, <1>14, <1>15, <2>3, <2>4
  <2> QED
    BY <1>4, <2>5
<1>18. CASE is = "skipped"
  <2>1. class # "text"
    BY <1>18, <1>8 DEF Scanner!Outcome, class
  <2>2. t = on
    BY <1>18 DEF t
  <2>4. Yields(s.req, s.hidden, s.list, s.next) = <<>>
    BY <1>11, <2>1
  <2>5. RunInv(on)
    BY <1>3, <1>9, <1>12, <1>13, <1>14, <1>15, <2>4
  <2> QED
    BY <1>4, <2>2, <2>5
<1>19. CASE is = "over"
  <2>2. t = [s EXCEPT !.next = Len(s.list) + 1, !.said = @ \cup {"truncated"}]
    BY <1>19 DEF t
  <2>3. /\ DOMAIN t = RunFields /\ t.next = Len(s.list) + 1 /\ t.stage = "scan" /\ t.req = s.req
        /\ t.list = s.list /\ t.frames = s.frames /\ t.at = s.at
        /\ t.total = s.total /\ t.entries = s.entries /\ t.hits = s.hits
        /\ "truncated" \in t.said
    BY <1>2, <1>5, <2>2 DEF RunFields
  <2>4. SerialInv(t)
    BY <2>3 DEF SerialInv
  <2>5. Len(s.list) + 1 \in Nat \ {0}
    BY <1>5
  <2>6. RunInv(t)
    BY <1>2, <1>3, <1>7, <1>9, <1>15, <2>3, <2>4, <2>5, SerialKeeps
  <2> QED
    BY <1>4, <2>6
<1>20. CASE is = "scanned"
  <2> DEFINE h == s.hits \o Scanner!Hit(s.next, rules)
             u == [on EXCEPT !.total = total, !.hits = h]
  <2>1. class = "text"
    BY <1>20, <1>8 DEF Scanner!Outcome, class
  <2>2. t = Scanner!Remembers(u, b, rules)
    BY <1>12, <1>20 DEF t
  <2>3. IsASeq(h)
    BY <1>3, HitFacts
  <2> HIDE DEF h
  <2>4. /\ DOMAIN u = RunFields /\ u.next = s.next + 1 /\ u.stage = "scan" /\ u.req = s.req
        /\ u.hidden = s.hidden /\ u.list = s.list /\ u.frames = s.frames /\ u.at = s.at
        /\ u.total = total /\ u.entries = s.entries /\ u.hits = h /\ u.said = s.said
    BY <1>12 DEF RunFields
  <2> HIDE DEF u
  <2>5. /\ DOMAIN t = RunFields /\ t.next = s.next + 1 /\ t.stage = "scan" /\ t.req = s.req
        /\ t.hidden = s.hidden /\ t.list = s.list /\ t.frames = s.frames /\ t.at = s.at
        /\ t.total = total /\ t.hits = h /\ t.said = s.said
        /\ ~s.req.cache => t.entries = s.entries
    <3>1. CASE ~s.req.cache
      BY <2>2, <2>4, <3>1 DEF Scanner!Remembers
    <3>2. CASE s.req.cache
      <4>1. PICK m : t = [u EXCEPT !.entries = m, !.dirty = TRUE]
        BY <2>2, <2>4, <3>2 DEF Scanner!Remembers
      <4> QED
        BY <2>4, <3>2, <4>1 DEF RunFields
    <3> QED
      BY <3>1, <3>2
  <2>6. h = s.hits \o Yields(s.req, s.hidden, s.list, s.next)
    BY <1>11, <2>1 DEF h
  <2>7. RunInv(t)
    BY <1>9, <1>13, <1>15, <2>3, <2>5, <2>6
  <2> QED
    BY <1>4, <2>7
<1>21. is \in {"cached", "lost", "skipped", "over", "scanned"}
  BY <1>8 DEF Scanner!Outcome, class
<1> QED
  BY <1>16, <1>17, <1>18, <1>19, <1>20, <1>21

\* A scan with threads goes on.
LEMMA ParallelKeeps ==
    ASSUME NEW s, RunType(s), Scanner!Parallel(s),
           NEW t, DOMAIN t = RunFields, t.stage = "scan", t.req = s.req, t.list = s.list,
           t.frames = s.frames, t.entries = s.entries, t.at \in [Workers -> Int],
           t.next \in Nat \ {0}, t.total \in Nat, IsASeq(t.hits), Held(t), FoundOnce(t)
    PROVE  RunInv(t)
<1>1. RunType(t)
  BY DEF RunType
<1>2. Scanner!Parallel(t) /\ t.req.rev[1] # "dir"
  BY DEF Scanner!Parallel
<1> QED
  BY <1>1, <1>2 DEF RunInv, Found, ParallelInv, SerialInv, TreeInv

\* A worker takes a blob, goes on with it, or lets it go: w goes from s.at[w] to x.
Moves(s, t, w, x) ==
    /\ RunType(s) /\ Held(s) /\ s.total \in Nat /\ w \in Workers /\ x \in (-1)..(2 * Len(s.list))
    /\ t.req = s.req /\ t.list = s.list /\ t.at = [s.at EXCEPT ![w] = x]
    /\ t.next \in Nat /\ s.next <= t.next /\ t.total \in Nat /\ s.total <= t.total
    /\ x = -1 => t.next > Len(s.list) \/ t.total > s.req.cap
    /\ x > 0 => BlobOf(s, x) < t.next
    /\ x > Len(s.list) => Content[s.list[BlobOf(s, x)].oid].class = "text"
    /\ \A v \in Workers \ {w} : x > 0 /\ s.at[v] > 0 => BlobOf(s, s.at[v]) # BlobOf(s, x)

LEMMA HeldMoves ==
    ASSUME NEW s, NEW t, NEW w, NEW x, Moves(s, t, w, x)
    PROVE  Held(t) /\ t.at \in [Workers -> Int] /\ t.at[w] = x /\ \A v \in Workers \ {w} : t.at[v] = s.at[v]
<1> DEFINE n == Len(s.list)
<1> USE DEF Moves
<1>1. s.at \in [Workers -> Int] /\ n \in Nat /\ s.next \in Nat /\ s.req.cap \in Nat /\ x \in Int
  BY RequestFacts DEF RunType
<1>2. t.at \in [Workers -> Int] /\ t.at[w] = x /\ \A v \in Workers \ {w} : t.at[v] = s.at[v]
  BY <1>1
<1>3. \A k : BlobOf(t, k) = BlobOf(s, k)
  BY DEF BlobOf
<1>4. \A k \in Int : BlobOf(s, k) \in Int
  BY <1>1 DEF BlobOf
<1> HIDE DEF n
<1>5. ASSUME NEW v \in Workers
      PROVE  /\ t.at[v] \in (-1)..(2 * Len(t.list))
             /\ t.at[v] = -1 => t.next > Len(t.list) \/ t.total > t.req.cap
             /\ t.at[v] > 0 => BlobOf(t, t.at[v]) < t.next
             /\ t.at[v] > Len(t.list) => Content[t.list[BlobOf(t, t.at[v])].oid].class = "text"
  <2>1. CASE v = w
    BY <1>2, <1>3, <2>1
  <2>2. CASE v # w
    <3>1. t.at[v] = s.at[v] /\ s.at[v] \in Int /\ BlobOf(s, s.at[v]) \in Int
      BY <1>1, <1>2, <1>4, <2>2
    <3>2. /\ s.at[v] \in (-1)..(2 * Len(s.list))
          /\ s.at[v] = -1 => s.next > Len(s.list) \/ s.total > s.req.cap
          /\ s.at[v] > 0 => BlobOf(s, s.at[v]) < s.next
          /\ s.at[v] > Len(s.list) => Content[s.list[BlobOf(s, s.at[v])].oid].class = "text"
      BY DEF Held
    <3>3. s.next > Len(s.list) => t.next > Len(s.list)
      BY <1>1 DEF n
    <3>4. s.total > s.req.cap => t.total > s.req.cap
      BY <1>1
    <3>5. BlobOf(s, s.at[v]) < s.next => BlobOf(s, s.at[v]) < t.next
      BY <1>1, <3>1
    <3> QED
      BY <1>3, <3>1, <3>2, <3>3, <3>4, <3>5
  <2> QED
    BY <2>1, <2>2
<1>6. ASSUME NEW v \in Workers, NEW u \in Workers, t.at[v] > 0, t.at[u] > 0,
             BlobOf(t, t.at[v]) = BlobOf(t, t.at[u])
      PROVE  v = u
  <2>1. CASE v = w
    BY <1>2, <1>3, <1>6, <2>1
  <2>2. CASE u = w
    BY <1>2, <1>3, <1>6, <2>2
  <2>3. CASE v # w /\ u # w
    BY <1>2, <1>3, <1>6, <2>3 DEF Held
  <2> QED
    BY <2>1, <2>2, <2>3
<1>7. Held(t)
  BY <1>5, <1>6 DEF Held
<1> QED
  BY <1>2, <1>7

\* What the three steps of a worker start from.
LEMMA ParallelFacts ==
    ASSUME NEW s, RunInv(s), s.stage = "scan", Scanner!Parallel(s)
    PROVE  /\ RunType(s) /\ Held(s) /\ FoundOnce(s) /\ IsASeq(s.hits)
           /\ DOMAIN s = RunFields /\ s.total \in Nat /\ s.next \in Nat \ {0} /\ Len(s.list) \in Nat
           /\ s.list \in Seq(Blobs) /\ s.at \in [Workers -> Int] /\ s.req.cap \in Nat
           /\ \A i \in 1..Len(s.list) :
                 /\ Content[s.list[i].oid].class \in {"text", "binary", "big", "lost"}
                 /\ Content[s.list[i].oid].size \in Nat
<1>1. RunType(s) /\ Held(s) /\ FoundOnce(s) /\ IsASeq(s.hits) /\ s.req.rev[1] # "dir"
  BY DEF RunInv, Found, ParallelInv, Scanner!Parallel
<1>2. s.list \in Seq(Blobs) /\ s.req \in Requests
  BY <1>1 DEF RunType
<1>3. \A i \in 1..Len(s.list) : s.list[i] \in Blobs
  BY <1>2
<1>4. \A i \in 1..Len(s.list) : s.list[i].oid \in Oids
  BY <1>3 DEF Blobs
<1> QED
  BY <1>1, <1>2, <1>4, RequestFacts DEF RunType

LEMMA ClaimHolds ==
    ASSUME NEW p \in Procs, RunInv(scan[p]), NEW w \in Workers, Scanner!Claim(p, w)
    PROVE  \E t : RunInv(t) /\ scan' = [scan EXCEPT ![p] = t]
<1>1. PICK s : s = scan[p]
  OBVIOUS
<1>2. s.stage = "scan" /\ Scanner!Parallel(s) /\ s.at[w] = 0
  BY <1>1 DEF Scanner!Claim
<1> DEFINE n == Len(s.list)
           x == IF s.next > n \/ s.total > s.req.cap THEN -1 ELSE s.next
           t == [s EXCEPT !.next = @ + 1, !.at[w] = x]
<1>3. scan' = [scan EXCEPT ![p] = t]
  BY <1>1 DEF Scanner!Claim, Scanner!Sets
<1>4. /\ RunType(s) /\ Held(s) /\ FoundOnce(s) /\ IsASeq(s.hits)
      /\ DOMAIN s = RunFields /\ s.total \in Nat /\ s.next \in Nat \ {0} /\ n \in Nat
      /\ s.at \in [Workers -> Int] /\ s.req.cap \in Nat
  BY <1>1, <1>2, ParallelFacts
<1>5. /\ DOMAIN t = RunFields /\ t.stage = "scan" /\ t.req = s.req /\ t.hidden = s.hidden
      /\ t.list = s.list /\ t.frames = s.frames /\ t.entries = s.entries /\ t.hits = s.hits
      /\ t.total = s.total /\ t.next = s.next + 1 /\ t.at = [s.at EXCEPT ![w] = x]
  BY <1>2, <1>4 DEF RunFields
<1> HIDE DEF t
<1>6. /\ x \in (-1)..(2 * n)
      /\ x = -1 => t.next > n \/ t.total > s.req.cap
      /\ x > 0 => x = s.next /\ x <= n /\ ~(s.total > s.req.cap)
      /\ x = -1 \/ x > 0
      /\ t.next \in Nat \ {0} /\ s.next <= t.next /\ s.total <= t.total
  BY <1>4, <1>5
<1> HIDE DEF x
<1>7. x > 0 => BlobOf(s, x) = s.next /\ BlobOf(s, x) < t.next /\ ~(x > n)
  BY <1>4, <1>5, <1>6 DEF BlobOf
<1>8. \A v \in Workers \ {w} : x > 0 /\ s.at[v] > 0 => BlobOf(s, s.at[v]) # BlobOf(s, x)
  <2> SUFFICES ASSUME NEW v \in Workers, x > 0, s.at[v] > 0 PROVE BlobOf(s, s.at[v]) # s.next
    BY <1>7
  <2>1. BlobOf(s, s.at[v]) < s.next
    BY <1>4 DEF Held
  <2> QED
    BY <1>4, <2>1
<1>9. Held(t) /\ t.at \in [Workers -> Int] /\ t.at[w] = x /\ \A v \in Workers \ {w} : t.at[v] = s.at[v]
  <2>1. x > n => x > 0
    BY <1>4, <1>6
  <2>2. Moves(s, t, w, x)
    BY <1>4, <1>5, <1>6, <1>7, <1>8, <2>1 DEF Moves
  <2> QED
    BY <2>2, HeldMoves
<1>10. FoundOnce(t)
  <2> SUFFICES ASSUME s.total <= s.req.cap, NEW i \in 1..n
               PROVE  Scanner!FoundAt(s.hits, i) =
                        IF i < s.next + 1 /\ Unheld(t, i) THEN Yields(s.req, s.hidden, s.list, i) ELSE <<>>
    BY <1>5 DEF FoundOnce
  <2>1. Scanner!FoundAt(s.hits, i) =
           IF i < s.next /\ Unheld(s, i) THEN Yields(s.req, s.hidden, s.list, i) ELSE <<>>
    BY <1>4 DEF FoundOnce
  <2>2. CASE i = s.next
    <3>1. x = i
      BY <1>4, <1>6, <2>2 DEF x
    <3>2. ~Unheld(t, i)
      BY <1>9, <3>1 DEF Unheld
    <3>3. ~(i < s.next)
      BY <1>4, <2>2
    <3> QED
      BY <2>1, <3>2, <3>3
  <2>3. CASE i # s.next
    <3>1. i < s.next <=> i < s.next + 1
      BY <1>4, <2>3
    <3>2. x \notin {i, i + n} /\ 0 \notin {i, i + n}
      BY <1>4, <1>6, <2>3
    <3>3. Unheld(t, i) <=> Unheld(s, i)
      <4>1. \A v \in Workers : t.at[v] \in {i, i + n} <=> s.at[v] \in {i, i + n}
        <5> SUFFICES ASSUME NEW v \in Workers PROVE t.at[v] \in {i, i + n} <=> s.at[v] \in {i, i + n}
          OBVIOUS
        <5>1. CASE v = w
          BY <1>2, <1>9, <3>2, <5>1
        <5>2. CASE v # w
          BY <1>9, <5>2
        <5> QED
          BY <5>1, <5>2
      <4> QED
        BY <1>5, <4>1 DEF Unheld
    <3> QED
      BY <2>1, <3>1, <3>3
  <2> QED
    BY <2>2, <2>3
<1>11. RunInv(t)
  BY <1>2, <1>4, <1>5, <1>6, <1>9, <1>10, ParallelKeeps
<1> QED
  BY <1>3, <1>11

LEMMA ReadsHolds ==
    ASSUME NEW p \in Procs, RunInv(scan[p]), NEW w \in Workers, Scanner!ReadsClaimed(p, w)
    PROVE  \E t : RunInv(t) /\ scan' = [scan EXCEPT ![p] = t]
<1>1. PICK s : s = scan[p]
  OBVIOUS
<1>2. s.stage = "scan" /\ Scanner!Parallel(s) /\ s.at[w] \in DOMAIN s.list
  BY <1>1 DEF Scanner!ReadsClaimed
<1> DEFINE n == Len(s.list)
           b == s.at[w]
           c == Content[s.list[b].oid]
           x == IF c.class = "text" THEN b + n ELSE 0
           total == IF c.class = "text" THEN s.total + c.size ELSE s.total
           t == IF c.class = "text" THEN [s EXCEPT !.total = @ + c.size, !.at[w] = @ + n]
                ELSE [s EXCEPT !.at[w] = 0]
<1>3. scan' = [scan EXCEPT ![p] = t]
  BY <1>1 DEF Scanner!ReadsClaimed, Scanner!Sets
<1>4. /\ RunType(s) /\ Held(s) /\ FoundOnce(s) /\ IsASeq(s.hits)
      /\ DOMAIN s = RunFields /\ s.total \in Nat /\ s.next \in Nat \ {0} /\ n \in Nat
      /\ s.at \in [Workers -> Int] /\ s.req.cap \in Nat
      /\ b \in 1..n /\ c.size \in Nat
  <2>1. s.list \in Seq(Blobs)
    BY <1>1, <1>2, ParallelFacts
  <2>2. b \in 1..n
    BY <1>2, <2>1
  <2> QED
    BY <1>1, <1>2, <2>2, ParallelFacts
<1>5. /\ DOMAIN t = RunFields /\ t.stage = "scan" /\ t.req = s.req /\ t.hidden = s.hidden
      /\ t.list = s.list /\ t.frames = s.frames /\ t.entries = s.entries /\ t.hits = s.hits
      /\ t.total = total /\ t.next = s.next /\ t.at = [s.at EXCEPT ![w] = x]
  <2>1. CASE c.class = "text"
    BY <1>2, <1>4, <2>1 DEF RunFields
  <2>2. CASE c.class # "text"
    BY <1>2, <1>4, <2>2 DEF RunFields
  <2> QED
    BY <2>1, <2>2
<1> HIDE DEF t
<1>6. /\ x \in (-1)..(2 * n) /\ x # -1 /\ total \in Nat /\ s.total <= total
      /\ x > 0 => x = b + n /\ c.class = "text"
  <2> HIDE DEF c, b
  <2> QED
    BY <1>4
<1>7. BlobOf(s, b) = b /\ b > 0 /\ b < s.next /\ (x > 0 => BlobOf(s, x) = b)
  <2>1. BlobOf(s, b) = b /\ b > 0
    <3> HIDE DEF b
    <3> QED
      BY <1>4 DEF BlobOf
  <2>2. BlobOf(s, b) < s.next
    BY <1>4, <2>1 DEF Held
  <2>3. x > 0 => BlobOf(s, x) = b
    <3> HIDE DEF b, x, c
    <3> QED
      BY <1>4, <1>6 DEF BlobOf
  <2> QED
    BY <2>1, <2>2, <2>3
<1>8. \A v \in Workers \ {w} : s.at[v] > 0 => BlobOf(s, s.at[v]) # b
  BY <1>4, <1>7 DEF Held
<1> HIDE DEF x, total
<1>9. Held(t) /\ t.at \in [Workers -> Int] /\ t.at[w] = x /\ \A v \in Workers \ {w} : t.at[v] = s.at[v]
  <2>1. t.next \in Nat /\ s.next <= t.next /\ t.total \in Nat /\ s.total <= t.total
    BY <1>4, <1>5, <1>6
  <2>2. x > 0 => BlobOf(s, x) < t.next
    BY <1>5, <1>7
  <2>3. x > n => Content[s.list[BlobOf(s, x)].oid].class = "text"
    <3>1. x > n => x > 0
      BY <1>4, <1>6
    <3> QED
      BY <1>6, <1>7, <3>1
  <2>4. \A v \in Workers \ {w} : x > 0 /\ s.at[v] > 0 => BlobOf(s, s.at[v]) # BlobOf(s, x)
    BY <1>7, <1>8
  <2>5. Moves(s, t, w, x)
    BY <1>4, <1>5, <1>6, <2>1, <2>2, <2>3, <2>4 DEF Moves
  <2> QED
    BY <2>5, HeldMoves
<1>10. FoundOnce(t)
  <2> SUFFICES ASSUME total <= s.req.cap, NEW i \in 1..n
               PROVE  Scanner!FoundAt(s.hits, i) =
                        IF i < s.next /\ Unheld(t, i) THEN Yields(s.req, s.hidden, s.list, i) ELSE <<>>
    BY <1>5 DEF FoundOnce
  <2>0. s.total <= s.req.cap
    BY <1>4, <1>6
  <2>1. Scanner!FoundAt(s.hits, i) =
           IF i < s.next /\ Unheld(s, i) THEN Yields(s.req, s.hidden, s.list, i) ELSE <<>>
    BY <1>4, <2>0 DEF FoundOnce
  <2>2. CASE i = b
    <3>1. ~Unheld(s, i)
      BY <2>2 DEF Unheld
    <3>2. CASE c.class = "text"
      <4>1. t.at[w] = i + n
        BY <1>9, <2>2, <3>2 DEF x
      <4>2. ~Unheld(t, i)
        BY <1>5, <4>1 DEF Unheld
      <4> QED
        BY <2>1, <3>1, <4>2
    <3>3. CASE c.class # "text"
      <4>1. Yields(s.req, s.hidden, s.list, i) = <<>>
        BY <2>2, <3>3 DEF Yields
      <4> QED
        BY <2>1, <3>1, <4>1
    <3> QED
      BY <3>2, <3>3
  <2>3. CASE i # b
    <3>1. b \notin {i, i + n} /\ x \notin {i, i + n}
      <4> HIDE DEF b
      <4> QED
        BY <1>4, <1>6, <2>3 DEF x
    <3>3. Unheld(t, i) <=> Unheld(s, i)
      <4>1. \A v \in Workers : t.at[v] \in {i, i + n} <=> s.at[v] \in {i, i + n}
        <5> SUFFICES ASSUME NEW v \in Workers PROVE t.at[v] \in {i, i + n} <=> s.at[v] \in {i, i + n}
          OBVIOUS
        <5>1. CASE v = w
          BY <1>9, <3>1, <5>1
        <5>2. CASE v # w
          BY <1>9, <5>2
        <5> QED
          BY <5>1, <5>2
      <4> QED
        BY <1>5, <4>1 DEF Unheld
    <3> QED
      BY <2>1, <3>3
  <2> QED
    BY <2>2, <2>3
<1>11. RunInv(t)
  BY <1>2, <1>4, <1>5, <1>6, <1>9, <1>10, ParallelKeeps
<1> QED
  BY <1>3, <1>11

LEMMA RecordsHolds ==
    ASSUME NEW p \in Procs, RunInv(scan[p]), NEW w \in Workers, Scanner!Records(p, w)
    PROVE  \E t : RunInv(t) /\ scan' = [scan EXCEPT ![p] = t]
<1>1. PICK s : s = scan[p]
  OBVIOUS
<1>2. s.stage = "scan" /\ Scanner!Parallel(s) /\ s.at[w] > Len(s.list)
  BY <1>1 DEF Scanner!Records
<1> DEFINE n == Len(s.list)
           b == s.at[w] - n
           rules == Scanner!Detect(s.req, s.hidden, s.list[b])
           h == s.hits \o Scanner!Hit(b, rules)
           t == [s EXCEPT !.at[w] = 0, !.hits = h]
<1>3. scan' = [scan EXCEPT ![p] = t]
  BY <1>1 DEF Scanner!Records, Scanner!Sets
<1>4. /\ RunType(s) /\ Held(s) /\ FoundOnce(s) /\ IsASeq(s.hits)
      /\ DOMAIN s = RunFields /\ s.total \in Nat /\ s.next \in Nat \ {0} /\ n \in Nat
      /\ s.at \in [Workers -> Int] /\ s.req.cap \in Nat
  BY <1>1, <1>2, ParallelFacts
<1>5. IsASeq(h)
  BY <1>4, HitFacts
<1> HIDE DEF h
<1>6. /\ DOMAIN t = RunFields /\ t.stage = "scan" /\ t.req = s.req /\ t.hidden = s.hidden
      /\ t.list = s.list /\ t.frames = s.frames /\ t.entries = s.entries /\ t.hits = h
      /\ t.total = s.total /\ t.next = s.next /\ t.at = [s.at EXCEPT ![w] = 0]
  BY <1>2, <1>4 DEF RunFields
<1> HIDE DEF t
<1>7. s.at[w] \in Int /\ s.at[w] > 0 /\ BlobOf(s, s.at[w]) = b /\ b \in 1..n /\ b < s.next
      /\ Content[s.list[b].oid].class = "text"
  <2>1. s.at[w] \in (-1)..(2 * n) /\ s.at[w] \in Int
    BY <1>4 DEF Held
  <2>2. s.at[w] > 0 /\ b \in 1..n
    BY <1>2, <1>4, <2>1
  <2>3. BlobOf(s, s.at[w]) = b
    BY <1>2 DEF BlobOf
  <2>4. BlobOf(s, s.at[w]) < s.next /\ Content[s.list[BlobOf(s, s.at[w])].oid].class = "text"
    BY <1>2, <1>4, <2>2 DEF Held
  <2> HIDE DEF b
  <2> QED
    BY <2>1, <2>2, <2>3, <2>4
<1>8. \A v \in Workers \ {w} : s.at[v] > 0 => BlobOf(s, s.at[v]) # b
  <2> HIDE DEF b
  <2> QED
    BY <1>4, <1>7 DEF Held
<1>9. Held(t) /\ t.at \in [Workers -> Int] /\ t.at[w] = 0 /\ \A v \in Workers \ {w} : t.at[v] = s.at[v]
  <2>1. t.next \in Nat /\ s.next <= t.next /\ t.total \in Nat /\ s.total <= t.total
    BY <1>4, <1>6
  <2>2. 0 \in (-1)..(2 * n) /\ 0 # -1 /\ ~(0 > 0) /\ ~(0 > n)
    BY <1>4
  <2> QED
    <3>1. Moves(s, t, w, 0)
      BY <1>4, <1>6, <2>1, <2>2 DEF Moves
    <3> QED
      BY <3>1, HeldMoves
<1>10. FoundOnce(t)
  <2> SUFFICES ASSUME s.total <= s.req.cap, NEW i \in 1..n
               PROVE  Scanner!FoundAt(h, i) =
                        IF i < s.next /\ Unheld(t, i) THEN Yields(s.req, s.hidden, s.list, i) ELSE <<>>
    BY <1>6 DEF FoundOnce
  <2>1. Scanner!FoundAt(s.hits, i) =
           IF i < s.next /\ Unheld(s, i) THEN Yields(s.req, s.hidden, s.list, i) ELSE <<>>
    BY <1>4 DEF FoundOnce
  <2>2. CASE i = b
    <3>1. ~Unheld(s, i)
      <4>1. s.at[w] = b + n
        <5> DEFINE k == s.at[w]
        <5>1. k \in Int /\ b = k - n
          BY <1>7
        <5> HIDE DEF k, b
        <5>2. k = b + n
          BY <1>4, <5>1
        <5> QED
          BY <5>2 DEF k
      <4> HIDE DEF b
      <4> QED
        BY <2>2, <4>1 DEF Unheld
    <3>2. Scanner!FoundAt(h, i) = Scanner!Hit(b, rules)
      <4>1. Scanner!FoundAt(s.hits, i) = <<>>
        BY <2>1, <3>1
      <4> HIDE DEF b, rules
      <4> QED
        BY <1>4, <2>2, <4>1, FoundMore DEF h
    <3>3. Yields(s.req, s.hidden, s.list, i) = Scanner!Hit(b, rules)
      <4> HIDE DEF b
      <4> QED
        BY <1>7, <2>2 DEF Yields
    <3>4. Unheld(t, i)
      <4> SUFFICES ASSUME NEW v \in Workers, t.at[v] \in {i, i + n} PROVE FALSE
        BY <1>6 DEF Unheld
      <4> HIDE DEF b
      <4>1. v # w
        BY <1>4, <1>9
      <4>2. s.at[v] = t.at[v] /\ s.at[v] > 0
        BY <1>4, <1>9, <4>1
      <4>3. BlobOf(s, s.at[v]) = i
        BY <1>4, <4>2 DEF BlobOf
      <4> QED
        BY <1>8, <2>2, <4>1, <4>2, <4>3
    <3> QED
      <4> HIDE DEF b, rules
      <4> QED
        BY <1>7, <2>2, <3>2, <3>3, <3>4
  <2>3. CASE i # b
    <3>1. s.at[w] \notin {i, i + n} /\ 0 \notin {i, i + n}
      <4> DEFINE k == s.at[w]
      <4>1. k \in Int /\ b = k - n /\ k > n
        BY <1>2, <1>7
      <4> HIDE DEF k, b
      <4>2. k \notin {i, i + n} /\ 0 \notin {i, i + n}
        BY <1>4, <2>3, <4>1
      <4> QED
        BY <4>2 DEF k
    <3>2. Scanner!FoundAt(h, i) = Scanner!FoundAt(s.hits, i)
      <4> HIDE DEF b, rules
      <4> QED
        BY <1>4, <2>3, FoundMore DEF h
    <3>3. Unheld(t, i) <=> Unheld(s, i)
      <4>1. \A v \in Workers : t.at[v] \in {i, i + n} <=> s.at[v] \in {i, i + n}
        <5> SUFFICES ASSUME NEW v \in Workers PROVE t.at[v] \in {i, i + n} <=> s.at[v] \in {i, i + n}
          OBVIOUS
        <5>1. CASE v = w
          BY <1>9, <3>1, <5>1
        <5>2. CASE v # w
          BY <1>9, <5>2
        <5> QED
          BY <5>1, <5>2
      <4> QED
        BY <1>6, <4>1 DEF Unheld
    <3> QED
      BY <2>1, <3>2, <3>3
  <2> QED
    BY <2>2, <2>3
<1>11. RunInv(t)
  BY <1>2, <1>4, <1>5, <1>6, <1>9, <1>10, ParallelKeeps
<1> QED
  BY <1>3, <1>11

\* An entry of a tree is looked at: the frames, the hits and what was said go on together.
LEMMA TreeKeeps ==
    ASSUME NEW s, RunType(s), s.req.rev[1] = "dir",
           NEW t, DOMAIN t = RunFields, t.stage = "scan", t.req = s.req, t.list = s.list,
           t.next = s.next, t.at = s.at, t.entries = s.entries, IsASeq(t.hits), TreeInv(t)
    PROVE  RunInv(t)
<1>1. RunType(t)
  BY DEF RunType
<1>2. ~Scanner!Parallel(t)
  BY DEF Scanner!Parallel
<1> QED
  BY <1>1, <1>2 DEF RunInv, Found, ParallelInv, SerialInv

\* A step of a walk that adds no directory: the frames lose an entry that is done with, or
\* an empty frame.
LEMMA WalkHolds ==
    ASSUME NEW p \in Procs, RunInv(scan[p]), Scanner!WalkEntry(p)
    PROVE  \E t : RunInv(t) /\ scan' = [scan EXCEPT ![p] = t]
<1> DEFINE s == scan[p]
<1>1. s = scan[p]
  OBVIOUS
<1>2. s.stage = "scan" /\ s.frames # <<>>
  BY DEF Scanner!WalkEntry
<1> HIDE DEF s
<1>3. RunType(s) /\ IsASeq(s.hits) /\ TreeInv(s)
  BY <1>1, <1>2 DEF RunInv, Found
<1>4. s.req.rev[1] = "dir" /\ s.req \in Requests /\ DOMAIN s = RunFields /\ MaxWalkDepth \in Nat
  BY <1>2, <1>3, RequestFacts DEF RunType
<1> DEFINE fs == s.frames
           n == Len(fs)
           IsTrue(h) == \E f \in Scanner!FilesUnder(s.req, s.req.rev[2]) :
                 Tells(s, f) /\ h = [at |-> f.path, rules |-> Scanner!Detect(s.req, s.hidden, f)]
<1>5. /\ IsASeq(fs) /\ n <= MaxWalkDepth + 1
      /\ \A k \in 1..n : fs[k] \subseteq EntriesAt(s.req, n - k)
      /\ \A h \in Scanner!Range(s.hits) : IsTrue(h)
      /\ "truncated" \notin s.said => \E W : Seen(s, W)
  BY <1>3, <1>4 DEF TreeInv
<1>6. /\ n \in Nat /\ n > 0 /\ Head(fs) = fs[1] /\ IsASeq(Tail(fs)) /\ Len(Tail(fs)) = n - 1
      /\ \A i \in 1..(n - 1) : Tail(fs)[i] = fs[i + 1]
  BY <1>2, <1>5, TailFacts
<1> HIDE DEF n, fs, IsTrue
\* What the frames below the first keep.
<1>7. ASSUME NEW u, u = Tail(fs)
      PROVE  /\ IsASeq(u) /\ Len(u) <= MaxWalkDepth + 1
             /\ \A k \in 1..Len(u) : u[k] \subseteq EntriesAt(s.req, Len(u) - k)
  <2>1. Len(u) = n - 1 /\ Len(u) \in Nat /\ Len(u) <= MaxWalkDepth + 1
    BY <1>4, <1>5, <1>6, <1>7
  <2>2. ASSUME NEW k \in 1..Len(u) PROVE u[k] \subseteq EntriesAt(s.req, Len(u) - k)
    <3>1. k \in 1..(n - 1) /\ k + 1 \in 1..n /\ Len(u) - k = n - (k + 1)
      BY <1>6, <2>1
    <3>2. u[k] = fs[k + 1]
      BY <1>6, <1>7, <3>1
    <3> QED
      BY <1>5, <3>1, <3>2
  <2> QED
    BY <1>6, <1>7, <2>1, <2>2
<1>8. CASE Head(fs) = {}
  <2> DEFINE t == [s EXCEPT !.frames = Tail(@)]
  <2>1. scan' = [scan EXCEPT ![p] = t]
    BY <1>1, <1>8 DEF Scanner!WalkEntry, Scanner!Sets, fs
  <2>2. /\ DOMAIN t = RunFields /\ t.stage = "scan" /\ t.req = s.req /\ t.hidden = s.hidden
        /\ t.list = s.list /\ t.next = s.next /\ t.at = s.at /\ t.entries = s.entries
        /\ t.hits = s.hits /\ t.said = s.said /\ t.frames = Tail(fs)
    BY <1>2, <1>4 DEF RunFields, fs
  <2> HIDE DEF t
  <2>3. ASSUME NEW W, Seen(s, W) PROVE Seen(t, W)
    <3>1. \A m, d, e : DoneWith(t, W, m, e) <=> DoneWith(s, W, m, e)
      BY <2>2 DEF DoneWith, Tells, IsTold
    <3>2. ASSUME NEW m \in 0..MaxWalkDepth, NEW d \in W[m], NEW e \in Dirs[d],
                 m < n, e \in fs[n - m]
          PROVE  m < n - 1 /\ e \in Tail(fs)[(n - 1) - m]
      <4>1. n - m # 1
        BY <1>6, <1>8, <3>2
      <4>2. m < n - 1 /\ (n - 1) - m \in 1..(n - 1) /\ ((n - 1) - m) + 1 = n - m
        BY <1>6, <3>2, <4>1
      <4> QED
        BY <1>6, <3>2, <4>2
    <3>3. DOMAIN W = 0..MaxWalkDepth /\ s.req.rev[2] \in W[0]
      BY <2>3 DEF Seen
    <3>4. ASSUME NEW m \in 0..MaxWalkDepth, NEW d \in W[m], NEW e \in Dirs[d]
          PROVE  \/ m < Len(t.frames) /\ e \in t.frames[Len(t.frames) - m]
                 \/ DoneWith(t, W, m, e)
      <4>1. (m < n /\ e \in fs[n - m]) \/ DoneWith(s, W, m, e)
        BY <2>3 DEF Seen, n, fs
      <4> QED
        BY <1>6, <2>2, <3>1, <3>2, <4>1
    <3> QED
      BY <2>2, <3>3, <3>4 DEF Seen
  <2>4. "truncated" \notin t.said => \E W : Seen(t, W)
    BY <1>5, <2>2, <2>3
  <2>5. \A h \in Scanner!Range(t.hits) :
              \E f \in Scanner!FilesUnder(t.req, t.req.rev[2]) :
                 Tells(t, f) /\ h = [at |-> f.path, rules |-> Scanner!Detect(t.req, t.hidden, f)]
    BY <1>5, <2>2 DEF IsTrue, Tells
  <2>6. TreeInv(t)
    BY <1>7, <2>2, <2>4, <2>5 DEF TreeInv
  <2> QED
    BY <1>3, <1>4, <2>1, <2>2, <2>6, TreeKeeps
<1>9. CASE Head(fs) # {}
  <2> DEFINE to(entry) ==
               LET on == [s EXCEPT !.frames[1] = @ \ {entry}]
                   kind == Scanner!Stat(s.req, entry)
                   b == entry.to
               IN CASE kind = "dir" /\ Len(s.frames) > MaxWalkDepth ->
                         [on EXCEPT !.said = @ \cup {"truncated"}]
                    [] kind = "dir" /\ Len(s.frames) <= MaxWalkDepth ->
                         [on EXCEPT !.frames = <<Dirs[entry.to]>> \o @]
                    [] kind = "file" /\ Content[b.oid].class = "text" ->
                         LET total == s.total + Content[b.oid].size
                         IN IF total > s.req.cap
                            THEN [s EXCEPT !.total = total, !.frames = Tail(@),
                                           !.said = @ \cup {"truncated"}]
                            ELSE [on EXCEPT !.total = total,
                                    !.hits = @ \o Scanner!Hit(b.path, Scanner!Detect(s.req, s.hidden, b))]
                    [] OTHER -> on
  <2>1. PICK entry \in Head(fs) : scan' = [scan EXCEPT ![p] = to(entry)]
    BY <1>9, Zenon DEF Scanner!WalkEntry, Scanner!Sets, fs, s
  <2> DEFINE on == [s EXCEPT !.frames[1] = @ \ {entry}]
             kind == Scanner!Stat(s.req, entry)
             b == entry.to
             total == s.total + Content[b.oid].size
             rules == Scanner!Detect(s.req, s.hidden, b)
             x == fs[1] \ {entry}
             gs == [fs EXCEPT ![1] = x]
             t == to(entry)
  <2>2. /\ DOMAIN on = RunFields /\ on.stage = "scan" /\ on.req = s.req /\ on.hidden = s.hidden
        /\ on.list = s.list /\ on.next = s.next /\ on.at = s.at /\ on.entries = s.entries
        /\ on.hits = s.hits /\ on.said = s.said /\ on.frames = gs
    BY <1>2, <1>4 DEF RunFields, fs
  <2>3. /\ IsASeq(gs) /\ Len(gs) = n /\ gs[1] = x
        /\ \A i \in 1..n : i # 1 => gs[i] = fs[i]
    <3>1. IsASeq(fs) /\ fs # <<>>
      BY <1>2, <1>5 DEF fs
    <3> HIDE DEF x
    <3> QED
      BY ONLY <3>1, FirstFacts DEF n
  <2>4. entry \in fs[1] /\ x \subseteq fs[1] /\ \A e \in fs[1] : e = entry \/ e \in x
    BY <1>6, <2>1
  <2> HIDE DEF x, on, gs
  <2>5. \A k \in 1..n : gs[k] \subseteq EntriesAt(s.req, n - k)
    BY <1>5, <1>6, <2>3, <2>4
  <2>6. n - 1 \in 0..MaxWalkDepth /\ entry \in EntriesAt(s.req, n - 1)
    <3>1. 1 \in 1..n /\ n - 1 \in 0..MaxWalkDepth
      BY <1>4, <1>5, <1>6
    <3> QED
      BY <1>5, <2>4, <3>1
\* A step that leaves no directory, with the entry done with.
  <2>7. ASSUME NEW u, u.req = s.req, u.hidden = s.hidden, u.frames = gs,
               Scanner!Range(s.hits) \subseteq Scanner!Range(u.hits),
               NEW W, Seen(s, W), DoneWith(u, W, n - 1, entry)
        PROVE  Seen(u, W)
    <3>1. \A m \in 0..MaxWalkDepth : \A e : DoneWith(s, W, m, e) => DoneWith(u, W, m, e)
      BY <2>7 DEF DoneWith, Tells, IsTold
    <3>2. DOMAIN W = 0..MaxWalkDepth /\ s.req.rev[2] \in W[0]
      BY <2>7 DEF Seen
    <3>3. ASSUME NEW m \in 0..MaxWalkDepth, NEW d \in W[m], NEW e \in Dirs[d]
          PROVE  (m < n /\ e \in gs[n - m]) \/ DoneWith(u, W, m, e)
      <4>1. (m < n /\ e \in fs[n - m]) \/ DoneWith(s, W, m, e)
        BY <2>7 DEF Seen, n, fs
      <4>2. CASE m < n /\ e \in fs[n - m]
        <5>1. n - m \in 1..n
          BY <1>6, <4>2
        <5>2. CASE n - m # 1
          BY <2>3, <4>2, <5>1, <5>2
        <5>3. CASE n - m = 1
          <6>1. m = n - 1
            BY <1>6, <5>3
          <6>2. e = entry \/ e \in gs[n - m]
            BY <2>3, <2>4, <4>2, <5>3
          <6> QED
            BY <2>7, <4>2, <6>1, <6>2
        <5> QED
          BY <5>2, <5>3
      <4> QED
        BY <3>1, <4>1, <4>2
    <3> QED
      BY <2>3, <2>7, <3>2, <3>3 DEF Seen
  <2>8. CASE kind = "dir" /\ Len(fs) > MaxWalkDepth
    <3>1. t = [on EXCEPT !.said = @ \cup {"truncated"}]
      BY <1>4, <1>6, <2>8 DEF n, fs, on
    <3> HIDE DEF t
    <3>2. /\ DOMAIN t = RunFields /\ t.stage = "scan" /\ t.req = s.req /\ t.hidden = s.hidden
          /\ t.list = s.list /\ t.next = s.next /\ t.at = s.at /\ t.entries = s.entries
          /\ t.hits = s.hits /\ "truncated" \in t.said /\ t.frames = gs
      BY <2>2, <3>1 DEF RunFields
    <3>3. \A h \in Scanner!Range(t.hits) :
              \E f \in Scanner!FilesUnder(t.req, t.req.rev[2]) :
                 Tells(t, f) /\ h = [at |-> f.path, rules |-> Scanner!Detect(t.req, t.hidden, f)]
      BY <1>5, <3>2 DEF IsTrue, Tells
    <3>4. TreeInv(t)
      BY <1>5, <2>3, <2>5, <3>2, <3>3 DEF TreeInv
    <3>5. RunInv(t)
      BY <1>3, <1>4, <3>2, <3>4, TreeKeeps
    <3> QED
      BY <2>1, <3>5 DEF t
  <2>9. CASE kind = "dir" /\ ~(Len(fs) > MaxWalkDepth)
    <3>0. n <= MaxWalkDepth /\ n \in 0..MaxWalkDepth
      BY <1>4, <1>6, <2>9 DEF n
    <3> DEFINE all == Dirs[entry.to]
               hs == <<all>> \o gs
    <3>1. t = [on EXCEPT !.frames = <<all>> \o @]
      BY <2>9, <3>0 DEF fs, on, n
    <3> HIDE DEF t, hs
    <3>2. /\ DOMAIN t = RunFields /\ t.stage = "scan" /\ t.req = s.req /\ t.hidden = s.hidden
          /\ t.list = s.list /\ t.next = s.next /\ t.at = s.at /\ t.entries = s.entries
          /\ t.hits = s.hits /\ t.said = s.said /\ t.frames = hs
      <4>1. t = [on EXCEPT !.frames = hs]
        BY <2>2, <3>1 DEF hs
      <4> QED
        BY <2>2, <4>1 DEF RunFields
    <3> HIDE DEF all
    <3> USE DEF hs
    <3>3. IsASeq(<<all>>) /\ Len(<<all>>) = 1 /\ <<all>>[1] = all
      BY OneFacts
    <3>4. IsASeq(hs) /\ Len(hs) = n + 1 /\ hs[1] = all /\ \A i \in 1..n : hs[i + 1] = gs[i]
      <4> DEFINE one == <<all>>
      <4>1. IsASeq(one) /\ Len(one) = 1 /\ one[1] = all
        BY <3>3
      <4> HIDE DEF one
      <4>2. /\ IsASeq(one \o gs) /\ Len(one \o gs) = Len(one) + n
            /\ \A i \in 1..Len(one) : (one \o gs)[i] = one[i]
            /\ \A i \in 1..n : (one \o gs)[Len(one) + i] = gs[i]
        <5>1. /\ IsASeq(one \o gs) /\ Len(one \o gs) = Len(one) + Len(gs)
              /\ \A i \in 1..Len(one) : (one \o gs)[i] = one[i]
              /\ \A i \in 1..Len(gs) : (one \o gs)[Len(one) + i] = gs[i]
          <6>1. IsASeq(one) /\ IsASeq(gs)
            BY <2>3, <4>1
          <6> QED
            BY ONLY <6>1, ConcFacts
        <5> QED
          BY <2>3, <5>1
      <4>3. 1 \in 1..1 /\ \A i \in 1..n : 1 + i = i + 1
        OBVIOUS
      <4>4. Len(one) + n = n + 1
        BY <1>6, <4>1
      <4> QED
        BY <4>1, <4>2, <4>3, <4>4 DEF one
    <3> HIDE DEF hs
    <3>5. entry.to \in Levels(s.req, s.req.rev[2])[n]
      <4>1. n - 1 < MaxWalkDepth /\ (n - 1) + 1 = n
        BY <1>4, <1>6, <3>0
      <4> QED
        BY <1>4, <2>6, <2>9, <4>1, LevelFacts
    <3>6. all \subseteq EntriesAt(s.req, n)
      BY <3>5 DEF all, EntriesAt
    <3>7. \A k \in 1..(n + 1) : hs[k] \subseteq EntriesAt(s.req, (n + 1) - k)
      <4> SUFFICES ASSUME NEW k \in 1..(n + 1) PROVE hs[k] \subseteq EntriesAt(s.req, (n + 1) - k)
        OBVIOUS
      <4>1. CASE k = 1
        <5>1. (n + 1) - k = n
          BY <1>6, <4>1
        <5> QED
          BY <3>4, <3>6, <4>1, <5>1
      <4>2. CASE k # 1
        <5>1. k - 1 \in 1..n /\ (k - 1) + 1 = k /\ (n + 1) - k = n - (k - 1)
          BY <1>6, <4>2
        <5>2. hs[k] = gs[k - 1]
          BY <3>4, <5>1
        <5> QED
          BY <2>5, <5>1, <5>2
      <4> QED
        BY <4>1, <4>2
    <3>8. ASSUME NEW W, Seen(s, W) PROVE \E V : Seen(t, V)
      <4> DEFINE V == [W EXCEPT ![n] = @ \cup {entry.to}]
      <4>1. DOMAIN W = 0..MaxWalkDepth /\ s.req.rev[2] \in W[0]
        BY <3>8 DEF Seen
      <4>2. /\ DOMAIN V = 0..MaxWalkDepth /\ V[n] = W[n] \cup {entry.to}
            /\ \A m \in 0..MaxWalkDepth : m # n => V[m] = W[m]
        BY <3>0, <4>1
      <4> HIDE DEF V
      <4>3. \A m \in 0..MaxWalkDepth : W[m] \subseteq V[m]
        BY <4>2
      <4>4. s.req.rev[2] \in V[0]
        BY <1>4, <4>1, <4>3
      <4>5. \A m \in 0..MaxWalkDepth : \A e : DoneWith(s, W, m, e) => DoneWith(t, V, m, e)
        <5> SUFFICES ASSUME NEW m \in 0..MaxWalkDepth, NEW e, DoneWith(s, W, m, e) PROVE DoneWith(t, V, m, e)
          OBVIOUS
        <5>1. m < MaxWalkDepth => m + 1 \in 0..MaxWalkDepth
          BY <1>4
        <5> QED
          BY <3>2, <4>3, <5>1 DEF DoneWith, Tells, IsTold
      <4>6. DoneWith(t, V, n - 1, entry)
        <5>1. n - 1 < MaxWalkDepth /\ (n - 1) + 1 = n
          BY <1>4, <1>6, <3>0
        <5> QED
          BY <2>9, <3>2, <4>2, <5>1 DEF DoneWith
      <4>7. ASSUME NEW m \in 0..MaxWalkDepth, NEW d \in V[m], NEW e \in Dirs[d]
            PROVE  (m < n + 1 /\ e \in hs[(n + 1) - m]) \/ DoneWith(t, V, m, e)
        <5>1. CASE m = n /\ d = entry.to
          <6>1. m < n + 1 /\ (n + 1) - m = 1
            BY <1>6, <5>1
          <6> QED
            BY <3>4, <5>1, <6>1 DEF all
        <5>2. CASE ~(m = n /\ d = entry.to)
          <6>1. d \in W[m]
            BY <4>2, <5>2
          <6>2. (m < n /\ e \in fs[n - m]) \/ DoneWith(s, W, m, e)
            BY <3>8, <6>1 DEF Seen, n, fs
          <6>3. CASE m < n /\ e \in fs[n - m]
            <7>1. n - m \in 1..n /\ (n + 1) - m = (n - m) + 1 /\ m < n + 1
              BY <1>6, <6>3
            <7>2. hs[(n + 1) - m] = gs[n - m]
              BY <3>4, <7>1
            <7>3. CASE n - m # 1
              BY <2>3, <6>3, <7>1, <7>2, <7>3
            <7>4. CASE n - m = 1
              <8>1. m = n - 1
                BY <1>6, <7>4
              <8>2. e = entry \/ e \in gs[n - m]
                BY <2>3, <2>4, <6>3, <7>4
              <8> QED
                BY <4>6, <7>1, <7>2, <8>1, <8>2
            <7> QED
              BY <7>3, <7>4
          <6> QED
            BY <4>5, <6>2, <6>3
        <5> QED
          BY <5>1, <5>2
      <4>8. Seen(t, V)
        BY <3>2, <3>4, <4>2, <4>4, <4>7 DEF Seen
      <4> QED
        BY <4>8
    <3>9. "truncated" \notin t.said => \E V : Seen(t, V)
      BY <1>5, <3>2, <3>8
    <3>10. \A h \in Scanner!Range(t.hits) :
              \E f \in Scanner!FilesUnder(t.req, t.req.rev[2]) :
                 Tells(t, f) /\ h = [at |-> f.path, rules |-> Scanner!Detect(t.req, t.hidden, f)]
      BY <1>5, <3>2 DEF IsTrue, Tells
    <3>11. Len(hs) <= MaxWalkDepth + 1
      BY <1>4, <1>6, <3>0, <3>4
    <3>12. TreeInv(t)
      BY <3>2, <3>4, <3>7, <3>9, <3>10, <3>11 DEF TreeInv
    <3>13. RunInv(t)
      BY <1>3, <1>4, <3>2, <3>12, TreeKeeps
    <3> QED
      BY <2>1, <3>13 DEF t
  <2>10. CASE kind = "file" /\ Content[b.oid].class = "text" /\ total > s.req.cap
    <3>1. t = [s EXCEPT !.total = total, !.frames = Tail(@), !.said = @ \cup {"truncated"}]
      BY <2>10
    <3> HIDE DEF t, total
    <3>2. /\ DOMAIN t = RunFields /\ t.stage = "scan" /\ t.req = s.req /\ t.hidden = s.hidden
          /\ t.list = s.list /\ t.next = s.next /\ t.at = s.at /\ t.entries = s.entries
          /\ t.hits = s.hits /\ "truncated" \in t.said /\ t.frames = Tail(fs)
      BY <1>2, <1>4, <3>1 DEF RunFields, fs
    <3>3. \A h \in Scanner!Range(t.hits) :
              \E f \in Scanner!FilesUnder(t.req, t.req.rev[2]) :
                 Tells(t, f) /\ h = [at |-> f.path, rules |-> Scanner!Detect(t.req, t.hidden, f)]
      BY <1>5, <3>2 DEF IsTrue, Tells
    <3>4. TreeInv(t)
      BY <1>7, <3>2, <3>3 DEF TreeInv
    <3>5. RunInv(t)
      BY <1>3, <1>4, <3>2, <3>4, TreeKeeps
    <3> QED
      BY <2>1, <3>5 DEF t
  <2>11. CASE kind = "file" /\ Content[b.oid].class = "text" /\ ~(total > s.req.cap)
    <3> DEFINE h1 == s.hits \o Scanner!Hit(b.path, rules)
               hit == [at |-> b.path, rules |-> rules]
    <3>1. t = [on EXCEPT !.total = total, !.hits = @ \o Scanner!Hit(b.path, rules)]
      BY <2>11 DEF on
    <3> HIDE DEF t, total, to, kind
    <3>2. /\ DOMAIN t = RunFields /\ t.stage = "scan" /\ t.req = s.req /\ t.hidden = s.hidden
          /\ t.list = s.list /\ t.next = s.next /\ t.at = s.at /\ t.entries = s.entries
          /\ t.hits = h1 /\ t.said = s.said /\ t.frames = gs
      <4>1. t = [on EXCEPT !.total = total, !.hits = h1]
        BY <2>2, <3>1
      <4> HIDE DEF h1
      <4> QED
        BY <2>2, <4>1 DEF RunFields
    <3>3. /\ IsASeq(h1)
          /\ Scanner!Range(h1) = Scanner!Range(s.hits) \cup IF rules = {} THEN {} ELSE {hit}
      BY <1>3, HitFacts
    <3> HIDE DEF h1
    <3> USE DEF kind
    <3>4. b \in Scanner!FilesUnder(s.req, s.req.rev[2])
      BY <1>4, <2>6, <2>11, LevelFacts
    <3>5. \A h \in Scanner!Range(t.hits) :
              \E f \in Scanner!FilesUnder(t.req, t.req.rev[2]) :
                 Tells(t, f) /\ h = [at |-> f.path, rules |-> Scanner!Detect(t.req, t.hidden, f)]
      <4> SUFFICES ASSUME NEW h \in Scanner!Range(h1) PROVE IsTrue(h)
        BY <3>2 DEF IsTrue, Tells
      <4>1. CASE h \in Scanner!Range(s.hits)
        BY <1>5, <4>1
      <4>2. CASE h \notin Scanner!Range(s.hits)
        <5>1. rules # {} /\ h = hit
          BY <3>3, <4>2
        <5> QED
          BY <2>11, <3>4, <5>1 DEF IsTrue, Tells
      <4> QED
        BY <4>1, <4>2
    <3>6. ASSUME NEW W, Seen(s, W) PROVE Seen(t, W)
      <4>1. DoneWith(t, W, n - 1, entry)
        <5>1. Tells(t, b) => IsTold(t, b)
          BY <3>2, <3>3 DEF Tells, IsTold
        <5> QED
          BY <2>11, <3>2, <5>1 DEF DoneWith
      <4>2. Scanner!Range(s.hits) \subseteq Scanner!Range(t.hits)
        BY <3>2, <3>3
      <4> QED
        BY <2>7, <3>2, <3>6, <4>1, <4>2
    <3>7. "truncated" \notin t.said => \E V : Seen(t, V)
      BY <1>5, <3>2, <3>6
    <3>8. TreeInv(t)
      BY <1>5, <2>3, <2>5, <3>2, <3>5, <3>7 DEF TreeInv
    <3>9. RunInv(t)
      BY <1>3, <1>4, <3>2, <3>3, <3>8, TreeKeeps
    <3> QED
      BY <2>1, <3>9 DEF t
  <2>12. CASE kind # "dir" /\ ~(kind = "file" /\ Content[b.oid].class = "text")
    <3>1. t = on
      BY <2>12 DEF on
    <3>2. \A h \in Scanner!Range(on.hits) :
              \E f \in Scanner!FilesUnder(on.req, on.req.rev[2]) :
                 Tells(on, f) /\ h = [at |-> f.path, rules |-> Scanner!Detect(on.req, on.hidden, f)]
      BY <1>5, <2>2 DEF IsTrue, Tells
    <3>3. ASSUME NEW W, Seen(s, W) PROVE Seen(on, W)
      <4>1. DoneWith(on, W, n - 1, entry)
        BY <2>2, <2>12 DEF DoneWith, Tells
      <4> QED
        BY <2>2, <2>7, <3>3, <4>1
    <3>4. "truncated" \notin on.said => \E V : Seen(on, V)
      BY <1>5, <2>2, <3>3
    <3>5. TreeInv(on)
      BY <1>5, <2>2, <2>3, <2>5, <3>2, <3>4 DEF TreeInv
    <3>6. RunInv(on)
      BY <1>3, <1>4, <2>2, <3>5, TreeKeeps
    <3> QED
      BY <2>1, <3>1, <3>6
  <2> QED
    BY <2>8, <2>9, <2>10, <2>11, <2>12
<1> QED
  BY <1>8, <1>9

\* A tree that is walked to its end has told of all its files.
LEMMA TreeEnds ==
    ASSUME NEW s, s.req \in Requests, s.req.rev[1] = "dir", TreeInv(s), s.frames = <<>>,
           "truncated" \notin s.said
    PROVE  {[path |-> h.at, rules |-> h.rules] : h \in Scanner!Range(s.hits)} =
             {[path |-> b.path, rules |-> Scanner!Detect(s.req, s.hidden, b)] :
                b \in {f \in Scanner!FilesUnder(s.req, s.req.rev[2]) :
                         Content[f.oid].class = "text" /\ Scanner!Detect(s.req, s.hidden, f) # {}}}
<1> DEFINE L == Levels(s.req, s.req.rev[2])
           F == Scanner!FilesUnder(s.req, s.req.rev[2])
           as(f) == [at |-> f.path, rules |-> Scanner!Detect(s.req, s.hidden, f)]
           reported(f) == [path |-> f.path, rules |-> Scanner!Detect(s.req, s.hidden, f)]
<1>1. PICK W : Seen(s, W)
  BY DEF TreeInv
<1>2. /\ DOMAIN W = 0..MaxWalkDepth /\ s.req.rev[2] \in W[0] /\ MaxWalkDepth \in Nat
      /\ \A n \in 0..MaxWalkDepth : \A d \in W[n] : \A e \in Dirs[d] : DoneWith(s, W, n, e)
  <2>1. Len(s.frames) = 0 /\ \A n \in 0..MaxWalkDepth : ~(n < 0)
    BY RequestFacts, NoneFacts
  <2> QED
    BY <1>1, <2>1, RequestFacts DEF Seen
<1>10. /\ L[0] = {s.req.rev[2]}
       /\ \A n \in 0..(MaxWalkDepth - 1) : \A d \in L[n + 1] :
             \E e \in EntriesAt(s.req, n) : Scanner!Stat(s.req, e) = "dir" /\ d = e.to
  BY LevelFacts
<1> HIDE DEF L, F
<1> DEFINE T == {n \in Nat : n <= MaxWalkDepth => L[n] \subseteq W[n]}
<1>3. 0 \in T
  <2>1. L[0] \subseteq W[0]
    BY <1>2, <1>10
  <2> QED
    BY <2>1
<1>4. ASSUME NEW n \in Nat, n \in T PROVE n + 1 \in T
  <2> SUFFICES ASSUME n + 1 <= MaxWalkDepth, NEW d \in L[n + 1] PROVE d \in W[n + 1]
    OBVIOUS
  <2>1. n \in 0..(MaxWalkDepth - 1) /\ n \in 0..MaxWalkDepth /\ n <= MaxWalkDepth
    BY <1>2
  <2>2. PICK e \in EntriesAt(s.req, n) : Scanner!Stat(s.req, e) = "dir" /\ d = e.to
    BY <1>10, <2>1
  <2>3. PICK c \in L[n] : e \in Dirs[c]
    BY <2>2 DEF EntriesAt, L
  <2>4. c \in W[n]
    BY <1>4, <2>1, <2>3
  <2>5. DoneWith(s, W, n, e)
    BY <1>2, <2>1, <2>3, <2>4
  <2> QED
    BY <2>2, <2>5 DEF DoneWith
<1>5. Nat \subseteq T
  <2> HIDE DEF T
  <2> QED
    BY <1>3, <1>4, Induct
<1>6. ASSUME NEW f \in F, Tells(s, f) PROVE as(f) \in Scanner!Range(s.hits)
  <2>1. PICK n \in 0..MaxWalkDepth : \E e \in EntriesAt(s.req, n) :
           Scanner!Stat(s.req, e) = "file" /\ f = e.to
    BY LevelFacts DEF F
  <2>2. PICK e \in EntriesAt(s.req, n) : Scanner!Stat(s.req, e) = "file" /\ f = e.to
    BY <2>1
  <2>3. PICK c \in L[n] : e \in Dirs[c]
    BY <2>2 DEF EntriesAt, L
  <2>4. c \in W[n]
    <3>1. n \in Nat /\ n <= MaxWalkDepth
      BY <1>2
    <3> QED
      BY <1>5, <2>3, <3>1
  <2>5. DoneWith(s, W, n, e)
    BY <1>2, <2>3, <2>4
  <2> QED
    BY <1>6, <2>2, <2>5 DEF DoneWith, IsTold
<1>7. ASSUME NEW h \in Scanner!Range(s.hits) PROVE \E f \in F : Tells(s, f) /\ h = as(f)
  BY DEF TreeInv, F
<1>8. \A f : as(f).at = f.path /\ as(f).rules = Scanner!Detect(s.req, s.hidden, f)
  OBVIOUS
<1>9. {[path |-> h.at, rules |-> h.rules] : h \in Scanner!Range(s.hits)}
        = {reported(b) : b \in {f \in F : Tells(s, f)}}
  <2>1. ASSUME NEW h \in Scanner!Range(s.hits)
        PROVE  [path |-> h.at, rules |-> h.rules] \in {reported(b) : b \in {f \in F : Tells(s, f)}}
    <3>1. PICK f \in F : Tells(s, f) /\ h = as(f)
      BY <1>7
    <3>2. [path |-> h.at, rules |-> h.rules] = reported(f)
      BY <1>8, <3>1
    <3> HIDE DEF reported
    <3> QED
      BY <3>1, <3>2
  <2>2. ASSUME NEW f \in F, Tells(s, f)
        PROVE  reported(f) \in {[path |-> h.at, rules |-> h.rules] : h \in Scanner!Range(s.hits)}
    <3>1. as(f) \in Scanner!Range(s.hits)
      BY <1>6, <2>2
    <3>2. reported(f) = [path |-> as(f).at, rules |-> as(f).rules]
      BY <1>8
    <3> HIDE DEF reported, as
    <3> QED
      BY <3>1, <3>2
  <2> HIDE DEF reported
  <2> QED
    BY <2>1, <2>2
<1> QED
  BY <1>9 DEF Tells, F

\* A list that is read to its end has yielded what a scan of each blob yields.
LEMMA FreshIs ==
    ASSUME NEW req, NEW hidden, NEW list, list \in Seq(Blobs)
    PROVE  Scanner!Fresh(req, hidden, list) =
             IF req.cmd = "trace" THEN Scanner!OfTraced(list, UpTo(req, hidden, list, Len(list)))
             ELSE UpTo(req, hidden, list, Len(list))
<1>1. DOMAIN list = 1..Len(list)
  OBVIOUS
<1> QED
  BY <1>1 DEF Scanner!Fresh, UpTo, Yields

LEMMA EndScanHolds ==
    ASSUME NEW p \in Procs, RunInv(scan[p]), Scanner!EndScan(p)
    PROVE  \E t : RunInv(t) /\ scan' = [scan EXCEPT ![p] = t]
<1>1. PICK s : s = scan[p]
  OBVIOUS
<1>2. Scanner!Over(s)
  BY <1>1 DEF Scanner!EndScan
<1>3. s.stage = "scan" /\ s.frames = <<>>
  BY <1>2 DEF Scanner!Over
<1>4. RunType(s) /\ Found(s)
  BY <1>1, <1>3 DEF RunInv
<1> DEFINE stage == IF s.req.cache /\ s.dirty THEN "save" ELSE "report"
           t == [s EXCEPT !.hits = Scanner!Matches(s), !.stage = stage]
<1>5. scan' = [scan EXCEPT ![p] = t]
  BY <1>1 DEF Scanner!EndScan, Scanner!Sets
<1>6. /\ s.req \in Requests /\ s.list \in Seq(Blobs) /\ s.next \in Nat /\ Len(s.list) \in Nat
      /\ DOMAIN s = RunFields /\ s.at \in [Workers -> Int]
  BY <1>4 DEF RunType
<1>7. /\ DOMAIN t = RunFields /\ t.stage \in {"save", "report"} /\ t.req = s.req /\ t.hidden = s.hidden
      /\ t.list = s.list /\ t.next = s.next /\ t.at = s.at /\ t.entries = s.entries
      /\ t.total = s.total /\ t.frames = s.frames
      /\ t.hits = Scanner!Matches(s) /\ t.said = s.said
  BY <1>6 DEF RunFields
<1> HIDE DEF t
<1>8. RunType(t)
  BY <1>4, <1>7 DEF RunType
<1>9. Whole(t)
  <2> SUFFICES ASSUME ~s.req.cache, "truncated" \notin s.said, s.total <= s.req.cap PROVE Whole(t)
    BY <1>7 DEF Whole
  <2>1. CASE s.req.rev[1] = "dir"
    <3>1. t.hits = s.hits
      BY <1>6, <1>7, <2>1, RequestFacts DEF Scanner!Matches, Scanner!Sorted, Scanner!Parallel
    <3>2. TreeInv(s)
      BY <1>4 DEF Found
    <3>3. {[path |-> h.at, rules |-> h.rules] : h \in Scanner!Range(s.hits)} =
             {[path |-> b.path, rules |-> Scanner!Detect(s.req, s.hidden, b)] :
                b \in {f \in Scanner!FilesUnder(s.req, s.req.rev[2]) :
                         Content[f.oid].class = "text" /\ Scanner!Detect(s.req, s.hidden, f) # {}}}
      BY <1>3, <1>6, <2>1, <3>2, TreeEnds
    <3> QED
      BY <1>7, <2>1, <3>1, <3>3 DEF Whole
  <2>2. CASE s.req.rev[1] # "dir"
    <3>1. Scanner!Sorted(s) = UpTo(s.req, s.hidden, s.list, Len(s.list))
      <4>1. CASE ~Scanner!Parallel(s)
        <5>1. SerialInv(s) /\ s.next > Len(s.list)
          BY <1>2, <1>4, <4>1 DEF Found, Scanner!Over
        <5>2. s.next <= Len(s.list) + 1 /\ s.hits = UpTo(s.req, s.hidden, s.list, s.next - 1)
          BY <2>2, <4>1, <5>1 DEF SerialInv
        <5>3. s.next - 1 = Len(s.list)
          BY <1>6, <5>1, <5>2
        <5> QED
          BY <4>1, <5>2, <5>3 DEF Scanner!Sorted
      <4>2. CASE Scanner!Parallel(s)
        <5>1. Held(s) /\ FoundOnce(s) /\ \A w \in Workers : s.at[w] = -1
          BY <1>2, <1>4, <4>2 DEF Found, ParallelInv, Scanner!Over
        <5>2. PICK w \in Workers : TRUE
          BY <1>6, RequestFacts
        <5>3. s.req.cap \in Nat /\ s.total \in Nat
          BY <1>4, <1>6, <2>2, RequestFacts DEF RunType
        <5>4. s.next > Len(s.list)
          BY <5>1, <5>3 DEF Held
        <5>5. \A i \in 1..Len(s.list) : i < s.next /\ Unheld(s, i)
          <6> SUFFICES ASSUME NEW i \in 1..Len(s.list) PROVE i < s.next /\ Unheld(s, i)
            OBVIOUS
          <6>1. i < s.next /\ -1 \notin {i, i + Len(s.list)}
            BY <1>6, <5>4
          <6> QED
            BY <5>1, <6>1 DEF Unheld
        <5>6. \A i \in 1..Len(s.list) :
                 Scanner!FoundAt(s.hits, i) = Yields(s.req, s.hidden, s.list, i)
          BY <5>1, <5>5 DEF FoundOnce
        <5>7. DOMAIN s.list = 1..Len(s.list)
          BY <1>6
        <5>8. [i \in DOMAIN s.list |-> Scanner!FoundAt(s.hits, i)]
                = [i \in 1..Len(s.list) |-> Yields(s.req, s.hidden, s.list, i)]
          BY <5>6, <5>7
        <5> QED
          BY <4>2, <5>8 DEF Scanner!Sorted, UpTo
      <4> QED
        BY <4>1, <4>2
    <3>2. Scanner!Matches(s) = Scanner!Fresh(s.req, s.hidden, s.list)
      BY <1>6, <3>1, FreshIs DEF Scanner!Matches
    <3> QED
      BY <1>7, <2>2, <3>2 DEF Whole
  <2> QED
    BY <2>1, <2>2
<1>10. RunInv(t)
  BY <1>7, <1>8, <1>9 DEF RunInv
<1> QED
  BY <1>5, <1>10

\* What is reported stays, while it is saved, written down and given.
LEMMA ReportHolds ==
    ASSUME NEW s, RunInv(s), s.stage \notin {"idle", "done", "scan"}, NEW x, x # "scan"
    PROVE  RunInv([s EXCEPT !.stage = x])
<1> DEFINE t == [s EXCEPT !.stage = x]
<1>1. RunType(s) /\ Whole(s)
  BY DEF RunInv
<1>2. /\ DOMAIN t = RunFields /\ t.stage = x /\ t.req = s.req /\ t.hidden = s.hidden
      /\ t.list = s.list /\ t.next = s.next /\ t.at = s.at /\ t.entries = s.entries
      /\ t.total = s.total /\ t.frames = s.frames /\ t.hits = s.hits /\ t.said = s.said
  BY <1>1 DEF RunType, RunFields
<1> HIDE DEF t
<1>3. RunType(t)
  BY <1>1, <1>2 DEF RunType
<1>4. Whole(t)
  BY <1>1, <1>2 DEF Whole
<1>5. RunInv(t)
  BY <1>2, <1>3, <1>4 DEF RunInv
<1> QED
  BY <1>5 DEF t

LEMMA StopHolds == ASSUME NEW s, s.stage \in {"idle", "done"} PROVE RunInv(s)
  BY DEF RunInv

LEMMA BeginAnswers ==
    ASSUME NEW p \in Procs, Scanner!Begin(p)
    PROVE  \E t : RunInv(t) /\ scan' = [scan EXCEPT ![p] = t]
<1>1. PICK req \in Requests : \E t \in Scanner!Answers(req) : scan' = [scan EXCEPT ![p] = t]
  BY DEF Scanner!Begin
<1>2. PICK t \in Scanner!Answers(req) : scan' = [scan EXCEPT ![p] = t]
  BY <1>1
<1>3. t.stage = "done" \/ (~Scanner!Unresolved(req.rev) /\ t = Scanner!Begins(req))
  <2>1. CASE t = Scanner!GateAnswer(req)
    BY <2>1 DEF Scanner!GateAnswer, Scanner!Exits
  <2>2. CASE t = Scanner!CommandAnswer(req)
    BY <2>2 DEF Scanner!CommandAnswer, Scanner!Exits
  <2>3. CASE t = Scanner!Unlisted(req)
    BY <2>3 DEF Scanner!Unlisted, Scanner!Exits
  <2> QED
    BY <1>2, <2>1, <2>2, <2>3 DEF Scanner!Answers
<1>4. RunInv(t)
  BY <1>3, StopHolds, BeginHolds
<1> QED
  BY <1>2, <1>4

LEMMA RunStep ==
    ASSUME NEW p \in Procs, RunInv(scan[p]), Scanner!ScanStep(p)
    PROVE  \E t : RunInv(t) /\ scan' = [scan EXCEPT ![p] = t]
<1>1. CASE \E w \in Workers : Scanner!Claim(p, w) \/ Scanner!ReadsClaimed(p, w) \/ Scanner!Records(p, w)
  BY <1>1, ClaimHolds, ReadsHolds, RecordsHolds
<1>2. CASE Scanner!SaveBegins(p)
  <2>1. /\ scan[p].stage = "save"
        /\ \/ scan' = [scan EXCEPT ![p] = [scan[p] EXCEPT !.stage = "write"]]
           \/ scan' = [scan EXCEPT ![p] = [scan[p] EXCEPT !.stage = "report"]]
    BY <1>2 DEF Scanner!SaveBegins
  <2>2. RunInv([scan[p] EXCEPT !.stage = "write"]) /\ RunInv([scan[p] EXCEPT !.stage = "report"])
    BY <2>1, ReportHolds
  <2> QED
    BY <2>1, <2>2
<1>3. CASE Scanner!SaveEnds(p)
  <2>1. scan[p].stage = "write" /\ scan' = [scan EXCEPT ![p] = [scan[p] EXCEPT !.stage = "report"]]
    BY <1>3 DEF Scanner!SaveEnds
  <2>2. RunInv([scan[p] EXCEPT !.stage = "report"])
    BY <2>1, ReportHolds
  <2> QED
    BY <2>1, <2>2
<1>4. CASE Scanner!BaselineBegins(p)
  <2>1. scan[p].stage = "report" /\ scan' = [scan EXCEPT ![p] = [scan[p] EXCEPT !.stage = "baseline"]]
    BY <1>4 DEF Scanner!BaselineBegins
  <2>2. RunInv([scan[p] EXCEPT !.stage = "baseline"])
    BY <2>1, ReportHolds
  <2> QED
    BY <2>1, <2>2
<1>5. CASE Scanner!BaselineEnds(p)
  <2>1. scan[p].stage = "baseline" /\ scan' = [scan EXCEPT ![p] = [scan[p] EXCEPT !.stage = "done"]]
    BY <1>5 DEF Scanner!BaselineEnds
  <2>2. RunInv([scan[p] EXCEPT !.stage = "done"])
    BY <2>1, ReportHolds
  <2> QED
    BY <2>1, <2>2
<1>6. CASE Scanner!Finish(p)
  <2> DEFINE exit == IF scan[p].hits = <<>> THEN 0 ELSE 1
             t == [scan[p] EXCEPT !.stage = "done", !.exit = exit]
  <2>1. scan[p].stage = "report" /\ scan' = [scan EXCEPT ![p] = t]
    BY <1>6 DEF Scanner!Finish, Scanner!Sets
  <2>2. DOMAIN scan[p] = RunFields
    BY <2>1 DEF RunInv, RunType
  <2>3. t.stage = "done"
    BY <2>2 DEF RunFields
  <2> HIDE DEF t
  <2>4. RunInv(t)
    BY <2>3, StopHolds
  <2> QED
    BY <2>1, <2>4
<1>7. CASE Scanner!Dies(p) \/ Scanner!Again(p)
  <2>1. scan' = [scan EXCEPT ![p] = Scanner!Idle]
    BY <1>7 DEF Scanner!Dies, Scanner!Again, Scanner!Sets
  <2>2. RunInv(Scanner!Idle)
    BY StopHolds DEF Scanner!Idle
  <2> QED
    BY <2>1, <2>2
<1>8. CASE Scanner!WalkFails(p)
  <2>1. scan' = [scan EXCEPT ![p] = Scanner!Unlisted(scan[p].req)]
    BY <1>8 DEF Scanner!WalkFails, Scanner!Sets
  <2>2. RunInv(Scanner!Unlisted(scan[p].req))
    BY StopHolds DEF Scanner!Unlisted, Scanner!Exits
  <2> QED
    BY <2>1, <2>2
<1>9. CASE Scanner!Begin(p) \/ Scanner!ScanNext(p) \/ Scanner!WalkEntry(p) \/ Scanner!EndScan(p)
  BY <1>9, BeginAnswers, ScanNextHolds, WalkHolds, EndScanHolds
<1> QED
  BY <1>1, <1>2, <1>3, <1>4, <1>5, <1>6, <1>7, <1>8, <1>9 DEF Scanner!ScanStep

Runs == DOMAIN scan = Procs /\ \A p \in Procs : RunInv(scan[p])

LEMMA RunsStep ==
    ASSUME Runs, [Scanner!Next]_scans PROVE Runs'
<1>1. CASE scan' = scan
  BY <1>1 DEF Runs
<1>2. CASE Scanner!HookStep
  <2>1. scan' = scan
    BY <1>2 DEF Scanner!HookStep, Scanner!Installs, Scanner!InstallTruncates, Scanner!InstallWrites, Scanner!Uninstalls,
       Scanner!UninstallRestores, Scanner!HookCommandDies, Scanner!UserWritesHook,
       Scanner!UserDeletesHook, Scanner!HookSets
  <2> QED
    BY <1>1, <2>1
<1>3. CASE \E p \in Procs : Scanner!ScanStep(p)
  <2>1. PICK p \in Procs : Scanner!ScanStep(p)
    BY <1>3
  <2>2. RunInv(scan[p])
    BY DEF Runs
  <2>3. PICK t : RunInv(t) /\ scan' = [scan EXCEPT ![p] = t]
    BY <2>1, <2>2, RunStep
  <2>4. DOMAIN scan' = Procs /\ \A q \in Procs : scan'[q] = IF q = p THEN t ELSE scan[q]
    BY <2>3 DEF Runs
  <2> QED
    BY <2>3, <2>4 DEF Runs
<1>4. CASE UNCHANGED scans
  BY <1>1, <1>4 DEF scans
<1> QED
  BY <1>2, <1>3, <1>4 DEF Scanner!Next

\* scancmd.rs:437-442, 480-482: a scan that keeps to its budget and uses no cache reports
\* each finding of each blob or file it can read, in the order of the walk: for any number
\* of processes and threads, all histories, trees and requests, whatever the order of steps.
THEOREM ReportWhole == VettingSpec => [](scan # Void => Scanner!ReportIsWhole)
<1> DEFINE Good == scan # Void => Runs
<1>1. VettingInit => Good
  <2> SUFFICES ASSUME Scanner!Init PROVE Runs
    BY DEF VettingInit, ScansIdle
  <2>1. scan = [p \in Procs |-> Scanner!Idle]
    BY DEF Scanner!Init
  <2>2. RunInv(Scanner!Idle)
    BY StopHolds DEF Scanner!Idle
  <2> QED
    BY <2>1, <2>2 DEF Runs
<1>2. Good /\ [GateNext \/ ScansNext]_<<gate, scans>> => Good'
  <2> SUFFICES ASSUME Good, [GateNext \/ ScansNext]_<<gate, scans>>, scan' # Void PROVE Runs'
    OBVIOUS
  <2>1. CASE ScansNext
    <3>1. scan # Void /\ Scanner!Next
      BY <2>1 DEF ScansNext
    <3> QED
      BY <3>1, RunsStep
  <2>2. CASE GateNext \/ UNCHANGED <<gate, scans>>
    <3>1. UNCHANGED scans /\ scan' = scan
      BY <2>2 DEF GateNext, scans
    <3> QED
      BY <3>1, RunsStep
  <2> QED
    BY <2>1, <2>2
<1>3. Good => (scan # Void => Scanner!ReportIsWhole)
  <2> SUFFICES ASSUME Runs, NEW p \in Procs, Scanner!Reporting(scan[p])
               PROVE  Whole(scan[p])
    BY DEF Scanner!ReportIsWhole, Whole
  <2>1. RunInv(scan[p]) /\ scan[p].stage \notin {"idle", "done", "scan"}
    BY DEF Runs, Scanner!Reporting
  <2> QED
    BY <2>1 DEF RunInv
<1> HIDE DEF Good
<1> QED
  BY <1>1, <1>2, <1>3, PTL DEF VettingSpec
=============================================================================
