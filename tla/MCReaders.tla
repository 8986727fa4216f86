------------------------------ MODULE MCReaders ------------------------------
(* Four components that decide on what they are given and share nothing,  *)
(* side by side: the enforcement gate and the scans (Vetting), the         *)
(* detection engine and the expression runtime.  The initial state says    *)
(* which one runs; the others stay idle.                                   *)
EXTENDS ReaderCases, Vetting

CONSTANTS Documents, Missing, Alphabet, Fragments, MaxSets,   \* of the engine
          Jobs                                                \* of the runtime

VARIABLES stage, config, asked, raw, segments, depth, todo, findings, report, texts
VARIABLES phase, job, text, ast, unknown, result

engine == <<stage, config, asked, raw, segments, depth, todo, findings, report, texts>>
runtime == <<phase, job, text, ast, unknown, result>>

D == INSTANCE Detect WITH phase <- stage, job <- asked, Jobs <- Fragments
E == INSTANCE Expr

EngineIdle == stage = None /\ config = None /\ asked = None /\ raw = None /\ segments = None /\ depth = None /\ todo = None
                /\ findings = None /\ report = None /\ texts = None
RuntimeIdle == phase = None /\ job = None /\ text = None /\ ast = None /\ unknown = None /\ result = None

Init ==
  \/ VettingInit /\ EngineIdle /\ RuntimeIdle
  \/ GateIdle /\ D!Init /\ RuntimeIdle /\ ScansIdle
  \/ GateIdle /\ EngineIdle /\ E!Init /\ ScansIdle
Next ==
  \/ GateNext /\ UNCHANGED <<engine, runtime>>
  \/ ScansNext /\ UNCHANGED <<engine, runtime>>
  \/ D!Next /\ UNCHANGED <<gate, runtime, scans>>
  \/ E!Next /\ UNCHANGED <<gate, engine, scans>>
Spec == Init /\ [][Next]_<<gate, engine, runtime, scans>>

\* Processes are alike, and so are threads.
Alike == Permutations(Procs) \cup Permutations(Workers)

\* Hook commands and scans share nothing; the third scan reads the cache that two left.
Plain == [request("history", "HEAD") EXCEPT !.cache = TRUE]
Busy == {p \in Procs : scan[p].stage # "idle"}
Apart ==
  scan # None =>
    /\ begun = 0 \/ hook.ops = 0
    /\ begun = 3 => Cardinality(Busy) <= 1 /\ \A p \in Busy : scan[p].req = Plain

\* The properties of the engine and the runtime; Vetting has those of the gate and the scans.

\* A finding lies where it is said to, however often the text was encoded around it.
LocationsAreTrue == stage # None => D!LocationsAreTrue
\* Nothing that a rule of the catalogue, its base included, finds is lost unless it is suppressed.
DetectionHolds == stage # None => D!TypeOK /\ D!NoSecretLost /\ D!ExtendKeepsRules
\* An expression means what its author wrote, in either dialect and however it nests, but
\* for the seven readings that Expr names, which the run has too.
MeaningIsKept == phase # None => E!MeaningIsKept
\* Names mean what binds them, are all known or all refused, and responses are read as JSON.
EvaluationHolds == phase # None => E!NamesResolve /\ E!BindingsAreSubstitutions /\ E!ResponsesAreRead
=============================================================================
