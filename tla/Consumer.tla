------------------------------ MODULE Consumer ------------------------------
(* What every source yields to: a callback that takes a fragment at a time *)
(* and may refuse one, which ends the scan.                                *)
EXTENDS Integers, Sequences

VARIABLES
  source,           \* "none", "files", "stdin" or "git"
  taken,            \* the fragments the consumer took
  result            \* "idle", "running", "ok" or "error"

consumerVars == <<source, taken, result>>

ConsumerInit == source = "none" /\ taken = <<>> /\ result = "idle"
Begins(s) == source = "none" /\ source' = s /\ result' = "running" /\ UNCHANGED taken
Running(s) == source = s /\ result = "running"

Yields(fragment) ==
  /\ \/ taken' = Append(taken, fragment) /\ UNCHANGED result
     \/ result' = "error" /\ UNCHANGED taken
  /\ UNCHANGED source
Ends(how) == result' = how /\ UNCHANGED <<source, taken>>
=============================================================================
