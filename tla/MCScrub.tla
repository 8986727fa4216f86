------------------------------- MODULE MCScrub -------------------------------
(* Two refs, two secrets, and the commands whose switches and scopes take      *)
(* different ways through the fence.                                           *)
EXTENDS Scrub

CONSTANTS Main, Side

RefSet == {Main, Side}
\* The same secret in both refs, or another in each.
StartSet ==
    {[r \in RefSet |-> [work |-> 0, secret |-> IF r = Main THEN {"key"} ELSE {x}]] :
        x \in Secrets}
HeadSet == {Main, Detached}

Plain(op) == [op |-> op, force |-> FALSE, dry |-> FALSE, backup |-> TRUE,
              all |-> FALSE, refs |-> {}, exclude |-> {}]
CommandSet ==
    {Plain(op) : op \in {"secret", "path", "rollback", "cleanup"}}
    \cup {[Plain("secret") EXCEPT !.refs = {Main}],
          [Plain("secret") EXCEPT !.exclude = {Side}],
          [Plain("secret") EXCEPT !.refs = RefSet, !.exclude = {Side}],
          [Plain("secret") EXCEPT !.all = TRUE, !.exclude = {Side}, !.force = TRUE],
          [Plain("secret") EXCEPT !.dry = TRUE],
          [Plain("rollback") EXCEPT !.dry = TRUE],
          [Plain("path") EXCEPT !.backup = FALSE],
          [Plain("path") EXCEPT !.force = TRUE],
          [Plain("cleanup") EXCEPT !.backup = FALSE]}
==============================================================================
