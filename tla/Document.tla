------------------------------ MODULE Document ------------------------------
(* What settings.json promises its users: an operation takes effect in one   *)
(* step, all of it or nothing, and the updates of several processes follow   *)
(* one another (settings.rs, mutate, with_lock, load_or_init).               *)
(*                                                                           *)
(* The promise of no lost update is kept up to the moment it can no longer   *)
(* be: when a lockfile has outlived LOCK_STALE, or load_or_init has written  *)
(* a default without the lock.  From then on a writer may replace what       *)
(* others wrote, but still only by a whole document that holds its own       *)
(* update and no update that was refused.                                    *)
CONSTANTS Writers, Readers, Initers

VARIABLES
    content,  \* "absent", "corrupt" or "whole"
    updates,  \* the writers whose update the document holds
    answer,   \* what each operation returned
    trusted   \* updates follow one another

dvars == <<content, updates, answer, trusted>>

Init ==
    /\ content \in {"absent", "corrupt", "whole"}
    /\ updates = {}
    /\ answer = [p \in Writers \cup Readers \cup Initers |-> "none"]
    /\ trusted = TRUE

Answer(p, result) ==
    answer[p] = "none" /\ answer' = [answer EXCEPT ![p] = result]

\* A document that cannot be read is nobody's to replace.
Update(p) ==
    /\ p \in Writers /\ trusted /\ content # "corrupt"
    /\ content' = "whole" /\ updates' = updates \cup {p}
    /\ Answer(p, "ok")
    /\ UNCHANGED trusted

Look(p) ==
    /\ p \in Readers \cup Initers
    /\ Answer(p, "ok")
    /\ UNCHANGED <<content, updates, trusted>>

Refuse(p) ==
    /\ Answer(p, "error")
    /\ UNCHANGED <<content, updates, trusted>>

\* The default that load_or_init writes is the end of the promise.
WriteDefault(p) ==
    /\ p \in Initers
    /\ content' = "whole" /\ updates' = {}
    /\ Answer(p, "ok")
    /\ trusted' = FALSE

Overwrite(p) ==
    /\ p \in Writers /\ ~trusted
    /\ content' = "whole"
    /\ updates' \in SUBSET {q \in Writers : q = p \/ answer[q] = "ok"} /\ p \in updates'
    /\ Answer(p, "ok")
    /\ UNCHANGED trusted

Outlived ==
    /\ trusted' = FALSE
    /\ UNCHANGED <<content, updates, answer>>

Next ==
    \/ \E p \in Writers \cup Readers \cup Initers :
          Update(p) \/ Look(p) \/ Refuse(p) \/ WriteDefault(p) \/ Overwrite(p)
    \/ Outlived

Spec == Init /\ [][Next]_dvars
=============================================================================
