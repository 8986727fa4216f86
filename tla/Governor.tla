------------------------------ MODULE Governor ------------------------------
(***************************************************************************)
(* The limits on validation requests (validation_limits.rs): a budget for  *)
(* each target, a rate for all requests and a rate for those of a rule.    *)
(* Workers share one limiter; each goes through it as its comments tell a  *)
(* transport to: look at the budget, wait for the rates, take from the     *)
(* budget, send, and again for each redirect.                              *)
(*                                                                         *)
(* Only differences of the clock matter: every instant is kept relative to *)
(* the present, 0, and Tick moves all of them into the past.               *)
(***************************************************************************)
EXTENDS Integers, FiniteSets, Sequences, SequencesExt

CONSTANTS
  Workers,
  Configs,      \* [max, rate, rules]: rules in the order of their names, [raw, rule, rate]
  Second,       \* ticks in a second
  LongestGap,   \* the longest interval that can be represented, in ticks
  Timeout,      \* of a chain of redirects, in ticks
  Urls,         \* [origin, scheme, host, port, raw]; a name is <<lowered, as written>>
  Findings,     \* [rule, url]: what a worker may be asked to validate
  MaxAsked,     \* findings in a scan
  MaxPause      \* ticks between a reading of the clock and the lock

VARIABLES
  limiter,  \* what `new` makes of a configuration
  state,    \* LimiterState: sent to each target, globalNext, ruleNext
  work,     \* work[w]: where worker w is with its finding
  asked,    \* findings handed out
  granted   \* of the properties: how often each origin was sent to, when a rule was last let go

(***************************************************************************)
(* Configuration.  A rate is a fraction <<n, d>>; <<-1, 0>> is none.       *)
(***************************************************************************)

Error == -1

Interval(rate) ==
  IF rate[1] < 0 \/ rate[2] <= 0 THEN Error
  ELSE IF rate[1] = 0 THEN 0
  ELSE LET ticks == (Second * rate[2]) \div rate[1]
       IN IF ticks > LongestGap \/ ticks = 0 THEN Error ELSE ticks

\* A rule's name is trimmed; of two that then agree the later holds.
RuleIntervals(rules) ==
  [r \in {rules[i].rule : i \in DOMAIN rules} |->
     Interval(rules[SelectLastInSeq(rules, LAMBDA x : x.rule = r)].rate)]

New(cfg) ==
  LET gap == Interval(cfg.rate)
      gaps == RuleIntervals(cfg.rules)
  IN CASE \/ cfg.max < 0 \/ gap = Error
          \/ \E i \in DOMAIN cfg.rules : cfg.rules[i].rule = "" \/ Interval(cfg.rules[i].rate) <= 0 ->
            [kind |-> "error"]
       [] cfg.max = 0 /\ gap = 0 /\ cfg.rules = <<>> -> [kind |-> "none"]
       [] OTHER -> [kind |-> "limiter", max |-> cfg.max, gap |-> gap, gaps |-> gaps]

Limits == IF limiter.kind = "limiter" THEN limiter ELSE [max |-> 0, gap |-> 0, gaps |-> <<>>]
GapOf(rule) == IF rule \in DOMAIN Limits.gaps THEN Limits.gaps[rule] ELSE 0

\* The origin: lowered, without the default port of its scheme.
Target(url) ==
  LET scheme == url.scheme[1]
      port == IF <<scheme, url.port>> \in {<<"https", "443">>, <<"http", "80">>} THEN "" ELSE url.port
      host == IF port = "" /\ url.host[1] = "" THEN url.raw[1] ELSE url.host[1]
  IN <<scheme, host, port>>

Targets == {Target(u) : u \in Urls}

(***************************************************************************)
(* A worker and its finding.                                               *)
(***************************************************************************)

Idle == [at |-> "idle"]
Window == LongestGap + MaxPause

Sets(w, s) == work' = [work EXCEPT ![w] = s] /\ UNCHANGED limiter
Moves(w, at) == Sets(w, [work[w] EXCEPT !.at = at])

Takes(w) ==
  /\ work[w].at = "idle" /\ asked < MaxAsked /\ limiter.kind # "error"
  /\ asked' = asked + 1
  /\ \E f \in Findings :
       Sets(w, [at |-> "look", rule |-> f.rule, url |-> f.url, left |-> Timeout, now |-> 0, wake |-> 0])
  /\ UNCHANGED <<state, granted>>

Spent(url) == Limits.max > 0 /\ state.sent[Target(url)] >= Limits.max

\* limit_hit: a look that takes nothing.
Looks(w) ==
  /\ work[w].at = "look"
  /\ Moves(w, IF Spent(work[w].url) THEN "refused" ELSE "wait")
  /\ UNCHANGED <<state, asked, granted>>

\* wait: a pass of its loop reads the clock and then locks the state.
ReadsClock(w) ==
  /\ work[w].at = "wait"
  /\ IF Limits.gap = 0 /\ GapOf(work[w].rule) = 0 THEN Moves(w, "admit")
     ELSE Sets(w, [work[w] EXCEPT !.at = "slot", !.now = 0])
  /\ UNCHANGED <<state, asked, granted>>

\* When the rates let a request of the rule go that was ready at now.
SendAt(rule, now) ==
  Max({now} \cup (IF Limits.gap > 0 THEN {state.globalNext} ELSE {})
            \cup (IF GapOf(rule) > 0 THEN {state.ruleNext[rule]} ELSE {}))

\* Mutant: the rate of a rule stands in for the rate of all.
ReserveOne(rule, now) ==
  IF GapOf(rule) > 0 THEN [state EXCEPT !.ruleNext[rule] = now + GapOf(rule)]
  ELSE [state EXCEPT !.globalNext = now + Limits.gap]

\* Only the present is reserved.
Reserve(rule, now) ==
  [state EXCEPT !.globalNext = IF Limits.gap > 0 THEN now + Limits.gap ELSE @,
                !.ruleNext = [r \in DOMAIN @ |-> IF r = rule THEN now + GapOf(r) ELSE @[r]]]

Slot(w) ==
  LET rule == work[w].rule
      now == work[w].now
      sendAt == SendAt(rule, now)
  IN /\ work[w].at = "slot"
     /\ IF sendAt <= now
        THEN /\ state' = Reserve(rule, now)
             /\ Sets(w, [work[w] EXCEPT !.at = "admit", !.now = 0])
             /\ granted' = [granted EXCEPT !.last[rule] = now]
        ELSE /\ Sets(w, [work[w] EXCEPT !.at = "sleep", !.now = 0, !.wake = sendAt - now])
             /\ UNCHANGED <<state, granted>>
     /\ UNCHANGED asked

\* Mutant: the wake-up is lost and the worker stays asleep.
StaysAsleep(w) ==
  work[w].at = "sleep" /\ work[w].wake = 0 /\ Moves(w, "sleep") /\ UNCHANGED <<state, asked, granted>>

Wakes(w) ==
  work[w].at = "sleep" /\ work[w].wake = 0 /\ Moves(w, "wait") /\ UNCHANGED <<state, asked, granted>>

\* Mutant: the look before the wait is trusted.
AdmitsAll(w) ==
  /\ work[w].at = "admit" /\ Moves(w, "send")
  /\ state' = [state EXCEPT !.sent[Target(work[w].url)] = @ + 1]
  /\ granted' = [granted EXCEPT !.sent[work[w].url.origin] = @ + IF Limits.max = 0 THEN 0 ELSE 1]
  /\ UNCHANGED asked

Admits(w) ==
  /\ work[w].at = "admit"
  /\ IF Spent(work[w].url) THEN Moves(w, "refused") /\ UNCHANGED <<state, granted>>
     ELSE /\ Moves(w, "send")
          /\ state' = IF Limits.max = 0 THEN state
                      ELSE [state EXCEPT !.sent[Target(work[w].url)] = @ + 1]
          /\ granted' = [granted EXCEPT !.sent[work[w].url.origin] = @ + IF Limits.max = 0 THEN 0 ELSE 1]
  /\ UNCHANGED asked

\* The provider answers, or redirects while the time of the chain lasts.
Sends(w) ==
  /\ work[w].at = "send"
  /\ \E elapsed \in 1..Timeout :
       LET left == Max({work[w].left - elapsed, 0})
       IN \/ Moves(w, IF left > 0 THEN "answered" ELSE "timed out")
          \/ /\ left > 0
             /\ \E url \in Urls :
                  Sets(w, [work[w] EXCEPT !.at = "look", !.url = url, !.left = left])
  /\ UNCHANGED <<state, asked, granted>>

Ends(w) ==
  /\ work[w].at \in {"answered", "timed out", "refused"}
  /\ Sets(w, Idle) /\ UNCHANGED <<state, asked, granted>>

\* An instant moves into the past, and stays where it no longer matters.
Past(i) == Max({i - 1, -(MaxPause + 1)})

Tick ==
  /\ \A w \in Workers : work[w].at = "slot" => work[w].now > -MaxPause
  /\ state' = [state EXCEPT !.globalNext = Past(@), !.ruleNext = [r \in DOMAIN @ |-> Past(@[r])]]
  /\ work' = [w \in Workers |->
       CASE work[w].at = "slot" -> [work[w] EXCEPT !.now = @ - 1]
         [] work[w].at = "sleep" -> [work[w] EXCEPT !.wake = Max({@ - 1, 0})]
         [] OTHER -> work[w]]
  /\ granted' = [granted EXCEPT !.last = [r \in DOMAIN @ |-> Max({@[r] - 1, -Window})]]
  /\ UNCHANGED <<limiter, asked>>

Init ==
  \E cfg \in Configs :
    /\ limiter = New(cfg)
    /\ state = [sent |-> [t \in Targets |-> 0], globalNext |-> 0,
                ruleNext |-> [r \in DOMAIN Limits.gaps |-> 0]]
    /\ work = [w \in Workers |-> Idle]
    /\ asked = 0
    /\ granted = [last |-> [r \in {f.rule : f \in Findings} |-> -Window], sent |-> [o \in {u.origin : u \in Urls} |-> 0]]

Step(w) ==
  \/ Takes(w) \/ Looks(w) \/ ReadsClock(w) \/ Slot(w) \/ Wakes(w)
  \/ Admits(w) \/ Sends(w) \/ Ends(w)

Next == Tick \/ \E w \in Workers : Step(w)

(***************************************************************************)
(* Properties.                                                             *)
(***************************************************************************)

\* validation_limits.rs:10-12, 303-305: however an origin is spelled and whichever workers
\* race for it, its budget is never overrun, and is spent when a request is refused.
BudgetHolds ==
  Limits.max > 0 =>
    /\ \A u \in Urls : granted.sent[u.origin] <= Limits.max
    /\ \A w \in Workers : work[w].at = "refused" => granted.sent[work[w].url.origin] = Limits.max

\* validation_limits.rs:13-15: the rate of a rule composes with the rate of all: no two
\* requests were ready within the gap of all, nor two of a rule within its own.
RatesCompose ==
  [][\A w \in Workers : work[w].at = "slot" /\ work'[w].at = "admit" =>
       \A rule \in DOMAIN granted.last :
         LET gap == IF rule = work[w].rule THEN Max({Limits.gap, GapOf(rule)}) ELSE Limits.gap
         IN gap > 0 => work[w].now - granted.last[rule] >= gap
    ]_<<limiter, state, work, asked, granted>>

\* validation_limits.rs:218-220: nobody waits for ever, however slow another rule is.
EveryoneIsAnswered ==
  \A w \in Workers : work[w].at = "look" ~> work[w].at \in {"answered", "timed out", "refused"}
=============================================================================
