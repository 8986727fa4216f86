---------------------------- MODULE ServicesProofs ----------------------------
(* What the services guarantee for any number of workers and processes and any *)
(* configuration.  They share no state, so each has an invariant of its own,   *)
(* that its own steps keep and the steps of the others leave alone.            *)
EXTENDS MCServices, FiniteSetTheorems, SequenceTheorems, WellFoundedInduction, TLAPS

\* The largest of finitely many integers.
LEMMA MaxFacts ==
    ASSUME NEW S, S \subseteq Int, IsFiniteSet(S), S # {}
    PROVE  V!Max(S) \in S /\ \A y \in S : V!Max(S) >= y
<1> DEFINE Above(y) == {z \in S : z > y}
           T == {Above(y) : y \in S}
           Smaller == StrictSubsetOrdering(S)
<1>1. IsWellFoundedOn(Smaller, SUBSET S)
  BY FS_FiniteSubsetsOfFinite, FS_StrictSubsetOrderingWellFounded, Zenon
<1>2. T \subseteq SUBSET S /\ T # {}
  OBVIOUS
<1>3. PICK t \in T : \A u \in T : <<u, t>> \notin Smaller
  <2> HIDE DEF Smaller, T
  <2> QED
    BY <1>1, <1>2, WFMin
<1>4. PICK x \in S : t = Above(x)
  OBVIOUS
<1>5. \A y \in S : x >= y
  <2> SUFFICES ASSUME NEW y \in S, y > x PROVE FALSE
    OBVIOUS
  <2>1. Above(y) \subseteq Above(x)
    <3> SUFFICES ASSUME NEW z \in S, z > y PROVE z > x
      OBVIOUS
    <3>1. x \in Int /\ y \in Int /\ z \in Int
      OBVIOUS
    <3> QED
      BY ONLY <3>1, z > y, y > x
  <2>2. y \in Above(x) /\ y \notin Above(y)
    OBVIOUS
  <2>3. Above(x) \in SUBSET S /\ Above(y) \in SUBSET S /\ Above(y) \in T
    OBVIOUS
  <2> HIDE DEF Above
  <2>4. <<Above(y), Above(x)>> \in Smaller
    BY <2>1, <2>2, <2>3 DEF StrictSubsetOrdering
  <2> QED
    BY <1>3, <1>4, <2>3, <2>4
<1> QED
  BY <1>4, <1>5 DEF V!Max

LEMMA ElementOf ==
    ASSUME NEW S, NEW s \in Seq(S), NEW i \in DOMAIN s
    PROVE  s[i] \in S
  OBVIOUS

LEMMA MaxOfTwo ==
    ASSUME NEW a \in Int, NEW b \in Int
    PROVE  V!Max({a, b}) = IF a >= b THEN a ELSE b
<1>1. IsFiniteSet({a, b})
  <2>1. IsFiniteSet({a})
    BY FS_Singleton
  <2>2. IsFiniteSet({a} \cup {b})
    BY <2>1, FS_AddElement
  <2> QED
    BY <2>2, {a, b} = {a} \cup {b}
<1> QED
  BY <1>1, MaxFacts

-----------------------------------------------------------------------------
(* The governor.                                                             *)

LEMMA GovernorConstants ==
    Second \in Nat /\ LongestGap \in Nat /\ Timeout \in Nat /\ MaxPause \in Nat
  BY GovernorAssumption

\* However it is spelled, an origin is one target and a target one origin.
LEMMA TargetIsOrigin ==
    ASSUME NEW u \in Urls, NEW v \in Urls
    PROVE  V!Target(u) = V!Target(v) <=> u.origin = v.origin
<1> DEFINE P(x) == IF <<x.scheme[1], x.port>> \in {<<"https", "443">>, <<"http", "80">>}
                   THEN "" ELSE x.port
<1>1. \A x \in Urls : V!Target(x) = <<x.scheme[1], x.host[1], P(x)>>
  BY GovernorAssumption DEF V!Target
<1>2. u.scheme[1] = v.scheme[1] => (P(u) = P(v) <=> Port(u) = Port(v))
  BY DEF Port
<1> HIDE DEF P
<1>3. u.origin = v.origin <=>
        u.scheme[1] = v.scheme[1] /\ u.host[1] = v.host[1] /\ Port(u) = Port(v)
  BY GovernorAssumption
<1> QED
  BY <1>1, <1>2, <1>3

\* An interval is a number of ticks that can be represented, or an error.
LEMMA IntervalFacts ==
    ASSUME NEW rate \in Int \X Int
    PROVE  V!Interval(rate) = V!Error \/ V!Interval(rate) \in 0..LongestGap
<1>1. PICK n \in Int, d \in Int : rate[1] = n /\ rate[2] = d
  OBVIOUS
<1>2. V!Interval(rate) =
        IF n < 0 \/ d <= 0 THEN V!Error
        ELSE IF n = 0 THEN 0
        ELSE IF (Second * d) \div n > LongestGap \/ (Second * d) \div n = 0 THEN V!Error
        ELSE (Second * d) \div n
  BY <1>1 DEF V!Interval
<1>3. CASE n < 0 \/ d <= 0 \/ n = 0
  <2>1. V!Interval(rate) \in {V!Error, 0}
    BY <1>2, <1>3
  <2> QED
    BY <2>1, GovernorConstants
<1>4. CASE n > 0 /\ d > 0
  <2>1. Second \in Nat
    BY GovernorConstants
  <2>2. Second * d \in Nat
    BY ONLY <1>4, <2>1, d \in Int
  <2>3. PICK m \in Nat : m = Second * d
    BY <2>2
  <2>4. m \div n \in Nat
    BY ONLY <1>4, n \in Int, m \in Nat
  <2> QED
    BY <1>2, <1>4, <2>3, <2>4, GovernorConstants
<1> QED
  BY <1>3, <1>4

Rules == {f.rule : f \in Findings}
Origins == {u.origin : u \in Urls}

\* What a configuration that is accepted limits.
LimitsOK ==
    /\ V!Limits.max \in Nat /\ V!Limits.gap \in 0..LongestGap
    /\ \A r \in DOMAIN V!Limits.gaps : V!Limits.gaps[r] \in 1..LongestGap

LEMMA NewLimits ==
    ASSUME NEW cfg \in Configs, limiter = V!New(cfg)
    PROVE  LimitsOK
<1>1. cfg.max \in Int /\ cfg.rate \in Int \X Int
      /\ cfg.rules \in Seq([raw : STRING, rule : STRING, rate : Int \X Int])
  BY GovernorAssumption
<1>2. CASE limiter.kind # "limiter"
  <2>1. V!Limits = [max |-> 0, gap |-> 0, gaps |-> <<>>]
    BY <1>2 DEF V!Limits
  <2> QED
    BY <2>1, GovernorConstants DEF LimitsOK
<1>3. CASE limiter.kind = "limiter"
  <2> DEFINE gap == V!Interval(cfg.rate)
             gaps == V!RuleIntervals(cfg.rules)
  <2>1. /\ limiter = [kind |-> "limiter", max |-> cfg.max, gap |-> gap, gaps |-> gaps]
        /\ ~(cfg.max < 0) /\ gap # V!Error
        /\ \A i \in DOMAIN cfg.rules : ~(V!Interval(cfg.rules[i].rate) <= 0)
    BY <1>3 DEF V!New
  <2>2. gap \in 0..LongestGap
    BY <1>1, <2>1, IntervalFacts
  <2>3. \A r \in DOMAIN gaps : gaps[r] \in 1..LongestGap
    <3> SUFFICES ASSUME NEW r \in DOMAIN gaps PROVE gaps[r] \in 1..LongestGap
      OBVIOUS
    <3> DEFINE Places == {i \in 1..Len(cfg.rules) : cfg.rules[i].rule = r}
               k == V!SelectLastInSeq(cfg.rules, LAMBDA x : x.rule = r)
    <3>1. DOMAIN cfg.rules = 1..Len(cfg.rules) /\ Len(cfg.rules) \in Nat
      BY <1>1
    <3>2. Places # {}
      BY <3>1 DEF V!RuleIntervals
    <3>3. k = V!Max(Places)
      BY <3>2 DEF V!SelectLastInSeq
    <3>4. IsFiniteSet(Places) /\ Places \subseteq Int
      <4>1. IsFiniteSet(1..Len(cfg.rules)) /\ Places \subseteq 1..Len(cfg.rules)
        BY <3>1, FS_Interval, 1 \in Int
      <4> QED
        BY <4>1, FS_Subset
    <3>5. k \in Places
      BY <3>2, <3>3, <3>4, MaxFacts
    <3>6. gaps[r] = V!Interval(cfg.rules[k].rate)
      BY DEF V!RuleIntervals
    <3> HIDE DEF k, gaps
    <3>7. cfg.rules[k].rate \in Int \X Int /\ k \in DOMAIN cfg.rules
      <4>1. k \in DOMAIN cfg.rules
        BY <3>1, <3>5
      <4>2. cfg.rules[k] \in [raw : STRING, rule : STRING, rate : Int \X Int]
        <5>1. cfg.rules \in Seq([raw : STRING, rule : STRING, rate : Int \X Int])
          BY <1>1
        <5> QED
          BY <4>1, <5>1, ElementOf
      <4> QED
        BY <4>1, <4>2
    <3>8. V!Interval(cfg.rules[k].rate) \in 0..LongestGap
      BY <2>1, <3>7, IntervalFacts DEF V!Error
    <3>9. LongestGap \in Nat
      BY GovernorConstants
    <3> QED
      BY <2>1, <3>6, <3>7, <3>8, <3>9
  <2>4. V!Limits = limiter
    BY <1>3 DEF V!Limits
  <2> HIDE DEF gap, gaps
  <2>5. /\ V!Limits.max = cfg.max /\ V!Limits.gap = gap /\ V!Limits.gaps = gaps
    BY <2>1, <2>4
  <2>6. V!Limits.max \in Nat
    BY <1>1, <2>1, <2>5
  <2> QED
    BY <2>2, <2>3, <2>5, <2>6 DEF LimitsOK
<1> QED
  BY <1>2, <1>3

Stages == {"look", "wait", "slot", "admit", "sleep", "send", "answered", "timed out", "refused"}
Task == [at : Stages, rule : Rules, url : Urls, left : Int, now : -MaxPause..0, wake : Int]

GovTypes ==
    /\ LimitsOK
    /\ state \in [sent : [V!Targets -> Nat], globalNext : Int,
                  ruleNext : [DOMAIN V!Limits.gaps -> Int]]
    /\ granted \in [last : [Rules -> Int], sent : [Origins -> Nat]]
    /\ work \in [Workers -> {V!Idle} \cup Task]

\* The limiter counts what was sent to an origin, however it was spelled; and a
\* budget a request was refused for is spent.
GovBudget ==
    V!Limits.max > 0 =>
        /\ \A u \in Urls : /\ granted.sent[u.origin] = state.sent[V!Target(u)]
                           /\ state.sent[V!Target(u)] <= V!Limits.max
        /\ \A w \in Workers : work[w].at = "refused" =>
              state.sent[V!Target(work[w].url)] = V!Limits.max

\* What is reserved is a gap after the last grant, unless that is so long ago that
\* no clock a worker has read is within the gap.
Clear(r, gap, next) ==
    granted.last[r] + gap <= next \/ granted.last[r] + gap <= -MaxPause
GovRates ==
    /\ V!Limits.gap > 0 => \A r \in Rules : Clear(r, V!Limits.gap, state.globalNext)
    /\ \A r \in Rules \cap DOMAIN V!Limits.gaps : Clear(r, V!Limits.gaps[r], state.ruleNext[r])

GovInv == GovTypes /\ GovBudget /\ GovRates

LEMMA GovernorInit == V!Init => GovInv
<1> SUFFICES ASSUME V!Init PROVE GovInv
  OBVIOUS
<1>1. PICK cfg \in Configs :
        /\ limiter = V!New(cfg)
        /\ state = [sent |-> [t \in V!Targets |-> 0], globalNext |-> 0,
                    ruleNext |-> [r \in DOMAIN V!Limits.gaps |-> 0]]
        /\ work = [w \in Workers |-> V!Idle]
        /\ granted = [last |-> [r \in Rules |-> -V!Window], sent |-> [o \in Origins |-> 0]]
  BY DEF V!Init, Rules, Origins
<1>2. LimitsOK
  BY <1>1, NewLimits
<1>3. V!Window = LongestGap + MaxPause /\ -V!Window \in Int
  BY GovernorConstants DEF V!Window
<1>4. GovTypes
  BY <1>1, <1>2, <1>3 DEF GovTypes
<1>5. GovBudget
  <2>1. \A u \in Urls : V!Target(u) \in V!Targets /\ u.origin \in Origins
    BY DEF V!Targets, Origins
  <2>2. V!Limits.max \in Nat
    BY <1>2 DEF LimitsOK
  <2>3. \A w \in Workers : work[w].at = "idle"
    BY <1>1 DEF V!Idle
  <2> QED
    BY <1>1, <2>1, <2>2, <2>3 DEF GovBudget
<1>6. GovRates
  <2>1. \A r \in Rules : granted.last[r] = -(LongestGap + MaxPause)
    BY <1>1, <1>3
  <2>2. \A g \in 0..LongestGap : -(LongestGap + MaxPause) + g <= -MaxPause
    BY GovernorConstants
  <2>3. V!Limits.gap \in 0..LongestGap
        /\ \A r \in DOMAIN V!Limits.gaps : V!Limits.gaps[r] \in 0..LongestGap
    BY <1>2, GovernorConstants DEF LimitsOK
  <2> QED
    BY <2>1, <2>2, <2>3 DEF GovRates, Clear
<1> QED
  BY <1>4, <1>5, <1>6 DEF GovInv

\* A step of a worker that takes nothing from the limiter.
LEMMA WorkKeeps ==
    ASSUME GovInv, UNCHANGED <<limiter, state, granted>>,
           NEW w \in Workers, NEW s \in {V!Idle} \cup Task,
           work' = [work EXCEPT ![w] = s],
           s.at = "refused" => V!Spent(s.url)
    PROVE  GovInv'
<1>1. V!Limits' = V!Limits
  BY DEF V!Limits
<1>2. GovTypes'
  BY <1>1 DEF GovInv, GovTypes, LimitsOK
<1>3. GovRates'
  BY <1>1 DEF GovInv, GovRates, Clear
<1>4. GovBudget'
  <2> SUFFICES ASSUME V!Limits.max > 0 PROVE GovBudget'
    BY <1>1 DEF GovBudget
  <2>1. \A x \in Workers : work'[x] = IF x = w THEN s ELSE work[x]
    BY DEF GovInv, GovTypes
  <2>2. s.at = "refused" => s.url \in Urls
    BY DEF Task, V!Idle
  <2>3. s.at = "refused" => state.sent[V!Target(s.url)] = V!Limits.max
    <3> SUFFICES ASSUME s.at = "refused" PROVE state.sent[V!Target(s.url)] = V!Limits.max
      OBVIOUS
    <3>1. V!Target(s.url) \in V!Targets
      BY <2>2 DEF V!Targets
    <3>2. state.sent[V!Target(s.url)] \in Nat /\ V!Limits.max \in Nat
      BY <3>1 DEF GovInv, GovTypes, LimitsOK
    <3>3. state.sent[V!Target(s.url)] <= V!Limits.max
      BY <2>2 DEF GovInv, GovBudget
    <3>4. state.sent[V!Target(s.url)] >= V!Limits.max
      BY DEF V!Spent
    <3> QED
      BY <3>2, <3>3, <3>4
  <2> QED
    BY <1>1, <2>1, <2>3 DEF GovInv, GovBudget
<1> QED
  BY <1>2, <1>3, <1>4 DEF GovInv

LEMMA BusyIsTask ==
    ASSUME GovTypes, NEW w \in Workers, work[w].at # "idle"
    PROVE  work[w] \in Task
  BY DEF GovTypes, V!Idle

LEMMA TakesKeeps == ASSUME GovInv, NEW w \in Workers, V!Takes(w) PROVE GovInv'
<1>1. PICK f \in Findings :
        work' = [work EXCEPT ![w] = [at |-> "look", rule |-> f.rule, url |-> f.url,
                                     left |-> Timeout, now |-> 0, wake |-> 0]]
  BY DEF V!Takes, V!Sets
<1> DEFINE s == [at |-> "look", rule |-> f.rule, url |-> f.url,
                 left |-> Timeout, now |-> 0, wake |-> 0]
<1>2. f.rule \in Rules /\ f.url \in Urls
  BY GovernorAssumption DEF Rules
<1>3. s \in Task
  BY <1>2, GovernorConstants DEF Task, Stages
<1>4. UNCHANGED <<limiter, state, granted>>
  BY DEF V!Takes, V!Sets
<1>5. s.at # "refused"
  OBVIOUS
<1> HIDE DEF s
<1> QED
  BY <1>1, <1>3, <1>4, <1>5, WorkKeeps DEF s

\* The steps that only move a worker on.
LEMMA MovesKeeps ==
    ASSUME GovInv, NEW w \in Workers, work[w].at # "idle", NEW at1 \in Stages,
           V!Moves(w, at1), UNCHANGED <<state, granted>>,
           at1 = "refused" => V!Spent(work[w].url)
    PROVE  GovInv'
<1> DEFINE s == [work[w] EXCEPT !.at = at1]
<1>1. work[w] \in Task
  BY BusyIsTask DEF GovInv
<1>2. s \in Task /\ s.at = at1 /\ s.url = work[w].url
  BY <1>1 DEF Task
<1>3. work' = [work EXCEPT ![w] = s] /\ limiter' = limiter
  BY DEF V!Moves, V!Sets
<1> HIDE DEF s
<1> QED
  BY <1>2, <1>3, WorkKeeps

LEMMA LooksKeeps == ASSUME GovInv, NEW w \in Workers, V!Looks(w) PROVE GovInv'
<1>1. work[w].at = "look" /\ UNCHANGED <<state, granted>>
  BY DEF V!Looks
<1>2. CASE V!Spent(work[w].url)
  BY <1>1, <1>2, MovesKeeps DEF V!Looks, Stages
<1>3. CASE ~V!Spent(work[w].url)
  BY <1>1, <1>3, MovesKeeps DEF V!Looks, Stages
<1> QED
  BY <1>2, <1>3

LEMMA ReadsClockKeeps == ASSUME GovInv, NEW w \in Workers, V!ReadsClock(w) PROVE GovInv'
<1>1. work[w].at = "wait" /\ UNCHANGED <<state, granted>>
  BY DEF V!ReadsClock
<1>2. CASE V!Moves(w, "admit")
  BY <1>1, <1>2, MovesKeeps DEF Stages
<1>3. CASE V!Sets(w, [work[w] EXCEPT !.at = "slot", !.now = 0])
  <2> DEFINE s == [work[w] EXCEPT !.at = "slot", !.now = 0]
  <2>1. work[w] \in Task
    BY <1>1, BusyIsTask DEF GovInv
  <2>2. s \in Task /\ s.at = "slot"
    <3>1. 0 \in -MaxPause..0
      BY GovernorConstants
    <3> QED
      BY <2>1, <3>1 DEF Task, Stages
  <2>3. work' = [work EXCEPT ![w] = s] /\ limiter' = limiter
    BY <1>3 DEF V!Sets
  <2> HIDE DEF s
  <2> QED
    BY <1>1, <2>2, <2>3, WorkKeeps
<1> QED
  BY <1>2, <1>3 DEF V!ReadsClock

LEMMA WakesKeeps == ASSUME GovInv, NEW w \in Workers, V!Wakes(w) PROVE GovInv'
  BY MovesKeeps DEF V!Wakes, Stages

LEMMA SendsKeeps == ASSUME GovInv, NEW w \in Workers, V!Sends(w) PROVE GovInv'
<1>1. work[w].at = "send" /\ UNCHANGED <<state, granted>>
  BY DEF V!Sends
<1>2. work[w] \in Task
  BY <1>1, BusyIsTask DEF GovInv
<1>3. PICK elapsed \in 1..Timeout :
        \/ V!Moves(w, IF V!Max({work[w].left - elapsed, 0}) > 0 THEN "answered" ELSE "timed out")
        \/ \E url1 \in Urls :
             V!Sets(w, [work[w] EXCEPT !.at = "look", !.url = url1,
                                       !.left = V!Max({work[w].left - elapsed, 0})])
  BY DEF V!Sends
<1> DEFINE left == V!Max({work[w].left - elapsed, 0})
<1>4. left \in Int
  <2>1. work[w].left - elapsed \in Int
    BY <1>2, GovernorConstants DEF Task
  <2> QED
    BY <2>1, MaxOfTwo
<1> HIDE DEF left
<1>5. CASE V!Moves(w, IF left > 0 THEN "answered" ELSE "timed out")
  <2>1. (IF left > 0 THEN "answered" ELSE "timed out") \in Stages \ {"refused"}
    BY DEF Stages
  <2> QED
    BY <1>1, <1>5, <2>1, MovesKeeps
<1>6. CASE \E url1 \in Urls :
             V!Sets(w, [work[w] EXCEPT !.at = "look", !.url = url1, !.left = left])
  <2>1. PICK url1 \in Urls :
             V!Sets(w, [work[w] EXCEPT !.at = "look", !.url = url1, !.left = left])
    BY <1>6
  <2> DEFINE s == [work[w] EXCEPT !.at = "look", !.url = url1, !.left = left]
  <2>2. s \in Task /\ s.at = "look"
    BY <1>2, <1>4 DEF Task, Stages
  <2>3. work' = [work EXCEPT ![w] = s] /\ limiter' = limiter
    BY <2>1 DEF V!Sets
  <2> HIDE DEF s
  <2> QED
    BY <1>1, <2>2, <2>3, WorkKeeps
<1> QED
  BY <1>3, <1>5, <1>6 DEF left

LEMMA EndsKeeps == ASSUME GovInv, NEW w \in Workers, V!Ends(w) PROVE GovInv'
<1>1. V!Idle.at # "refused"
  BY DEF V!Idle
<1> QED
  BY <1>1, WorkKeeps DEF V!Ends, V!Sets

\* The rates let a request go only if each that applies has its next slot.
LEMMA SendAtFacts ==
    ASSUME GovTypes, NEW rule, NEW now \in Int
    PROVE  /\ V!SendAt(rule, now) \in Int
           /\ V!SendAt(rule, now) >= now
           /\ V!Limits.gap > 0 => V!SendAt(rule, now) >= state.globalNext
           /\ V!GapOf(rule) > 0 => V!SendAt(rule, now) >= state.ruleNext[rule]
<1> DEFINE A == IF V!Limits.gap > 0 THEN {state.globalNext} ELSE {}
           B1 == IF V!GapOf(rule) > 0 THEN {state.ruleNext[rule]} ELSE {}
           S == {now} \cup A \cup B1
<1>1. V!SendAt(rule, now) = V!Max(S)
  BY DEF V!SendAt
<1>2. IsFiniteSet({now})
  BY FS_Singleton
<1>3. IsFiniteSet({now} \cup A)
  <2>1. A = {} \/ A = {state.globalNext}
    OBVIOUS
  <2> HIDE DEF A
  <2> QED
    BY <1>2, <2>1, FS_AddElement
<1>4. IsFiniteSet(S)
  <2>1. B1 = {} \/ B1 = {state.ruleNext[rule]}
    OBVIOUS
  <2> HIDE DEF A, B1
  <2> QED
    BY <1>3, <2>1, FS_AddElement
<1>5. S \subseteq Int
  <2>1. state.globalNext \in Int
    BY DEF GovTypes
  <2>2. V!GapOf(rule) > 0 => state.ruleNext[rule] \in Int
    BY DEF GovTypes, V!GapOf
  <2> QED
    BY <2>1, <2>2
<1>6. V!Max(S) \in S /\ \A y \in S : V!Max(S) >= y
  <2> HIDE DEF A, B1
  <2> QED
    BY <1>4, <1>5, MaxFacts
<1> QED
  BY <1>1, <1>5, <1>6

\* A slot that lets its worker go, of the rule it is for.
LEMMA SlotFacts ==
    ASSUME GovInv, NEW w \in Workers, V!Slot(w)
    PROVE  /\ work[w] \in Task /\ work[w].at = "slot" /\ limiter' = limiter
           /\ \/ /\ V!SendAt(work[w].rule, work[w].now) <= work[w].now
                 /\ state' = V!Reserve(work[w].rule, work[w].now)
                 /\ work' = [work EXCEPT ![w] = [work[w] EXCEPT !.at = "admit", !.now = 0]]
                 /\ granted' = [granted EXCEPT !.last[work[w].rule] = work[w].now]
              \/ /\ UNCHANGED <<state, granted>>
                 /\ work' = [work EXCEPT ![w] =
                       [work[w] EXCEPT !.at = "sleep", !.now = 0,
                          !.wake = V!SendAt(work[w].rule, work[w].now) - work[w].now]]
<1>1. work[w].at = "slot"
  BY DEF V!Slot
<1>2. work[w] \in Task
  BY <1>1, BusyIsTask DEF GovInv
<1> QED
  BY <1>1, <1>2 DEF V!Slot, V!Sets

\* What was granted to any rule is a gap before the clock of a worker that is let go.
LEMMA SlotIsClear ==
    ASSUME GovInv, NEW w \in Workers, work[w] \in Task,
           V!SendAt(work[w].rule, work[w].now) <= work[w].now
    PROVE  /\ V!Limits.gap > 0 =>
                \A r \in Rules : granted.last[r] + V!Limits.gap <= work[w].now
           /\ V!GapOf(work[w].rule) > 0 =>
                granted.last[work[w].rule] + V!GapOf(work[w].rule) <= work[w].now
<1> DEFINE rule == work[w].rule
           now == work[w].now
           gn == state.globalNext
           rn == state.ruleNext[rule]
           gap == V!Limits.gap
           rgap == V!GapOf(rule)
           sa == V!SendAt(rule, now)
<1>1. now \in -MaxPause..0 /\ rule \in Rules /\ MaxPause \in Nat
  BY GovernorConstants DEF Task
<1>2. now \in Int /\ -MaxPause \in Int /\ -MaxPause <= now
  BY <1>1
<1>3. /\ sa \in Int /\ (gap > 0 => sa >= gn) /\ (rgap > 0 => sa >= rn)
  BY <1>2, SendAtFacts DEF GovInv
<1>4. gap \in Int /\ gn \in Int /\ \A r \in Rules : granted.last[r] \in Int
  BY GovernorConstants DEF GovInv, GovTypes, LimitsOK
<1>5. rgap > 0 => rgap \in Int /\ rn \in Int /\ rule \in DOMAIN V!Limits.gaps
                  /\ rgap = V!Limits.gaps[rule]
  BY GovernorConstants DEF GovInv, GovTypes, LimitsOK, V!GapOf
<1>6. gap > 0 => \A r \in Rules : granted.last[r] + gap <= gn \/ granted.last[r] + gap <= -MaxPause
  BY DEF GovInv, GovRates, Clear
<1>7. rgap > 0 => granted.last[rule] + rgap <= rn \/ granted.last[rule] + rgap <= -MaxPause
  BY <1>1, <1>5 DEF GovInv, GovRates, Clear
<1> HIDE DEF rule, now, gn, rn, gap, rgap, sa
<1>8. sa <= now
  BY DEF sa, now, rule
<1>9. gap > 0 => \A r \in Rules : granted.last[r] + gap <= now
  <2> SUFFICES ASSUME gap > 0, NEW r \in Rules PROVE granted.last[r] + gap <= now
    OBVIOUS
  <2>1. granted.last[r] \in Int
    BY <1>4
  <2> QED
    BY <1>2, <1>3, <1>4, <1>6, <1>8, <2>1
<1>10. rgap > 0 => granted.last[rule] + rgap <= now
  BY <1>1, <1>2, <1>3, <1>4, <1>5, <1>7, <1>8
<1> QED
  BY <1>9, <1>10 DEF rule, now, gap, rgap

LEMMA SlotKeeps == ASSUME GovInv, NEW w \in Workers, V!Slot(w) PROVE GovInv'
<1> DEFINE rule == work[w].rule
           now == work[w].now
<1>1. work[w] \in Task /\ work[w].at = "slot" /\ limiter' = limiter
  BY SlotFacts
<1>2. now \in Int /\ rule \in Rules /\ 0 \in -MaxPause..0
  BY <1>1, GovernorConstants DEF Task
<1>3. CASE /\ UNCHANGED <<state, granted>>
           /\ work' = [work EXCEPT ![w] = [work[w] EXCEPT !.at = "sleep", !.now = 0,
                         !.wake = V!SendAt(rule, now) - now]]
  <2> DEFINE s == [work[w] EXCEPT !.at = "sleep", !.now = 0, !.wake = V!SendAt(rule, now) - now]
  <2>1. V!SendAt(rule, now) - now \in Int
    BY <1>2, SendAtFacts DEF GovInv
  <2>2. s \in Task /\ s.at = "sleep"
    BY <1>1, <1>2, <2>1 DEF Task, Stages
  <2> HIDE DEF s
  <2> QED
    BY <1>1, <1>3, <2>2, WorkKeeps DEF s
<1>4. CASE /\ V!SendAt(rule, now) <= now
           /\ state' = V!Reserve(rule, now)
           /\ work' = [work EXCEPT ![w] = [work[w] EXCEPT !.at = "admit", !.now = 0]]
           /\ granted' = [granted EXCEPT !.last[rule] = now]
  <2> DEFINE s == [work[w] EXCEPT !.at = "admit", !.now = 0]
  <2>1. s \in Task /\ s.at = "admit"
    BY <1>1, <1>2 DEF Task, Stages
  <2> HIDE DEF s
  <2>2. V!Limits' = V!Limits
    BY <1>1 DEF V!Limits
  <2>3. /\ V!Limits.gap \in Nat /\ \A r \in DOMAIN V!Limits.gaps : V!Limits.gaps[r] \in Nat
        /\ state.globalNext \in Int /\ state.ruleNext \in [DOMAIN V!Limits.gaps -> Int]
    BY GovernorConstants DEF GovInv, GovTypes, LimitsOK
  <2>4. /\ state'.sent = state.sent
        /\ state'.globalNext = IF V!Limits.gap > 0 THEN now + V!Limits.gap ELSE state.globalNext
        /\ state'.ruleNext = [r \in DOMAIN V!Limits.gaps |->
                                IF r = rule THEN now + V!Limits.gaps[r] ELSE state.ruleNext[r]]
        /\ state' \in [sent : [V!Targets -> Nat], globalNext : Int,
                       ruleNext : [DOMAIN V!Limits.gaps -> Int]]
    <3>1. state \in [sent : [V!Targets -> Nat], globalNext : Int,
                     ruleNext : [DOMAIN V!Limits.gaps -> Int]]
      BY DEF GovInv, GovTypes
    <3>2. \A r \in DOMAIN V!Limits.gaps : V!GapOf(r) = V!Limits.gaps[r]
      BY DEF V!GapOf
    <3>3. state' = [state EXCEPT
             !.globalNext = IF V!Limits.gap > 0 THEN now + V!Limits.gap ELSE state.globalNext,
             !.ruleNext = [r \in DOMAIN V!Limits.gaps |->
                             IF r = rule THEN now + V!Limits.gaps[r] ELSE state.ruleNext[r]]]
      BY <1>4, <2>3, <3>1, <3>2 DEF V!Reserve
    <3>4. now + V!Limits.gap \in Int /\ \A r \in DOMAIN V!Limits.gaps : now + V!Limits.gaps[r] \in Int
      BY <1>2, <2>3
    <3> HIDE DEF now, rule
    <3> QED
      BY <2>3, <3>1, <3>3, <3>4
  <2>5. /\ granted'.sent = granted.sent
        /\ granted'.last = [granted.last EXCEPT ![rule] = now]
        /\ granted' \in [last : [Rules -> Int], sent : [Origins -> Nat]]
    BY <1>2, <1>4 DEF GovInv, GovTypes
  <2>6. \A x \in Workers : work'[x] = IF x = w THEN s ELSE work[x]
    BY <1>4 DEF GovInv, GovTypes, s
  <2>7. GovTypes'
    <3>1. work' \in [Workers -> {V!Idle} \cup Task]
      BY <1>4, <2>1 DEF GovInv, GovTypes, s
    <3> QED
      BY <2>2, <2>4, <2>5, <3>1 DEF GovInv, GovTypes, LimitsOK
  <2>8. GovBudget'
    BY <2>1, <2>2, <2>4, <2>5, <2>6 DEF GovInv, GovBudget
  <2>9. V!Limits.gap > 0 => \A r \in Rules : granted'.last[r] + V!Limits.gap <= state'.globalNext
    <3> SUFFICES ASSUME V!Limits.gap > 0, NEW r \in Rules
                 PROVE  granted'.last[r] + V!Limits.gap <= state'.globalNext
      OBVIOUS
    <3>1. granted.last[r] + V!Limits.gap <= now
      BY <1>1, <1>4, SlotIsClear
    <3>2. granted'.last[r] = IF r = rule THEN now ELSE granted.last[r]
      BY <1>2, <2>5 DEF GovInv, GovTypes
    <3>3. granted.last[r] \in Int
      BY DEF GovInv, GovTypes
    <3> HIDE DEF now, rule
    <3> QED
      BY <1>2, <2>3, <2>4, <3>1, <3>2, <3>3
  <2>10. \A r \in Rules \cap DOMAIN V!Limits.gaps :
           \/ granted'.last[r] + V!Limits.gaps[r] <= state'.ruleNext[r]
           \/ granted'.last[r] + V!Limits.gaps[r] <= -MaxPause
    <3> SUFFICES ASSUME NEW r \in Rules \cap DOMAIN V!Limits.gaps
                 PROVE  \/ granted'.last[r] + V!Limits.gaps[r] <= state'.ruleNext[r]
                        \/ granted'.last[r] + V!Limits.gaps[r] <= -MaxPause
      OBVIOUS
    <3>1. CASE r = rule
      <4>1. granted'.last[r] = now /\ state'.ruleNext[r] = now + V!Limits.gaps[r]
        BY <1>2, <2>4, <2>5, <3>1 DEF GovInv, GovTypes
      <4> QED
        BY <1>2, <2>3, <4>1
    <3>2. CASE r # rule
      <4>1. granted'.last[r] = granted.last[r] /\ state'.ruleNext[r] = state.ruleNext[r]
        BY <1>2, <2>4, <2>5, <3>2 DEF GovInv, GovTypes
      <4> QED
        BY <4>1 DEF GovInv, GovRates, Clear
    <3> QED
      BY <3>1, <3>2
  <2>11. GovRates'
    BY <2>2, <2>9, <2>10 DEF GovRates, Clear
  <2> QED
    BY <2>7, <2>8, <2>11 DEF GovInv
<1> QED
  BY <1>3, <1>4, SlotFacts

LEMMA AdmitsKeeps == ASSUME GovInv, NEW w \in Workers, V!Admits(w) PROVE GovInv'
<1>1. work[w].at = "admit"
  BY DEF V!Admits
<1>2. work[w] \in Task
  BY <1>1, BusyIsTask DEF GovInv
<1>3. CASE V!Spent(work[w].url)
  BY <1>1, <1>3, MovesKeeps DEF V!Admits, Stages
<1>4. CASE ~V!Spent(work[w].url)
  <2> DEFINE s == [work[w] EXCEPT !.at = "send"]
             t == V!Target(work[w].url)
             o == work[w].url.origin
             max == V!Limits.max
  <2>1. s \in Task /\ s.at = "send"
    BY <1>2 DEF Task, Stages
  <2>2. /\ work' = [work EXCEPT ![w] = s] /\ limiter' = limiter
        /\ state' = IF max = 0 THEN state ELSE [state EXCEPT !.sent[t] = @ + 1]
        /\ granted' = [granted EXCEPT !.sent[o] = @ + IF max = 0 THEN 0 ELSE 1]
    BY <1>4 DEF V!Admits, V!Moves, V!Sets
  <2>3. V!Limits' = V!Limits
    BY <2>2 DEF V!Limits
  <2>4. work[w].url \in Urls /\ t \in V!Targets /\ o \in Origins
    BY <1>2 DEF Task, V!Targets, Origins
  <2>5. max \in Nat /\ state.sent \in [V!Targets -> Nat] /\ granted.sent \in [Origins -> Nat]
    BY DEF GovInv, GovTypes, LimitsOK
  <2>6. max > 0 => state.sent[t] < max
    BY <1>4, <2>4, <2>5 DEF V!Spent
  <2> HIDE DEF s, t, o, max
  <2>7. CASE max = 0
    <3>1. state' = state /\ granted' = granted
      BY <2>2, <2>4, <2>5, <2>7 DEF GovInv, GovTypes
    <3> QED
      BY <2>1, <2>2, <3>1, WorkKeeps
  <2>8. CASE max > 0
    <3>1. /\ state' = [state EXCEPT !.sent[t] = @ + 1]
          /\ granted' = [granted EXCEPT !.sent[o] = @ + 1]
      BY <2>2, <2>5, <2>8
    <3>2. /\ state'.sent = [state.sent EXCEPT ![t] = @ + 1]
          /\ state'.globalNext = state.globalNext /\ state'.ruleNext = state.ruleNext
          /\ state' \in [sent : [V!Targets -> Nat], globalNext : Int,
                         ruleNext : [DOMAIN V!Limits.gaps -> Int]]
      BY <2>4, <2>5, <3>1 DEF GovInv, GovTypes
    <3>3. /\ granted'.sent = [granted.sent EXCEPT ![o] = @ + 1] /\ granted'.last = granted.last
          /\ granted' \in [last : [Rules -> Int], sent : [Origins -> Nat]]
      BY <2>4, <2>5, <3>1 DEF GovInv, GovTypes
    <3>4. \A x \in Workers : work'[x] = IF x = w THEN s ELSE work[x]
      BY <2>2 DEF GovInv, GovTypes
    <3>5. GovTypes'
      <4>1. work' \in [Workers -> {V!Idle} \cup Task]
        BY <2>1, <2>2 DEF GovInv, GovTypes
      <4> QED
        BY <2>3, <3>2, <3>3, <4>1 DEF GovInv, GovTypes, LimitsOK
    <3>6. \A u \in Urls : /\ granted'.sent[u.origin] = state'.sent[V!Target(u)]
                          /\ state'.sent[V!Target(u)] <= max
      <4> SUFFICES ASSUME NEW u \in Urls
                   PROVE  /\ granted'.sent[u.origin] = state'.sent[V!Target(u)]
                          /\ state'.sent[V!Target(u)] <= max
        OBVIOUS
      <4>1. granted.sent[u.origin] = state.sent[V!Target(u)] /\ state.sent[V!Target(u)] <= max
        BY <2>8 DEF GovInv, GovBudget, max
      <4>2. V!Target(u) = t <=> u.origin = o
        BY <2>4, TargetIsOrigin DEF t, o
      <4>3. u.origin \in Origins /\ V!Target(u) \in V!Targets
        BY DEF Origins, V!Targets
      <4> QED
        BY <2>4, <2>5, <2>6, <2>8, <3>2, <3>3, <4>1, <4>2, <4>3
    <3>7. \A x \in Workers : work'[x].at = "refused" => state'.sent[V!Target(work'[x].url)] = max
      <4> SUFFICES ASSUME NEW x \in Workers, work'[x].at = "refused"
                   PROVE  state'.sent[V!Target(work'[x].url)] = max
        OBVIOUS
      <4>1. x # w /\ work'[x] = work[x]
        BY <2>1, <3>4
      <4>2. state.sent[V!Target(work[x].url)] = max
        BY <2>8, <4>1 DEF GovInv, GovBudget, max
      <4>3. V!Target(work[x].url) # t
        BY <2>5, <2>6, <2>8, <2>4, <4>2
      <4> QED
        BY <3>2, <4>1, <4>2, <4>3, <2>5
    <3>8. GovBudget'
      BY <2>3, <3>6, <3>7 DEF GovBudget, max
    <3>9. GovRates'
      BY <2>3, <3>2, <3>3 DEF GovInv, GovRates, Clear
    <3> QED
      BY <3>5, <3>8, <3>9 DEF GovInv
  <2> QED
    BY <2>5, <2>7, <2>8
<1> QED
  BY <1>3, <1>4

LEMMA PastFacts ==
    ASSUME NEW i \in Int
    PROVE  V!Past(i) \in Int /\ V!Past(i) >= i - 1
<1>1. i - 1 \in Int /\ -(MaxPause + 1) \in Int
  BY GovernorConstants
<1>2. V!Max({i - 1, -(MaxPause + 1)}) = IF i - 1 >= -(MaxPause + 1) THEN i - 1 ELSE -(MaxPause + 1)
  BY <1>1, MaxOfTwo
<1> QED
  BY <1>1, <1>2 DEF V!Past

\* A grant that moved into the past is as clear as it was.
LEMMA ClearLater ==
    ASSUME NEW last1 \in Int, NEW last2, NEW gap \in 0..LongestGap, NEW next1 \in Int,
           NEW next2 \in Int, next2 >= next1 - 1,
           last2 \in {last1 - 1, -V!Window},
           last1 + gap <= next1 \/ last1 + gap <= -MaxPause
    PROVE  last2 + gap <= next2 \/ last2 + gap <= -MaxPause
<1>1. V!Window = LongestGap + MaxPause /\ LongestGap \in Nat /\ MaxPause \in Nat
  BY GovernorConstants DEF V!Window
<1>2. gap \in Int /\ gap <= LongestGap
  BY <1>1
<1> QED
  BY <1>1, <1>2

LEMMA TickKeeps == ASSUME GovInv, V!Tick PROVE GovInv'
<1>1. V!Limits' = V!Limits
  BY DEF V!Tick, V!Limits
<1>2. /\ state' = [state EXCEPT !.globalNext = V!Past(state.globalNext),
                     !.ruleNext = [r \in DOMAIN state.ruleNext |-> V!Past(state.ruleNext[r])]]
      /\ granted' = [granted EXCEPT
                !.last = [r \in DOMAIN granted.last |-> V!Max({granted.last[r] - 1, -V!Window})]]
  BY DEF V!Tick, GovInv, GovTypes
<1>3. /\ state'.sent = state.sent
      /\ state'.globalNext = V!Past(state.globalNext)
      /\ state'.ruleNext = [r \in DOMAIN V!Limits.gaps |-> V!Past(state.ruleNext[r])]
      /\ state.globalNext \in Int /\ \A r \in DOMAIN V!Limits.gaps : state.ruleNext[r] \in Int
  BY <1>2 DEF GovInv, GovTypes
<1>4. /\ granted'.sent = granted.sent
      /\ granted'.last = [r \in Rules |-> V!Max({granted.last[r] - 1, -V!Window})]
      /\ \A r \in Rules : granted.last[r] \in Int
  BY <1>2 DEF GovInv, GovTypes
<1>5. \A w \in Workers :
        /\ work'[w] \in {V!Idle} \cup Task
        /\ work'[w].at = work[w].at
        /\ work[w].at = "refused" => work'[w].url = work[w].url
  <2> SUFFICES ASSUME NEW w \in Workers
               PROVE  /\ work'[w] \in {V!Idle} \cup Task
                      /\ work'[w].at = work[w].at
                      /\ work[w].at = "refused" => work'[w].url = work[w].url
    OBVIOUS
  <2>1. work'[w] = CASE work[w].at = "slot" -> [work[w] EXCEPT !.now = work[w].now - 1]
                     [] work[w].at = "sleep" -> [work[w] EXCEPT !.wake = V!Max({work[w].wake - 1, 0})]
                     [] OTHER -> work[w]
    BY DEF V!Tick
  <2>2. CASE work[w].at = "slot"
    <3>1. work[w] \in Task
      BY <2>2, BusyIsTask DEF GovInv
    <3>2. work[w].now > -MaxPause
      BY <2>2 DEF V!Tick
    <3>3. work[w].now - 1 \in -MaxPause..0
      BY <3>1, <3>2, GovernorConstants DEF Task
    <3>4. work'[w] = [work[w] EXCEPT !.now = work[w].now - 1]
      BY <2>1, <2>2
    <3> QED
      BY <2>2, <3>1, <3>3, <3>4 DEF Task
  <2>3. CASE work[w].at = "sleep"
    <3>1. work[w] \in Task
      BY <2>3, BusyIsTask DEF GovInv
    <3>2. V!Max({work[w].wake - 1, 0}) \in Int
      BY <3>1, MaxOfTwo DEF Task
    <3>3. work'[w] = [work[w] EXCEPT !.wake = V!Max({work[w].wake - 1, 0})]
      BY <2>1, <2>3
    <3> QED
      BY <2>3, <3>1, <3>2, <3>3 DEF Task
  <2>4. CASE work[w].at # "slot" /\ work[w].at # "sleep"
    BY <2>1, <2>4 DEF GovInv, GovTypes
  <2> QED
    BY <2>2, <2>3, <2>4
<1>6. GovTypes'
  <2>1. state' \in [sent : [V!Targets -> Nat], globalNext : Int,
                    ruleNext : [DOMAIN V!Limits.gaps -> Int]]
    <3>1. V!Past(state.globalNext) \in Int
          /\ \A r \in DOMAIN V!Limits.gaps : V!Past(state.ruleNext[r]) \in Int
      BY <1>3, PastFacts
    <3>2. [r \in DOMAIN state.ruleNext |-> V!Past(state.ruleNext[r])] \in [DOMAIN V!Limits.gaps -> Int]
      BY <3>1 DEF GovInv, GovTypes
    <3> QED
      BY <1>2, <3>1, <3>2 DEF GovInv, GovTypes
  <2>2. granted' \in [last : [Rules -> Int], sent : [Origins -> Nat]]
    <3>1. -V!Window \in Int
      BY GovernorConstants DEF V!Window
    <3>2. \A r \in Rules : V!Max({granted.last[r] - 1, -V!Window}) \in Int
      <4> TAKE r \in Rules
      <4>1. granted.last[r] - 1 \in Int
        BY <1>4
      <4> QED
        BY <3>1, <4>1, MaxOfTwo
    <3> QED
      BY <1>2, <1>4, <3>2 DEF GovInv, GovTypes
  <2>3. work' \in [Workers -> {V!Idle} \cup Task]
    BY <1>5 DEF V!Tick
  <2> QED
    BY <1>1, <2>1, <2>2, <2>3 DEF GovInv, GovTypes, LimitsOK
<1>7. GovBudget'
  BY <1>1, <1>3, <1>4, <1>5 DEF GovInv, GovBudget
<1>8. GovRates'
  <2>0. \A r \in Rules : granted'.last[r] \in {granted.last[r] - 1, -V!Window}
    <3> TAKE r \in Rules
    <3>1. granted.last[r] - 1 \in Int /\ -V!Window \in Int
      BY <1>4, GovernorConstants DEF V!Window
    <3> QED
      BY <1>4, <3>1, MaxOfTwo
  <2>1. V!Limits.gap \in 0..LongestGap
        /\ \A r \in DOMAIN V!Limits.gaps : V!Limits.gaps[r] \in 0..LongestGap
    BY GovernorConstants DEF GovInv, GovTypes, LimitsOK
  <2>2. V!Limits.gap > 0 => \A r \in Rules :
           \/ granted'.last[r] + V!Limits.gap <= state'.globalNext
           \/ granted'.last[r] + V!Limits.gap <= -MaxPause
    <3> SUFFICES ASSUME V!Limits.gap > 0, NEW r \in Rules
                 PROVE  \/ granted'.last[r] + V!Limits.gap <= state'.globalNext
                        \/ granted'.last[r] + V!Limits.gap <= -MaxPause
      OBVIOUS
    <3>1. \/ granted.last[r] + V!Limits.gap <= state.globalNext
          \/ granted.last[r] + V!Limits.gap <= -MaxPause
      BY DEF GovInv, GovRates, Clear
    <3>2. state'.globalNext \in Int /\ state'.globalNext >= state.globalNext - 1
      BY <1>3, PastFacts
    <3>3. /\ granted.last[r] \in Int /\ V!Limits.gap \in 0..LongestGap /\ state.globalNext \in Int
          /\ granted'.last[r] \in {granted.last[r] - 1, -V!Window}
      BY <1>3, <1>4, <2>0, <2>1
    <3> QED
      BY ONLY <3>1, <3>2, <3>3, ClearLater
  <2>3. \A r \in Rules \cap DOMAIN V!Limits.gaps :
           \/ granted'.last[r] + V!Limits.gaps[r] <= state'.ruleNext[r]
           \/ granted'.last[r] + V!Limits.gaps[r] <= -MaxPause
    <3> SUFFICES ASSUME NEW r \in Rules \cap DOMAIN V!Limits.gaps
                 PROVE  \/ granted'.last[r] + V!Limits.gaps[r] <= state'.ruleNext[r]
                        \/ granted'.last[r] + V!Limits.gaps[r] <= -MaxPause
      OBVIOUS
    <3>1. \/ granted.last[r] + V!Limits.gaps[r] <= state.ruleNext[r]
          \/ granted.last[r] + V!Limits.gaps[r] <= -MaxPause
      BY DEF GovInv, GovRates, Clear
    <3>2. state'.ruleNext[r] \in Int /\ state'.ruleNext[r] >= state.ruleNext[r] - 1
      BY <1>3, PastFacts
    <3>3. /\ granted.last[r] \in Int /\ V!Limits.gaps[r] \in 0..LongestGap /\ state.ruleNext[r] \in Int
          /\ granted'.last[r] \in {granted.last[r] - 1, -V!Window}
      BY <1>3, <1>4, <2>0, <2>1
    <3> QED
      BY ONLY <3>1, <3>2, <3>3, ClearLater
  <2> QED
    BY <1>1, <2>2, <2>3 DEF GovRates, Clear
<1> QED
  BY <1>6, <1>7, <1>8 DEF GovInv

GovHolds == limiter # None => GovInv

LEMMA GovernorStep == GovHolds /\ [Next]_vars => GovHolds'
<1> SUFFICES ASSUME GovHolds, [Next]_vars PROVE GovHolds'
  OBVIOUS
<1>1. CASE limiter # None /\ V!Next
  <2>1. GovInv
    BY <1>1 DEF GovHolds
  <2>2. CASE V!Tick
    BY <2>1, <2>2, TickKeeps DEF GovHolds
  <2>3. CASE \E w \in Workers : V!Step(w)
    <3>1. PICK w \in Workers : V!Step(w)
      BY <2>3
    <3> QED
      BY <2>1, <3>1, TakesKeeps, LooksKeeps, ReadsClockKeeps, SlotKeeps, WakesKeeps,
         AdmitsKeeps, SendsKeeps, EndsKeeps DEF V!Step, GovHolds
  <2> QED
    BY <1>1, <2>2, <2>3 DEF V!Next
<1>2. CASE UNCHANGED governor
  <2>1. UNCHANGED <<limiter, state, work, granted>>
    BY <1>2 DEF governor
  <2>2. V!Limits' = V!Limits
    BY <2>1 DEF V!Limits
  <2> QED
    BY <2>1, <2>2 DEF GovHolds, GovInv, GovTypes, LimitsOK, GovBudget, GovRates, Clear
<1> QED
  BY <1>1, <1>2 DEF Next, vars

LEMMA GovernorHolds == Spec => []GovHolds
<1>1. Init => GovHolds
  BY GovernorInit DEF Init, GovHolds, GovernorIdle
<1> QED
  BY <1>1, GovernorStep, PTL DEF Spec

\* However an origin is spelled, and however many workers race for its last request, its
\* budget is never overrun, and no request is refused before it is spent.
THEOREM BudgetKept == Spec => []BudgetHolds
<1>1. GovHolds => BudgetHolds
  <2> SUFFICES ASSUME GovHolds, limiter # None, V!Limits.max > 0
               PROVE  /\ \A u \in Urls : granted.sent[u.origin] <= V!Limits.max
                      /\ \A w \in Workers : work[w].at = "refused" =>
                            granted.sent[work[w].url.origin] = V!Limits.max
    BY DEF BudgetHolds, V!BudgetHolds
  <2>1. \A w \in Workers : work[w].at = "refused" => work[w].url \in Urls
    BY BusyIsTask DEF GovHolds, GovInv, Task
  <2> QED
    BY <2>1 DEF GovHolds, GovInv, GovBudget
<1> QED
  BY <1>1, GovernorHolds, PTL

\* Whatever the rates of a scan and of its rules, and however late a worker reads the clock
\* and gets the lock: no two requests were ready within a gap that applies to both.
THEOREM RatesKept == Spec => RatesCompose
<1> DEFINE Composes ==
      \A w \in Workers : work[w].at = "slot" /\ work'[w].at = "admit" =>
        \A rule \in DOMAIN granted.last :
          LET gap == IF rule = work[w].rule
                     THEN V!Max({V!Limits.gap, V!GapOf(rule)}) ELSE V!Limits.gap
          IN gap > 0 => work[w].now - granted.last[rule] >= gap
<1>1. GovHolds /\ [Next]_vars => Composes \/ UNCHANGED <<limiter, state, work, asked, granted>>
  <2> SUFFICES ASSUME GovHolds, [Next]_vars, ~UNCHANGED <<limiter, state, work, asked, granted>>
               PROVE  Composes
    OBVIOUS
  <2>1. limiter # None /\ V!Next /\ GovInv
    BY DEF Next, vars, governor, GovHolds
  <2> SUFFICES ASSUME NEW w \in Workers, work[w].at = "slot", work'[w].at = "admit",
                      NEW rule \in DOMAIN granted.last
               PROVE  LET gap == IF rule = work[w].rule
                                 THEN V!Max({V!Limits.gap, V!GapOf(rule)}) ELSE V!Limits.gap
                      IN gap > 0 => work[w].now - granted.last[rule] >= gap
    OBVIOUS
  <2>2. V!Slot(w) /\ V!SendAt(work[w].rule, work[w].now) <= work[w].now
    <3>1. ~V!Tick
      <4> SUFFICES ASSUME V!Tick PROVE FALSE
        OBVIOUS
      <4>1. work'[w] = [work[w] EXCEPT !.now = work[w].now - 1]
        BY DEF V!Tick
      <4>2. work[w] \in Task
        BY <2>1, BusyIsTask DEF GovInv
      <4> QED
        BY <4>1, <4>2 DEF Task
    <3>2. PICK x \in Workers : V!Step(x)
      BY <2>1, <3>1 DEF V!Next
    <3>3. \E s : work' = [work EXCEPT ![x] = s]
      BY <3>2 DEF V!Step, V!Takes, V!Looks, V!ReadsClock, V!Slot, V!Wakes, V!Admits, V!Sends,
                  V!Ends, V!Moves, V!Sets
    <3>4. x = w
      BY <2>1, <3>3 DEF GovInv, GovTypes
    <3>5. V!Slot(w)
      BY <3>2, <3>4 DEF V!Step, V!Takes, V!Looks, V!ReadsClock, V!Wakes, V!Admits, V!Sends, V!Ends
    <3>6. \/ V!SendAt(work[w].rule, work[w].now) <= work[w].now
          \/ \E k : work' = [work EXCEPT ![w] =
                       [work[w] EXCEPT !.at = "sleep", !.now = 0, !.wake = k]]
      BY <2>1, <3>5, SlotFacts
    <3>7. ~\E k : work' = [work EXCEPT ![w] =
                       [work[w] EXCEPT !.at = "sleep", !.now = 0, !.wake = k]]
      <4> SUFFICES ASSUME NEW k, work' = [work EXCEPT ![w] =
                            [work[w] EXCEPT !.at = "sleep", !.now = 0, !.wake = k]]
                   PROVE  FALSE
        OBVIOUS
      <4>1. work'[w] = [work[w] EXCEPT !.at = "sleep", !.now = 0, !.wake = k]
        BY <2>1 DEF GovInv, GovTypes
      <4>2. work[w] \in Task
        BY <2>1, BusyIsTask DEF GovInv
      <4>3. work'[w].at = "sleep"
        BY <4>1, <4>2 DEF Task
      <4> QED
        BY <4>3
    <3> QED
      BY <3>5, <3>6, <3>7
  <2>3. work[w] \in Task /\ rule \in Rules /\ granted.last[rule] \in Int
    BY <2>1, BusyIsTask DEF GovInv, GovTypes
  <2>4. /\ V!Limits.gap > 0 => granted.last[rule] + V!Limits.gap <= work[w].now
        /\ V!GapOf(work[w].rule) > 0 =>
             granted.last[work[w].rule] + V!GapOf(work[w].rule) <= work[w].now
    BY <2>1, <2>2, <2>3, SlotIsClear
  <2>5. V!Limits.gap \in Int /\ V!GapOf(rule) \in Int /\ work[w].now \in Int
    BY <2>1, <2>3, GovernorConstants DEF GovInv, GovTypes, LimitsOK, V!GapOf, Task
  <2>6. V!Max({V!Limits.gap, V!GapOf(rule)}) =
          IF V!Limits.gap >= V!GapOf(rule) THEN V!Limits.gap ELSE V!GapOf(rule)
    BY <2>5, MaxOfTwo
  <2> QED
    BY <2>3, <2>4, <2>5, <2>6
<1>2. [][Composes]_<<limiter, state, work, asked, granted>> => RatesCompose
  BY PTL DEF RatesCompose, V!RatesCompose
<1> HIDE DEF Composes
<1>3. Spec => [][Next]_vars
  BY PTL DEF Spec
<1> QED
  BY <1>1, <1>2, <1>3, GovernorHolds, PTL

-----------------------------------------------------------------------------
(* The launchers.                                                            *)

Fields == {"at", "version", "command", "apply", "own", "had", "bare", "alone", "read"}
Installing == {"install", "aside", "copy", "copying", "copy git", "copying git", "launcher",
               "writing", "shims", "path", "write path"}
Removing == {"uninstall", "remove bin"}

\* A command, and the installs that copy gitc itself.
Command(o) ==
    /\ DOMAIN o = Fields /\ o.version \in Versions
    /\ \/ o.at \in Installing /\ o.command = "install"
       \/ o.at \in Removing /\ o.command = "uninstall"
    /\ o.at \in {"copy git", "copying git"} => platform # "launchers"

LaunchTypes ==
    /\ platform \in Platforms
    /\ DOMAIN bin = {"exe", "old"} /\ DOMAIN shims = I!Exes \cup I!Shims
    /\ DOMAIN last = {"ended", "foreign", "raced"}
    /\ DOMAIN op = Procs
    /\ \A p \in Procs : op[p].at # "idle" => Command(op[p])

\* A command that has had no company is the only one.
Lone == \A p, q \in Procs :
          op[p].at # "idle" /\ op[q].at # "idle" /\ op[p].alone => p = q

\* How far an install without company is.
Undisturbed(p) == op[p].at # "idle" /\ op[p].command = "install" /\ op[p].alone
Stage(p) ==
    LET o == op[p] IN
    /\ o.at \notin {"copy", "copying"} => (o.had /\ ~o.bare => bin.exe \in Versions)
    /\ o.at \in {"copy", "copying"} => (o.had /\ ~o.bare => bin.old \in Versions)
    /\ o.at \in {"launcher", "writing", "shims"} => bin.exe = o.version
    /\ o.at \in {"install", "copy git"} /\ o.own => I!Own = o.version
    /\ o.at = "shims" => shims["git.exe"] = "launcher"
    /\ o.at \in {"path", "write path"} => I!Runs = o.version
AllStages == \A p \in Procs : Undisturbed(p) => Stage(p)

\* What others made of PATH, with the shim directory in front of it or without.
Segments == Foreign \cup {"shims"}
Shape(s) ==
    /\ s \in Seq(Segments)
    /\ \A i \in DOMAIN s : s[i] = "shims" => i = 1
    /\ ~last.raced => s \in {last.foreign, <<"shims">> \o last.foreign}
Paths ==
    /\ last.foreign \in Seq(Foreign)
    /\ Shape(path)
    /\ \A p \in Procs : op[p].at = "write path" => Shape(op[p].read)

LaunchInv == LaunchTypes /\ Lone /\ AllStages /\ I!InstallHolds /\ Paths

LEMMA LaunchConstants ==
    /\ platform \in Platforms => platform \in {"launchers", "copies", "unix"}
    /\ None \notin Versions /\ "torn" \notin Versions /\ "launcher" \notin Versions
    /\ "shims" \notin Foreign
  BY LaunchersAssumption

\* A command that goes on leaves the others, and their stages, alone.
LEMMA GoesOn ==
    ASSUME LaunchInv, NEW p \in Procs, op[p].at # "idle", NEW o,
           op' = [op EXCEPT ![p] = o], DOMAIN o = Fields,
           o.at \in Installing \cup Removing, o.at \in Installing <=> op[p].at \in Installing,
           o.at \in {"copy git", "copying git"} => platform # "launchers",
           o.version = op[p].version, o.command = op[p].command, o.alone = op[p].alone,
           UNCHANGED <<platform, last>>,
           DOMAIN bin' = {"exe", "old"}, DOMAIN shims' = I!Exes \cup I!Shims,
           (Undisturbed(p) => Stage(p))'
    PROVE  LaunchTypes' /\ Lone' /\ AllStages' /\ I!InstallHolds'
<1>1. DOMAIN op = Procs /\ op[p].at \in Installing \cup Removing /\ Command(op[p])
  BY DEF LaunchInv, LaunchTypes, Command
<1>2. op'[p] = o /\ DOMAIN op' = Procs /\ \A q \in Procs : q # p => op'[q] = op[q]
  BY <1>1
<1>3. o.at # "idle"
  BY DEF Installing, Removing
<1>4. Command(o)
  <2>1. o.at \in Removing => op[p].at \in Removing
    BY <1>1 DEF Installing, Removing
  <2>2. \/ o.at \in Installing /\ o.command = "install"
        \/ o.at \in Removing /\ o.command = "uninstall"
    BY <1>1, <2>1 DEF Command, Installing, Removing
  <2> QED
    BY <1>1, <2>2 DEF Command
<1>5. LaunchTypes'
  <2>1. \A q \in Procs : op'[q].at # "idle" => Command(op'[q])
    BY <1>2, <1>4 DEF LaunchInv, LaunchTypes
  <2> QED
    BY <1>2, <2>1 DEF LaunchInv, LaunchTypes, Command, I!Exes, I!Shims
<1>6. Lone'
  <2>1. op'[p].alone => op[p].alone
    BY <1>2
  <2>2. \A q \in Procs : op'[q].at # "idle" => op[q].at # "idle"
    BY <1>2
  <2>3. \A q \in Procs : op'[q].alone => op[q].alone
    BY <1>2, <2>1
  <2> QED
    BY <2>2, <2>3 DEF LaunchInv, Lone
<1>7. AllStages'
  <2> SUFFICES ASSUME NEW q \in Procs, Undisturbed(q)' PROVE Stage(q)'
    BY DEF AllStages
  <2>1. q = p
    BY <1>2 DEF LaunchInv, Lone, Undisturbed
  <2> QED
    BY <2>1
<1>8. I!InstallHolds'
  BY <1>2, <1>3 DEF I!InstallHolds, I!Active
<1> QED
  BY <1>5, <1>6, <1>7, <1>8

\* A command that ends leaves behind what its properties ask for.
LEMMA Ended ==
    ASSUME LaunchInv, NEW p \in Procs, op[p].at # "idle", NEW how \in {"done", "error", "died", "stuck"}, I!Ends(p, how),
           DOMAIN bin' = {"exe", "old"}, DOMAIN shims' = I!Exes \cup I!Shims,
           Undisturbed(p) =>
             /\ how = "done" => I!Runs' = op[p].version
             /\ how = "error" => (op[p].had /\ ~op[p].bare => bin'.exe \in Versions)
             /\ how = "stuck" => (op[p].had /\ ~op[p].bare => bin'.old \in Versions)
    PROVE  LaunchTypes' /\ Lone' /\ AllStages' /\ I!InstallHolds'
<1>1. DOMAIN op = Procs /\ DOMAIN last = {"ended", "foreign", "raced"} /\ platform' = platform
  BY DEF LaunchInv, LaunchTypes, I!Ends, I!Sets
<1>2. op'[p] = I!Idle /\ DOMAIN op' = Procs /\ \A q \in Procs : q # p => op'[q] = op[q]
  BY <1>1 DEF I!Ends, I!Sets
<1>3. op'[p].at = "idle"
  BY <1>2 DEF I!Idle
<1>4. /\ DOMAIN last' = {"ended", "foreign", "raced"}
      /\ last'.ended = IF op[p].alone /\ op[p].command = "install" /\ how # "died"
                       THEN [at |-> how, version |-> op[p].version,
                             kept |-> op[p].had /\ ~op[p].bare]
                       ELSE I!Idle
  BY <1>1 DEF I!Ends
<1>5. LaunchTypes'
  <2>1. \A q \in Procs : op'[q].at # "idle" => Command(op'[q])
    BY <1>2, <1>3 DEF LaunchInv, LaunchTypes
  <2> QED
    BY <1>1, <1>2, <1>4, <2>1 DEF LaunchInv, LaunchTypes, Command, I!Exes, I!Shims
<1>6. Lone'
  BY <1>2, <1>3 DEF LaunchInv, Lone
<1>7. AllStages'
  <2> SUFFICES ASSUME NEW q \in Procs, Undisturbed(q)' PROVE Stage(q)'
    BY DEF AllStages
  <2>1. q # p /\ op'[q] = op[q]
    BY <1>2, <1>3 DEF Undisturbed
  <2>2. FALSE
    BY <2>1 DEF LaunchInv, Lone, Undisturbed
  <2> QED
    BY <2>2
<1>8. I!InstallHolds'
  <2> DEFINE e == last'.ended
  <2> SUFFICES /\ e.at = "done" => I!Runs' = e.version
               /\ e.at = "error" /\ e.kept => bin'.exe \in Versions
               /\ e.at = "stuck" /\ e.kept => bin'.old \in Versions
    BY DEF I!InstallHolds
  <2>1. CASE op[p].alone /\ op[p].command = "install" /\ how # "died"
    <3>1. Undisturbed(p)
      BY <2>1 DEF Undisturbed
    <3>2. e = [at |-> how, version |-> op[p].version, kept |-> op[p].had /\ ~op[p].bare]
      BY <1>4, <2>1
    <3> HIDE DEF e
    <3>3. e.at = how /\ e.version = op[p].version
      BY <3>2
    <3>4. e.kept => op[p].had /\ ~op[p].bare
      BY <3>2
    <3> QED
      BY <3>1, <3>3, <3>4
  <2>2. CASE ~(op[p].alone /\ op[p].command = "install" /\ how # "died")
    <3>1. e.at = "idle"
      BY <1>4, <2>2 DEF I!Idle
    <3> QED
      BY <3>1
  <2> QED
    BY <2>1, <2>2
<1> QED
  BY <1>5, <1>6, <1>7, <1>8

\* Whoever leaves PATH alone, and does not come to have read it, leaves its shape.
LEMMA PathStays ==
    ASSUME Paths, path' = path, last'.foreign = last.foreign, last'.raced = last.raced,
           \A p \in Procs : op'[p].at = "write path" =>
              op[p].at = "write path" /\ op'[p].read = op[p].read
    PROVE  Paths'
  BY DEF Paths, Shape

\* A command that goes on, and has not just read PATH.
LEMMA Goes ==
    ASSUME LaunchInv, NEW p \in Procs, op[p].at # "idle", NEW at1 \in Installing \cup Removing,
           I!Goes(p, at1), UNCHANGED <<path, last>>, at1 # "write path", at1 # "install",
           at1 \in Installing <=> op[p].at \in Installing,
           at1 \in {"copy git", "copying git"} => platform # "launchers",
           DOMAIN bin' = {"exe", "old"}, DOMAIN shims' = I!Exes \cup I!Shims,
           Undisturbed(p) =>
             /\ at1 \notin {"copy", "copying"} =>
                  (op[p].had /\ ~op[p].bare => bin'.exe \in Versions)
             /\ at1 \in {"copy", "copying"} =>
                  (op[p].had /\ ~op[p].bare => bin'.old \in Versions)
             /\ at1 \in {"launcher", "writing", "shims"} => bin'.exe = op[p].version
             /\ at1 = "copy git" /\ op[p].own => I!Own' = op[p].version
             /\ at1 = "shims" => shims'["git.exe"] = "launcher"
             /\ at1 = "path" => I!Runs' = op[p].version
    PROVE  LaunchInv'
<1> DEFINE o == [op[p] EXCEPT !.at = at1]
<1>1. /\ op' = [op EXCEPT ![p] = o] /\ platform' = platform
      /\ DOMAIN op = Procs /\ Command(op[p])
  BY DEF I!Goes, I!Sets, LaunchInv, LaunchTypes
<1>2. /\ DOMAIN o = Fields /\ o.at = at1 /\ o.version = op[p].version
      /\ o.command = op[p].command /\ o.alone = op[p].alone
  BY <1>1 DEF Command, Fields
<1>3. /\ o.had <=> op[p].had
      /\ o.bare <=> op[p].bare
      /\ o.own <=> op[p].own
      /\ o.alone <=> op[p].alone
  BY <1>1 DEF Command, Fields
<1>4. op'[p] = o /\ \A q \in Procs : q # p => op'[q] = op[q]
  BY <1>1
<1> HIDE DEF o
<1>5. (Undisturbed(p) => Stage(p))'
  BY <1>2, <1>3, <1>4 DEF Undisturbed, Stage
<1>6. LaunchTypes' /\ Lone' /\ AllStages' /\ I!InstallHolds'
  BY <1>1, <1>2, <1>5, GoesOn
<1>7. Paths'
  BY <1>2, <1>4, PathStays DEF LaunchInv
<1> QED
  BY <1>6, <1>7 DEF LaunchInv

\* A command that ends and has not written PATH.
LEMMA Finishes ==
    ASSUME LaunchInv, NEW p \in Procs, op[p].at # "idle", NEW how \in {"done", "error", "died", "stuck"}, I!Ends(p, how),
           path' = path, DOMAIN bin' = {"exe", "old"}, DOMAIN shims' = I!Exes \cup I!Shims,
           Undisturbed(p) =>
             /\ how = "done" => I!Runs' = op[p].version
             /\ how = "error" => (op[p].had /\ ~op[p].bare => bin'.exe \in Versions)
             /\ how = "stuck" => (op[p].had /\ ~op[p].bare => bin'.old \in Versions)
    PROVE  LaunchInv'
<1>1. LaunchTypes' /\ Lone' /\ AllStages' /\ I!InstallHolds'
  BY Ended
<1>2. DOMAIN op = Procs /\ DOMAIN last = {"ended", "foreign", "raced"}
  BY DEF LaunchInv, LaunchTypes
<1>3. /\ op'[p].at = "idle" /\ \A q \in Procs : q # p => op'[q] = op[q]
      /\ last'.foreign = last.foreign /\ last'.raced = last.raced
  BY <1>2 DEF I!Ends, I!Sets, I!Idle
<1>4. Paths'
  BY <1>3, PathStays DEF LaunchInv
<1> QED
  BY <1>1, <1>4 DEF LaunchInv

\* What a failing command finds is what it leaves.
LEMMA FailsKeeps ==
    ASSUME LaunchInv, NEW p \in Procs, op[p].at # "idle", op[p].at \notin {"copy", "copying"},
           NEW how \in {"error", "died"}, I!Ends(p, how), UNCHANGED <<bin, path>>,
           DOMAIN shims' = I!Exes \cup I!Shims
    PROVE  LaunchInv'
<1>1. Undisturbed(p) => (op[p].had /\ ~op[p].bare => bin.exe \in Versions)
  BY DEF LaunchInv, AllStages, Stage
<1>2. DOMAIN bin' = {"exe", "old"} /\ how \notin {"done", "stuck"}
  BY DEF LaunchInv, LaunchTypes
<1> QED
  BY <1>1, <1>2, Finishes

-----------------------------------------------------------------------------
(* One lemma for each action.                                                *)

\* What is known of a command.
LEMMA Known ==
    ASSUME LaunchInv, NEW p \in Procs, op[p].at # "idle"
    PROVE  /\ platform \in {"launchers", "copies", "unix"}
           /\ DOMAIN bin = {"exe", "old"} /\ DOMAIN shims = I!Exes \cup I!Shims
           /\ op[p].version \in Versions /\ op[p].version \notin {None, "torn", "launcher"}
           /\ op[p].at \in {"copy git", "copying git"} => platform # "launchers"
           /\ op[p].at \in Removing => op[p].command # "install"
           /\ Undisturbed(p) => Stage(p)
<1>1. Command(op[p])
  BY DEF LaunchInv, LaunchTypes
<1>2. op[p].at \in Removing => op[p].command # "install"
  BY <1>1 DEF Command, Installing, Removing
<1> QED
  BY <1>1, <1>2, LaunchConstants DEF LaunchInv, LaunchTypes, AllStages, Command

LEMMA DiesKeeps ==
    ASSUME LaunchInv, NEW p \in Procs, I!Dies(p)
    PROVE  LaunchInv'
<1>1. op[p].at # "idle" /\ I!Ends(p, "died") /\ UNCHANGED <<bin, shims, path>>
  BY DEF I!Dies
<1>2. DOMAIN bin' = {"exe", "old"} /\ DOMAIN shims' = I!Exes \cup I!Shims
  BY <1>1, Known
<1> QED
  BY <1>1, <1>2, Finishes

LEMMA PlacesKeeps ==
    ASSUME LaunchInv, NEW p \in Procs, I!Places(p)
    PROVE  LaunchInv'
<1>1. op[p].at = "install"
  BY DEF I!Places
<1>2. CASE I!Fails(p)
  <2>1. DOMAIN shims' = I!Exes \cup I!Shims
    BY <1>1, <1>2, Known DEF I!Fails
  <2> QED
    BY <1>1, <1>2, <2>1, FailsKeeps DEF I!Fails
<1>3. CASE ~I!Fails(p)
  <2>1. UNCHANGED <<bin, shims, path, last>>
    BY <1>3 DEF I!Places
  <2>2. PICK at1 \in {"launcher", "aside", "copy git"} :
          /\ I!Goes(p, at1)
          /\ at1 = "launcher" => op[p].own /\ platform = "launchers"
          /\ at1 = "copy git" => platform # "launchers"
    <3>1. platform \in {"launchers", "copies", "unix"}
      BY <1>1, Known
    <3>2. I!Goes(p, CASE platform = "launchers" -> IF op[p].own THEN "launcher" ELSE "aside"
                      [] platform \in {"copies", "unix"} -> "copy git")
      BY <1>3 DEF I!Places
    <3>3. CASE platform = "launchers" /\ op[p].own
      <4>1. I!Goes(p, "launcher")
        BY <3>2, <3>3
      <4> QED
        BY <3>3, <4>1
    <3>4. CASE platform = "launchers" /\ ~op[p].own
      <4>1. I!Goes(p, "aside")
        BY <3>2, <3>4
      <4> QED
        BY <3>4, <4>1
    <3>5. CASE platform # "launchers"
      <4>1. I!Goes(p, "copy git")
        BY <3>1, <3>2, <3>5
      <4> QED
        BY <3>5, <4>1
    <3> QED
      BY <3>3, <3>4, <3>5
  <2>3. /\ Undisturbed(p) => Stage(p)
        /\ DOMAIN bin' = {"exe", "old"} /\ DOMAIN shims' = I!Exes \cup I!Shims
    BY <1>1, <2>1, Known
  <2>4. Undisturbed(p) =>
          /\ op[p].had /\ ~op[p].bare => bin'.exe \in Versions
          /\ op[p].own => I!Own = op[p].version
    BY <1>1, <2>1, <2>3 DEF Stage
  <2>5. I!Own' = I!Own
    BY <2>1, <2>2 DEF I!Own, I!Goes, I!Sets
  <2>6. at1 = "launcher" => I!Own = bin'.exe
    BY <2>1, <2>2 DEF I!Own
  <2>7. at1 \in Installing /\ op[p].at \in Installing
    BY <1>1 DEF Installing
  <2>8. at1 \in Installing <=> op[p].at \in Installing
    BY <2>7
  <2>9. /\ at1 # "write path" /\ at1 # "install" /\ at1 # "shims" /\ at1 # "writing"
        /\ at1 # "path" /\ at1 \notin {"copy", "copying"} /\ at1 # "copying git"
    BY <2>2
  <2>10. op[p].at # "idle"
    BY <1>1
  <2>11. Undisturbed(p) =>
          /\ op[p].had /\ ~op[p].bare => bin'.exe \in Versions
          /\ at1 = "launcher" => bin'.exe = op[p].version
          /\ at1 = "copy git" /\ op[p].own => I!Own' = op[p].version
    BY <2>2, <2>4, <2>5, <2>6
  <2> QED
    BY <2>1, <2>2, <2>3, <2>7, <2>8, <2>9, <2>10, <2>11, Goes
<1> QED
  BY <1>2, <1>3

LEMMA MovesAsideKeeps ==
    ASSUME LaunchInv, NEW p \in Procs, I!MovesAside(p)
    PROVE  LaunchInv'
<1>1. op[p].at = "aside" /\ UNCHANGED <<shims, path>>
  BY DEF I!MovesAside
<1>2. /\ Undisturbed(p) => (op[p].had /\ ~op[p].bare => bin.exe \in Versions)
      /\ DOMAIN bin = {"exe", "old"} /\ DOMAIN shims' = I!Exes \cup I!Shims
  BY <1>1, Known DEF Stage
<1>3. op[p].at # "idle" /\ op[p].at \in Installing /\ "copy" \in Installing
  BY <1>1 DEF Installing
<1>4. PICK left \in {None, bin.old} :
        \/ bin' = [bin EXCEPT !.old = left] /\ I!Ends(p, "error")
        \/ /\ bin' = [exe |-> None, old |-> IF bin.exe = None THEN left ELSE bin.exe]
           /\ I!Goes(p, "copy") /\ UNCHANGED last
        \/ /\ bin' = [bin EXCEPT !.old = left]
           /\ I!Sets(p, [op[p] EXCEPT !.at = "copy", !.bare = TRUE]) /\ UNCHANGED last
  BY DEF I!MovesAside
<1>5. CASE bin' = [bin EXCEPT !.old = left] /\ I!Ends(p, "error")
  <2>1. DOMAIN bin' = {"exe", "old"} /\ bin'.exe = bin.exe
    BY <1>2, <1>5
  <2> QED
    BY <1>1, <1>2, <1>3, <1>5, <2>1, Finishes
<1>6. CASE /\ bin' = [exe |-> None, old |-> IF bin.exe = None THEN left ELSE bin.exe]
           /\ I!Goes(p, "copy") /\ UNCHANGED last
  <2>1. DOMAIN bin' = {"exe", "old"} /\ (bin.exe # None => bin'.old = bin.exe)
    BY <1>6
  <2>2. Undisturbed(p) => (op[p].had /\ ~op[p].bare => bin'.old \in Versions)
    BY <1>2, <2>1, LaunchConstants
  <2> QED
    BY <1>1, <1>2, <1>3, <1>6, <2>1, <2>2, Goes
<1>7. CASE /\ bin' = [bin EXCEPT !.old = left]
           /\ I!Sets(p, [op[p] EXCEPT !.at = "copy", !.bare = TRUE]) /\ UNCHANGED last
  <2> DEFINE o == [op[p] EXCEPT !.at = "copy", !.bare = TRUE]
  <2>1. /\ op' = [op EXCEPT ![p] = o] /\ platform' = platform /\ last' = last
        /\ DOMAIN op = Procs /\ Command(op[p]) /\ DOMAIN bin' = {"exe", "old"}
    BY <1>2, <1>3, <1>7 DEF I!Sets, LaunchInv, LaunchTypes
  <2>2. /\ DOMAIN o = Fields /\ o.at = "copy" /\ o.version = op[p].version
        /\ o.command = op[p].command /\ o.alone = op[p].alone /\ o.bare = TRUE
    BY <2>1 DEF Command, Fields
  <2>3. op'[p] = o /\ \A q \in Procs : q # p => op'[q] = op[q]
    BY <2>1
  <2> HIDE DEF o
  <2>4. Stage(p)'
    BY <2>2, <2>3 DEF Stage
  <2>5. o.at \in Installing \cup Removing /\ (o.at \in Installing <=> op[p].at \in Installing)
        /\ o.at \notin {"copy git", "copying git"}
    BY <1>3, <2>2
  <2>6. LaunchTypes' /\ Lone' /\ AllStages' /\ I!InstallHolds'
    BY <1>2, <1>3, <2>1, <2>2, <2>4, <2>5, GoesOn
  <2>7. Paths'
    BY <1>1, <2>1, <2>2, <2>3, PathStays DEF LaunchInv
  <2> QED
    BY <2>6, <2>7 DEF LaunchInv
<1> QED
  BY <1>4, <1>5, <1>6, <1>7

LEMMA TruncatesKeeps ==
    ASSUME LaunchInv, NEW p \in Procs, I!Truncates(p)
    PROVE  LaunchInv'
<1>1. /\ op[p].at = "copy" /\ UNCHANGED <<shims, path, last>>
      /\ I!Goes(p, "copying") /\ bin' = [bin EXCEPT !.exe = "torn"]
  BY DEF I!Truncates, I!Torn
<1>2. /\ Undisturbed(p) => (op[p].had /\ ~op[p].bare => bin.old \in Versions)
      /\ DOMAIN bin = {"exe", "old"} /\ DOMAIN shims' = I!Exes \cup I!Shims
  BY <1>1, Known DEF Stage
<1>3. DOMAIN bin' = {"exe", "old"} /\ bin'.old = bin.old
  BY <1>1, <1>2
<1>4. "copying" \in Installing /\ op[p].at \in Installing
  BY <1>1 DEF Installing
<1> QED
  BY <1>1, <1>2, <1>3, <1>4, Goes

LEMMA CopiesKeeps ==
    ASSUME LaunchInv, NEW p \in Procs, I!Copies(p)
    PROVE  LaunchInv'
<1>1. /\ op[p].at = "copying" /\ UNCHANGED <<shims, path, last>>
      /\ I!Goes(p, "launcher") /\ bin' = [bin EXCEPT !.exe = op[p].version]
  BY DEF I!Copies
<1>2. /\ op[p].version \in Versions
      /\ DOMAIN bin = {"exe", "old"} /\ DOMAIN shims' = I!Exes \cup I!Shims
  BY <1>1, Known
<1>3. DOMAIN bin' = {"exe", "old"} /\ bin'.exe = op[p].version
  BY <1>1, <1>2
<1>4. "launcher" \in Installing /\ op[p].at \in Installing
  BY <1>1 DEF Installing
<1> QED
  BY <1>1, <1>2, <1>3, <1>4, Goes

LEMMA RollsBackKeeps ==
    ASSUME LaunchInv, NEW p \in Procs, I!RollsBack(p)
    PROVE  LaunchInv'
<1>1. op[p].at \in {"copy", "copying"} /\ UNCHANGED <<shims, path>> /\ op[p].at # "idle"
  BY DEF I!RollsBack
<1>2. /\ Undisturbed(p) => (op[p].had /\ ~op[p].bare => bin.old \in Versions)
      /\ DOMAIN bin = {"exe", "old"} /\ DOMAIN shims' = I!Exes \cup I!Shims
  BY <1>1, Known DEF Stage
<1>3. CASE bin.old # None /\ bin' = [exe |-> bin.old, old |-> None] /\ I!Ends(p, "error")
  <2>1. DOMAIN bin' = {"exe", "old"} /\ bin'.exe = bin.old
    BY <1>3
  <2> QED
    BY <1>1, <1>2, <1>3, <2>1, Finishes
<1>4. CASE bin.old = None /\ bin' = bin /\ I!Ends(p, "error")
  BY <1>1, <1>2, <1>4, LaunchConstants, Finishes
<1>5. CASE bin' = bin /\ I!Ends(p, "stuck")
  BY <1>1, <1>2, <1>5, Finishes
<1> QED
  BY <1>3, <1>4, <1>5 DEF I!RollsBack

LEMMA CopiesGitKeeps ==
    ASSUME LaunchInv, NEW p \in Procs, I!CopiesGit(p)
    PROVE  LaunchInv'
<1>1. op[p].at \in {"copy git", "copying git"} /\ UNCHANGED <<bin, path>>
  BY DEF I!CopiesGit
<1>2. /\ platform # "launchers" /\ op[p].version # "launcher"
      /\ DOMAIN bin = {"exe", "old"} /\ DOMAIN shims = I!Exes \cup I!Shims
      /\ Undisturbed(p) => Stage(p)
      /\ op[p].at # "idle"
  BY <1>1, Known
<1>3. Undisturbed(p) => (op[p].had /\ ~op[p].bare => bin.exe \in Versions)
  BY <1>1, <1>2 DEF Stage
<1>4. "path" \in Installing /\ "copying git" \in Installing /\ op[p].at \in Installing
  BY <1>1 DEF Installing
<1>5. CASE /\ op[p].at = "copy git" /\ op[p].own
           /\ I!Goes(p, "path") /\ UNCHANGED <<shims, last>>
  <2>1. Undisturbed(p) => shims["git.exe"] = op[p].version
    BY <1>2, <1>5 DEF Stage, I!Own
  <2>2. Undisturbed(p) => I!Runs' = op[p].version
    BY <1>2, <1>5, <2>1 DEF I!Runs, I!Launcher
  <2> QED
    BY <1>1, <1>2, <1>3, <1>4, <1>5, <2>2, Goes
<1>6. CASE /\ op[p].at = "copy git" /\ shims' = [shims EXCEPT !["git.exe"] = I!Torn]
           /\ I!Goes(p, "copying git") /\ UNCHANGED last
  <2>1. DOMAIN shims' = I!Exes \cup I!Shims
    BY <1>2, <1>6
  <2> QED
    BY <1>1, <1>2, <1>3, <1>4, <1>6, <2>1, Goes
<1>7. CASE /\ op[p].at = "copying git" /\ shims' = [shims EXCEPT !["git.exe"] = op[p].version]
           /\ I!Goes(p, "path") /\ UNCHANGED last
  <2>1. DOMAIN shims' = I!Exes \cup I!Shims /\ shims'["git.exe"] = op[p].version
    BY <1>2, <1>7 DEF I!Exes
  <2>2. I!Runs' = op[p].version
    BY <1>2, <2>1 DEF I!Runs, I!Launcher
  <2> QED
    BY <1>1, <1>2, <1>3, <1>4, <1>7, <2>1, <2>2, Goes
<1>8. CASE I!Ends(p, "error") /\ UNCHANGED shims
  BY <1>1, <1>2, <1>8, FailsKeeps
<1> QED
  BY <1>5, <1>6, <1>7, <1>8 DEF I!CopiesGit

LEMMA WritesLauncherKeeps ==
    ASSUME LaunchInv, NEW p \in Procs, I!WritesLauncher(p)
    PROVE  LaunchInv'
<1>1. op[p].at \in {"launcher", "writing"} /\ UNCHANGED <<bin, path>>
  BY DEF I!WritesLauncher
<1>2. /\ DOMAIN bin = {"exe", "old"} /\ DOMAIN shims = I!Exes \cup I!Shims
      /\ Undisturbed(p) => Stage(p)
      /\ op[p].version \in Versions /\ op[p].at # "idle"
  BY <1>1, Known
<1>3. Undisturbed(p) => bin.exe = op[p].version /\ bin.exe \in Versions
  BY <1>1, <1>2 DEF Stage
<1>4. "writing" \in Installing /\ "shims" \in Installing /\ op[p].at \in Installing
  BY <1>1 DEF Installing
<1>5. CASE /\ shims' = [shims EXCEPT !["git.exe"] = I!Torn]
           /\ I!Goes(p, "writing") /\ UNCHANGED last
  <2>1. DOMAIN shims' = I!Exes \cup I!Shims
    BY <1>2, <1>5
  <2> QED
    BY <1>1, <1>2, <1>3, <1>4, <1>5, <2>1, Goes
<1>6. CASE /\ shims' \in {shims, [shims EXCEPT !["git.exe"] = None]}
           /\ I!Ends(p, "error")
  <2>1. DOMAIN shims' = I!Exes \cup I!Shims
    BY <1>2, <1>6
  <2> QED
    BY <1>1, <1>2, <1>6, <2>1, FailsKeeps
<1>7. CASE I!Ends(p, "error") /\ UNCHANGED shims
  BY <1>1, <1>2, <1>7, FailsKeeps
<1>8. ASSUME NEW links \in SUBSET {"sh.exe", "bash.exe"},
             shims' = [f \in DOMAIN shims |->
                         CASE f \in {"git.exe"} \cup links -> I!Launcher
                           [] f \in {"sh.exe", "bash.exe"} \ links -> None
                           [] OTHER -> shims[f]],
             I!Goes(p, "shims"), UNCHANGED last
      PROVE  LaunchInv'
  <2>1. DOMAIN shims' = I!Exes \cup I!Shims
    BY <1>2, <1>8
  <2>2. "git.exe" \in DOMAIN shims /\ "git.exe" \in {"git.exe"} \cup links
        /\ "git.exe" \notin {"sh.exe", "bash.exe"} \ links
    BY <1>2 DEF I!Exes
  <2>3. shims'["git.exe"] = "launcher"
    BY <1>8, <2>2 DEF I!Launcher
  <2> QED
    BY <1>1, <1>2, <1>3, <1>4, <1>8, <2>1, <2>3, Goes
<1> QED
  BY <1>5, <1>6, <1>7, <1>8 DEF I!WritesLauncher

LEMMA WritesShimsKeeps ==
    ASSUME LaunchInv, NEW p \in Procs, I!WritesShims(p)
    PROVE  LaunchInv'
<1>1. op[p].at = "shims" /\ UNCHANGED <<bin, path>>
  BY DEF I!WritesShims
<1>2. /\ DOMAIN bin = {"exe", "old"} /\ DOMAIN shims = I!Exes \cup I!Shims
      /\ Undisturbed(p) => Stage(p)
      /\ op[p].version \in Versions /\ op[p].at # "idle"
  BY <1>1, Known
<1>3. Undisturbed(p) => /\ bin.exe = op[p].version /\ bin.exe \in Versions
                        /\ shims["git.exe"] = "launcher"
  BY <1>1, <1>2 DEF Stage
<1>4. "path" \in Installing /\ op[p].at \in Installing
  BY <1>1 DEF Installing
<1>5. CASE /\ shims' = [f \in DOMAIN shims |-> IF f \in I!Shims THEN "target" ELSE shims[f]]
           /\ I!Goes(p, "path") /\ UNCHANGED last
  <2>1. DOMAIN shims' = I!Exes \cup I!Shims
    BY <1>2, <1>5
  <2>2. /\ "git.exe" \in DOMAIN shims /\ "git.exe" \notin I!Shims
        /\ "git.shim" \in DOMAIN shims /\ "git.shim" \in I!Shims
    BY <1>2 DEF I!Exes, I!Shims
  <2>3. shims'["git.exe"] = shims["git.exe"] /\ shims'["git.shim"] = "target"
    BY <1>5, <2>2
  <2>4. Undisturbed(p) => I!Runs' = op[p].version
    BY <1>1, <1>3, <2>3 DEF I!Runs, I!Launcher
  <2> QED
    BY <1>1, <1>2, <1>3, <1>4, <1>5, <2>1, <2>4, Goes
<1>6. CASE ~(/\ shims' = [f \in DOMAIN shims |-> IF f \in I!Shims THEN "target" ELSE shims[f]]
             /\ I!Goes(p, "path") /\ UNCHANGED last)
  <2>1. PICK i \in 1..3 :
          LET order == <<"git.shim", "sh.shim", "bash.shim">>
          IN /\ shims' = [f \in DOMAIN shims |->
                  CASE f \in {order[j] : j \in 1..(i - 1)} -> "target"
                    [] f = order[i] -> I!Torn
                    [] OTHER -> shims[f]]
             /\ \E how \in {"error", "died"} : I!Ends(p, how)
    BY <1>6 DEF I!WritesShims
  <2>2. DOMAIN shims' = I!Exes \cup I!Shims
    BY <1>2, <2>1
  <2> QED
    BY <1>1, <1>2, <2>1, <2>2, FailsKeeps
<1> QED
  BY <1>5, <1>6

LEMMA RemovesShimsKeeps ==
    ASSUME LaunchInv, NEW p \in Procs, I!RemovesShims(p)
    PROVE  LaunchInv'
<1>1. op[p].at = "uninstall" /\ UNCHANGED <<bin, path>>
  BY DEF I!RemovesShims
<1>2. /\ DOMAIN bin = {"exe", "old"} /\ DOMAIN shims = I!Exes \cup I!Shims
      /\ ~Undisturbed(p) /\ op[p].at # "idle"
  BY <1>1, Known DEF Undisturbed, Removing
<1>3. DOMAIN shims' = I!Exes \cup I!Shims
  BY <1>2 DEF I!RemovesShims
<1>4. "remove bin" \in Removing /\ "remove bin" \notin Installing /\ op[p].at \notin Installing
  BY <1>1 DEF Installing, Removing
<1>5. CASE I!Goes(p, "remove bin") /\ UNCHANGED last
  BY <1>1, <1>2, <1>3, <1>4, <1>5, Goes
<1>6. CASE I!Ends(p, "error")
  BY <1>1, <1>2, <1>3, <1>6, FailsKeeps
<1> QED
  BY <1>5, <1>6 DEF I!RemovesShims

LEMMA RemovesBinKeeps ==
    ASSUME LaunchInv, NEW p \in Procs, I!RemovesBin(p)
    PROVE  LaunchInv'
<1>1. op[p].at = "remove bin" /\ UNCHANGED <<shims, path>> /\ I!Ends(p, "done")
  BY DEF I!RemovesBin
<1>2. /\ DOMAIN shims = I!Exes \cup I!Shims /\ ~Undisturbed(p) /\ op[p].at # "idle"
  BY <1>1, Known DEF Undisturbed, Removing
<1>3. DOMAIN bin' = {"exe", "old"}
  BY DEF I!RemovesBin
<1> QED
  BY <1>1, <1>2, <1>3, Finishes

LEMMA SweepsKeeps ==
    ASSUME LaunchInv, I!Sweeps
    PROVE  LaunchInv'
<1>1. /\ bin' = [bin EXCEPT !.old = None]
      /\ op' = [q \in Procs |-> IF op[q].at = "idle" THEN op[q] ELSE [op[q] EXCEPT !.bare = TRUE]]
      /\ UNCHANGED <<platform, shims, path>>
      /\ last' = IF last.ended.at = "stuck" THEN [last EXCEPT !.ended = I!Idle] ELSE last
  BY DEF I!Sweeps
<1>2. DOMAIN bin = {"exe", "old"} /\ DOMAIN op = Procs
      /\ DOMAIN last = {"ended", "foreign", "raced"}
  BY DEF LaunchInv, LaunchTypes
<1>13. /\ DOMAIN last' = {"ended", "foreign", "raced"}
       /\ last'.foreign = last.foreign /\ last'.raced = last.raced
       /\ last'.ended = last.ended \/ last'.ended.at = "idle"
       /\ last'.ended.at # "stuck"
  BY <1>1, <1>2 DEF I!Idle
<1>3. bin'.exe = bin.exe /\ DOMAIN bin' = {"exe", "old"} /\ DOMAIN op' = Procs
  BY <1>1, <1>2
<1>4. ASSUME NEW q \in Procs, op[q].at # "idle"
      PROVE  /\ DOMAIN op'[q] = Fields /\ op'[q].at = op[q].at /\ op'[q].version = op[q].version
             /\ op'[q].command = op[q].command /\ op'[q].read = op[q].read
             /\ op'[q].bare = TRUE
             /\ op'[q].alone <=> op[q].alone
             /\ op'[q].own <=> op[q].own
  <2>1. op'[q] = [op[q] EXCEPT !.bare = TRUE] /\ DOMAIN op[q] = Fields
    BY <1>1, <1>4 DEF LaunchInv, LaunchTypes, Command
  <2> QED
    BY <2>1 DEF Fields
<1>5. \A q \in Procs : op[q].at = "idle" => op'[q] = op[q]
  BY <1>1
<1>6. LaunchTypes'
  <2>1. \A q \in Procs : op'[q].at # "idle" => Command(op'[q])
    BY <1>4, <1>5, ZenonT(40) DEF LaunchInv, LaunchTypes, Command
  <2> QED
    BY <1>1, <1>3, <1>13, <2>1 DEF LaunchInv, LaunchTypes, Command, I!Exes, I!Shims
<1>7. \A q \in Procs : op'[q].at = op[q].at /\ (op[q].at # "idle" => (op'[q].alone <=> op[q].alone))
  BY <1>4, <1>5
<1>8. Lone'
  BY <1>7 DEF LaunchInv, Lone
<1>9. I!Own' = I!Own /\ I!Runs' = I!Runs
  BY <1>1, <1>3 DEF I!Own, I!Runs
<1>10. AllStages'
  <2> SUFFICES ASSUME NEW q \in Procs, Undisturbed(q)' PROVE Stage(q)'
    BY DEF AllStages
  <2>1. op[q].at # "idle" /\ op'[q].bare
    BY <1>4, <1>7 DEF Undisturbed
  <2>2. Undisturbed(q)
    BY <1>4, <2>1 DEF Undisturbed
  <2>3. Stage(q)
    BY <2>2 DEF LaunchInv, AllStages
  <2> QED
    BY <1>1, <1>3, <1>4, <1>9, <2>1, <2>3 DEF Stage
<1>11. I!InstallHolds'
  <2>1. I!Active' = I!Active
    BY <1>7 DEF I!Active
  <2> QED
    BY <1>3, <1>9, <1>13, <2>1 DEF LaunchInv, I!InstallHolds
<1>12. Paths'
  <2>1. \A q \in Procs : op'[q].at = "write path" =>
           op[q].at = "write path" /\ op'[q].read = op[q].read
    BY <1>4, <1>7
  <2> QED
    BY <1>1, <1>13, <2>1, PathStays DEF LaunchInv
<1> QED
  BY <1>6, <1>8, <1>10, <1>11, <1>12 DEF LaunchInv

LEMMA BeginsKeeps ==
    ASSUME LaunchInv, NEW p \in Procs, I!Begins(p)
    PROVE  LaunchInv'
<1>1. op[p].at = "idle" /\ UNCHANGED <<platform, bin, shims, path, last>>
  BY DEF I!Begins
<1>2. PICK v \in Versions, command \in {"install", "uninstall"}, apply \in BOOLEAN, own \in BOOLEAN :
        /\ own => I!Own = v
        /\ command = "uninstall" => ~apply
        /\ LET s == [at |-> command, version |-> v, command |-> command, apply |-> apply, own |-> own,
                     had |-> bin.exe \in Versions, bare |-> FALSE, alone |-> I!Active = {},
                     read |-> <<>>]
           IN op' = IF I!Active = {} THEN [op EXCEPT ![p] = s] ELSE [I!Crowd(op) EXCEPT ![p] = s]
  BY Zenon DEF I!Begins
<1> DEFINE s == [at |-> command, version |-> v, command |-> command, apply |-> apply, own |-> own,
                 had |-> bin.exe \in Versions, bare |-> FALSE, alone |-> I!Active = {},
                 read |-> <<>>]
<1>3. op' = IF I!Active = {} THEN [op EXCEPT ![p] = s] ELSE [I!Crowd(op) EXCEPT ![p] = s]
  BY <1>2
<1>4. /\ DOMAIN s = Fields /\ s.at = command /\ s.version = v /\ s.command = command
      /\ s.own <=> own
      /\ s.had <=> bin.exe \in Versions
      /\ s.alone <=> I!Active = {}
  BY DEF Fields
<1> HIDE DEF s
<1>5. /\ DOMAIN op = Procs /\ \A q \in Procs : op[q].at # "idle" => Command(op[q])
      /\ I!Active \subseteq Procs
      /\ \A q \in Procs : q \in I!Active <=> op[q].at # "idle"
  BY DEF LaunchInv, LaunchTypes, I!Active
<1>6. /\ DOMAIN I!Crowd(op) = Procs
      /\ \A q \in Procs : op[q].at = "idle" => I!Crowd(op)[q] = op[q]
  BY DEF I!Crowd
<1>7. ASSUME NEW q \in Procs, op[q].at # "idle"
      PROVE  /\ DOMAIN I!Crowd(op)[q] = Fields /\ I!Crowd(op)[q].at = op[q].at
             /\ I!Crowd(op)[q].version = op[q].version
             /\ I!Crowd(op)[q].command = op[q].command /\ I!Crowd(op)[q].read = op[q].read
             /\ ~I!Crowd(op)[q].alone
  <2>1. I!Crowd(op)[q] = [op[q] EXCEPT !.alone = FALSE] /\ DOMAIN op[q] = Fields
    BY <1>5, <1>7 DEF I!Crowd, Command
  <2> QED
    BY <2>1 DEF Fields
<1>8. DOMAIN op' = Procs /\ op'[p] = s
  BY <1>3, <1>5, <1>6
<1>9. \A q \in Procs : q # p => op'[q] = IF I!Active = {} THEN op[q] ELSE I!Crowd(op)[q]
  BY <1>3, <1>5, <1>6
<1>10. ASSUME NEW q \in Procs, q # p
       PROVE  /\ op[q].at = "idle" => op'[q] = op[q]
              /\ op[q].at # "idle" =>
                   /\ DOMAIN op'[q] = Fields /\ op'[q].at = op[q].at
                   /\ op'[q].version = op[q].version /\ op'[q].command = op[q].command
                   /\ op'[q].read = op[q].read /\ ~op'[q].alone
                   /\ ~s.alone
  <2>1. CASE op[q].at = "idle"
    BY <1>6, <1>9, <1>10, <2>1
  <2>2. CASE op[q].at # "idle"
    <3>1. I!Active # {}
      BY <1>5, <2>2
    <3>2. op'[q] = I!Crowd(op)[q]
      BY <1>9, <1>10, <3>1
    <3> QED
      BY <1>4, <1>7, <2>2, <3>1, <3>2
  <2> QED
    BY <2>1, <2>2
<1>11. LaunchTypes'
  <2>1. Command(s)
    BY <1>2, <1>4 DEF Command, Installing, Removing
  <2>2. ASSUME NEW q \in Procs, op'[q].at # "idle" PROVE Command(op'[q])
    <3>1. CASE q = p
      BY <1>8, <2>1, <3>1
    <3>2. CASE q # p
      <4>1. op[q].at # "idle" /\ Command(op[q])
        BY <1>5, <1>10, <2>2, <3>2
      <4> QED
        BY <1>10, <3>2, <4>1 DEF Command
    <3> QED
      BY <3>1, <3>2
  <2> QED
    BY <1>1, <1>8, <2>2 DEF LaunchInv, LaunchTypes, Command, I!Exes, I!Shims
<1>12. Lone'
  BY <1>1, <1>8, <1>10 DEF LaunchInv, Lone
<1>13. AllStages'
  <2> SUFFICES ASSUME NEW q \in Procs, Undisturbed(q)' PROVE Stage(q)'
    BY DEF AllStages
  <2>1. q = p
    <3> SUFFICES ASSUME q # p PROVE FALSE
      OBVIOUS
    <3>1. op[q].at # "idle"
      BY <1>10 DEF Undisturbed
    <3> QED
      BY <1>10, <3>1 DEF Undisturbed
  <2>2. I!Own' = I!Own
    BY <1>1 DEF I!Own
  <2> QED
    BY <1>1, <1>2, <1>4, <1>8, <2>1, <2>2 DEF Stage, Undisturbed
<1>14. I!InstallHolds'
  <2>1. op'[p].at # "idle"
    BY <1>2, <1>4, <1>8
  <2> QED
    BY <2>1 DEF I!InstallHolds, I!Active
<1>15. Paths'
  <2>1. \A q \in Procs : op'[q].at = "write path" =>
           op[q].at = "write path" /\ op'[q].read = op[q].read
    BY <1>2, <1>4, <1>8, <1>10
  <2> QED
    BY <1>1, <2>1, PathStays DEF LaunchInv
<1> QED
  BY <1>11, <1>12, <1>13, <1>14, <1>15 DEF LaunchInv

LEMMA ReadsPathKeeps ==
    ASSUME LaunchInv, NEW p \in Procs, I!ReadsPath(p)
    PROVE  LaunchInv'
<1>1. op[p].at = "path" /\ UNCHANGED <<bin, shims, path>>
  BY DEF I!ReadsPath
<1>2. /\ DOMAIN bin' = {"exe", "old"} /\ DOMAIN shims' = I!Exes \cup I!Shims
      /\ Undisturbed(p) => Stage(p)
      /\ op[p].at # "idle"
  BY <1>1, Known
<1>3. /\ DOMAIN op = Procs /\ Command(op[p])
      /\ op[p].at \in Installing /\ "write path" \in Installing
  BY <1>1, <1>2 DEF LaunchInv, LaunchTypes, Installing
<1>4. Undisturbed(p) => /\ op[p].had /\ ~op[p].bare => bin.exe \in Versions
                        /\ I!Runs = op[p].version
  BY <1>1, <1>2 DEF Stage
<1>5. CASE I!Ends(p, "done")
  <2>1. I!Runs' = I!Runs
    BY <1>1 DEF I!Runs
  <2> QED
    BY <1>1, <1>2, <1>4, <1>5, <2>1, Finishes
<1>6. CASE I!Ends(p, "error")
  BY <1>1, <1>2, <1>6, FailsKeeps
<1>7. CASE I!Sets(p, [op[p] EXCEPT !.at = "write path", !.read = path]) /\ UNCHANGED last
  <2> DEFINE o == [op[p] EXCEPT !.at = "write path", !.read = path]
  <2>1. op' = [op EXCEPT ![p] = o] /\ platform' = platform /\ last' = last
    BY <1>7 DEF I!Sets
  <2>2. /\ DOMAIN o = Fields /\ o.at = "write path" /\ o.version = op[p].version
        /\ o.command = op[p].command /\ o.alone = op[p].alone /\ o.read = path
    BY <1>3 DEF Command, Fields
  <2>3. /\ o.had <=> op[p].had
        /\ o.bare <=> op[p].bare
        /\ o.own <=> op[p].own
        /\ o.alone <=> op[p].alone
    BY <1>3 DEF Command, Fields
  <2>4. op'[p] = o /\ \A q \in Procs : q # p => op'[q] = op[q]
    BY <1>3, <2>1
  <2> HIDE DEF o
  <2>5. I!Runs' = I!Runs
    BY <1>1, <2>1 DEF I!Runs
  <2>6. (Undisturbed(p) => Stage(p))'
    BY <1>1, <1>2, <1>4, <2>2, <2>3, <2>4, <2>5 DEF Undisturbed, Stage
  <2>7. LaunchTypes' /\ Lone' /\ AllStages' /\ I!InstallHolds'
    BY <1>2, <1>3, <2>1, <2>2, <2>6, GoesOn
  <2>8. Paths'
    BY <1>1, <2>1, <2>2, <2>4 DEF LaunchInv, Paths, Shape
  <2> QED
    BY <2>7, <2>8 DEF LaunchInv
<1> QED
  BY <1>5, <1>6, <1>7 DEF I!ReadsPath

\* With the shim directory in front, PATH keeps its shape, and what was there.
LEMMA PrependShape ==
    ASSUME Paths, NEW s, Shape(s)
    PROVE  Shape(I!Prepend(s))
<1>1. s \in Seq(Segments) /\ last.foreign \in Seq(Foreign)
  BY DEF Shape, Paths
<1>2. CASE I!Contains(s, "shims")
  BY <1>2 DEF I!Prepend, I!ShimDir
<1>3. CASE ~I!Contains(s, "shims")
  <2>1. I!Prepend(s) = <<"shims">> \o s
    BY <1>3 DEF I!Prepend, I!ShimDir
  <2>2. \A i \in 1..Len(s) : s[i] # "shims"
    BY <1>3 DEF I!Contains
  <2>3. <<"shims">> \in Seq(Segments)
    BY DEF Segments
  <2>4. /\ <<"shims">> \o s \in Seq(Segments)
        /\ \A i \in DOMAIN (<<"shims">> \o s) : (<<"shims">> \o s)[i] = "shims" => i = 1
    BY <1>1, <2>2, <2>3
  <2>5. s # <<"shims">> \o last.foreign
    <3> SUFFICES ASSUME s = <<"shims">> \o last.foreign PROVE FALSE
      OBVIOUS
    <3>1. Len(s) >= 1 /\ s[1] = "shims"
      BY <1>1
    <3>2. 1 \in 1..Len(s)
      BY <1>1, <3>1
    <3> QED
      BY <2>2, <3>1, <3>2
  <2>6. ~last.raced => <<"shims">> \o s = <<"shims">> \o last.foreign
    BY <2>5 DEF Shape
  <2> QED
    BY <2>1, <2>4, <2>6 DEF Shape
<1> QED
  BY <1>2, <1>3

LEMMA WritesPathKeeps ==
    ASSUME LaunchInv, NEW p \in Procs, I!WritesPath(p)
    PROVE  LaunchInv'
<1>1. op[p].at = "write path" /\ UNCHANGED <<bin, shims>>
  BY DEF I!WritesPath
<1>2. /\ DOMAIN bin' = {"exe", "old"} /\ DOMAIN shims' = I!Exes \cup I!Shims
      /\ Undisturbed(p) => Stage(p)
      /\ op[p].at # "idle"
  BY <1>1, Known
<1>3. CASE path' = path /\ I!Ends(p, "error")
  BY <1>1, <1>2, <1>3, FailsKeeps
<1>4. CASE /\ path' = (IF I!Prepend(op[p].read) = op[p].read THEN path ELSE I!Prepend(op[p].read))
           /\ I!Ends(p, "done")
  <2>1. I!Runs' = I!Runs /\ DOMAIN op = Procs /\ DOMAIN last = {"ended", "foreign", "raced"}
    BY <1>1, <1>4 DEF I!Runs, I!Ends, I!Sets, LaunchInv, LaunchTypes
  <2>2. Undisturbed(p) => I!Runs' = op[p].version
    BY <1>1, <1>2, <2>1 DEF Stage
  <2>3. LaunchTypes' /\ Lone' /\ AllStages' /\ I!InstallHolds'
    BY <1>2, <1>4, <2>2, Ended
  <2>4. /\ op'[p].at = "idle" /\ \A q \in Procs : q # p => op'[q] = op[q]
        /\ last'.foreign = last.foreign /\ last'.raced = last.raced
    BY <1>4, <2>1 DEF I!Ends, I!Sets, I!Idle
  <2>5. Shape(path) /\ Shape(I!Prepend(op[p].read))
    BY <1>1, PrependShape DEF LaunchInv, Paths
  <2>6. path' \in {path, I!Prepend(op[p].read)}
    BY <1>4
  <2>7. Shape(path')
    BY <2>5, <2>6
  <2>8. Paths'
    BY <2>4, <2>7 DEF LaunchInv, Paths, Shape
  <2> QED
    BY <2>3, <2>8 DEF LaunchInv
<1> QED
  BY <1>3, <1>4 DEF I!WritesPath

LEMMA AppendFacts ==
    ASSUME NEW S, NEW s \in Seq(S), NEW x \in S
    PROVE  /\ Append(s, x) \in Seq(S)
           /\ \A i \in DOMAIN Append(s, x) :
                (i \in DOMAIN s /\ Append(s, x)[i] = s[i]) \/ Append(s, x)[i] = x
           /\ \A y : Append(<<y>> \o s, x) = <<y>> \o Append(s, x)
<1>1. /\ Append(s, x) \in Seq(S)
      /\ \A i \in DOMAIN Append(s, x) :
           (i \in DOMAIN s /\ Append(s, x)[i] = s[i]) \/ Append(s, x)[i] = x
  OBVIOUS
<1>2. ASSUME NEW y PROVE Append(<<y>> \o s, x) = <<y>> \o Append(s, x)
  <2> DEFINE T == S \cup {y}
  <2>1. s \in Seq(T) /\ x \in T /\ <<y>> \in Seq(T)
    OBVIOUS
  <2> HIDE DEF T
  <2> QED
    BY <2>1
<1> QED
  BY <1>1, <1>2

LEMMA EditsPathKeeps ==
    ASSUME LaunchInv, I!EditsPath
    PROVE  LaunchInv'
<1>1. UNCHANGED <<platform, bin, shims, op>>
  BY DEF I!EditsPath
<1>2. PICK seg \in Foreign :
        /\ path' = Append(path, seg)
        /\ last' = [last EXCEPT !.foreign = Append(@, seg),
                                !.raced = @ \/ \E q \in Procs : op[q].at = "write path"]
  BY DEF I!EditsPath
<1>3. DOMAIN last = {"ended", "foreign", "raced"} /\ DOMAIN last' = DOMAIN last
      /\ last'.ended = last.ended /\ last'.foreign = Append(last.foreign, seg)
  BY <1>2 DEF LaunchInv, LaunchTypes
<1>4. last'.raced <=> last.raced \/ \E q \in Procs : op[q].at = "write path"
  BY <1>2, <1>3
<1>5. LaunchTypes'
  BY <1>1, <1>3 DEF LaunchInv, LaunchTypes, Command, I!Exes, I!Shims
<1>6. I!Own' = I!Own /\ I!Runs' = I!Runs /\ I!Active' = I!Active
  BY <1>1 DEF I!Own, I!Runs, I!Active
<1>7. Lone' /\ AllStages'
  BY <1>1, <1>6 DEF LaunchInv, Lone, AllStages, Stage, Undisturbed
<1>8. I!InstallHolds'
  BY <1>1, <1>3, <1>6 DEF LaunchInv, I!InstallHolds
<1>9. Paths'
  <2>1. /\ last.foreign \in Seq(Foreign) /\ path \in Seq(Segments)
        /\ \A i \in DOMAIN path : path[i] = "shims" => i = 1
        /\ ~last.raced => path \in {last.foreign, <<"shims">> \o last.foreign}
        /\ \A p \in Procs : op[p].at = "write path" => Shape(op[p].read)
    BY DEF LaunchInv, Paths, Shape
  <2>2. seg \in Segments /\ seg # "shims"
    BY <1>2, LaunchConstants DEF Segments
  <2>3. last'.foreign \in Seq(Foreign) /\ path' \in Seq(Segments)
    BY <1>2, <1>3, <2>1, <2>2, AppendFacts
  <2>4. \A i \in DOMAIN path' : path'[i] = "shims" => i = 1
    <3>1. \A i \in DOMAIN Append(path, seg) :
            (i \in DOMAIN path /\ Append(path, seg)[i] = path[i]) \/ Append(path, seg)[i] = seg
      BY <2>1, <2>2, AppendFacts
    <3> QED
      BY <1>2, <2>1, <2>2, <3>1
  <2>5. ASSUME ~last'.raced
        PROVE  path' \in {last'.foreign, <<"shims">> \o last'.foreign}
    <3>1. Append(<<"shims">> \o last.foreign, seg) = <<"shims">> \o Append(last.foreign, seg)
      BY <2>1, AppendFacts, ZenonT(40)
    <3> QED
      BY <1>2, <1>3, <1>4, <2>1, <2>5, <3>1
  <2>6. ASSUME NEW p \in Procs, op'[p].at = "write path" PROVE Shape(op[p].read) /\ last'.raced
    BY <1>1, <1>4, <2>1, <2>6
  <2>7. Shape(path)'
    BY <2>3, <2>4, <2>5 DEF Shape
  <2>8. \A p \in Procs : op'[p].at = "write path" => Shape(op[p].read)'
    BY <1>1, <2>6 DEF Shape
  <2> QED
    BY <1>1, <2>3, <2>7, <2>8 DEF Paths, Shape
<1> QED
  BY <1>5, <1>7, <1>8, <1>9 DEF LaunchInv

-----------------------------------------------------------------------------

LaunchHolds == platform # None => LaunchInv

LEMMA InstallerInit ==
    ASSUME I!Init
    PROVE  LaunchInv
<1>1. /\ \A p \in Procs : op[p] = I!Idle
      /\ DOMAIN op = Procs /\ platform \in Platforms
      /\ bin = [exe |-> None, old |-> None]
      /\ shims = [f \in I!Exes \cup I!Shims |-> None]
      /\ path = <<>>
      /\ last = [ended |-> I!Idle, foreign |-> <<>>, raced |-> FALSE]
  BY DEF I!Init
<1>2. \A p \in Procs : op[p].at = "idle"
  BY <1>1 DEF I!Idle
<1>3. LaunchTypes
  BY <1>1, <1>2 DEF LaunchTypes
<1>4. Lone /\ AllStages
  BY <1>2 DEF Lone, AllStages, Undisturbed
<1>5. last.ended.at = "idle" /\ last.foreign = <<>>
  BY <1>1 DEF I!Idle
<1>6. I!InstallHolds
  BY <1>5 DEF I!InstallHolds
<1>7. Paths
  <2>1. Shape(<<>>)
    BY <1>5 DEF Shape
  <2>2. last.foreign \in Seq(Foreign)
    BY <1>5
  <2> QED
    BY <1>1, <1>2, <2>1, <2>2 DEF Paths
<1> QED
  BY <1>3, <1>4, <1>6, <1>7 DEF LaunchInv

LEMMA InstallerStep == LaunchHolds /\ [Next]_vars => LaunchHolds'
<1> SUFFICES ASSUME LaunchHolds, [Next]_vars
             PROVE  LaunchHolds'
  OBVIOUS
<1>1. CASE platform # None /\ I!Next
  <2>1. LaunchInv
    BY <1>1 DEF LaunchHolds
  <2>2. CASE I!Sweeps
    BY <2>1, <2>2, SweepsKeeps DEF LaunchHolds
  <2>3. CASE I!EditsPath
    BY <2>1, <2>3, EditsPathKeeps DEF LaunchHolds
  <2>4. CASE \E p \in Procs : I!Step(p)
    <3>1. PICK p \in Procs : I!Step(p)
      BY <2>4
    <3> QED
      BY <2>1, <3>1, BeginsKeeps, DiesKeeps, PlacesKeeps, MovesAsideKeeps, TruncatesKeeps,
         CopiesKeeps, RollsBackKeeps, CopiesGitKeeps, WritesLauncherKeeps, WritesShimsKeeps,
         ReadsPathKeeps, WritesPathKeeps, RemovesShimsKeeps, RemovesBinKeeps
         DEF I!Step, LaunchHolds
  <2> QED
    BY <1>1, <2>2, <2>3, <2>4 DEF I!Next
<1>2. CASE UNCHANGED installer
  <2>1. UNCHANGED <<platform, bin, shims, path, op, last>>
    BY <1>2 DEF installer
  <2>2. I!Own' = I!Own /\ I!Runs' = I!Runs /\ I!Active' = I!Active
    BY <2>1 DEF I!Own, I!Runs, I!Active
  <2> QED
    BY <2>1, <2>2 DEF LaunchHolds, LaunchInv, LaunchTypes, Command, Lone, AllStages, Stage,
       Undisturbed, I!InstallHolds, Paths, Shape, I!Exes, I!Shims
<1> QED
  BY <1>1, <1>2 DEF Next, vars

\* Whatever commands overlap, die or find swept from under them: an install that reports
\* success and had no company has put its gitc in place, one that fails has left the old
\* one, or its backup where renaming it back failed too, and PATH keeps what others have in it.
THEOREM LaunchersKept == Spec => []LaunchersHold
<1>1. Init => LaunchHolds
  BY InstallerInit DEF Init, LaunchHolds, InstallerIdle
<1>2. LaunchHolds => LaunchersHold
  BY DEF LaunchHolds, LaunchersHold, LaunchInv, I!PathKept, I!ShimDir, Paths, Shape
<1> QED
  BY <1>1, <1>2, InstallerStep, PTL DEF Spec

-----------------------------------------------------------------------------
(* The ledger: what it does with sequences of rows.                          *)

Rows == [key : STRING, at : Nat]
Docs == [DOMAIN Cap -> Seq(Rows)]
Once(rows) == \A i, j \in DOMAIN rows : rows[i].key = rows[j].key => i = j

LEMMA LedgerConstants ==
    /\ DOMAIN Cap = {"gates", "leaks", "vulns"} /\ "gates" \in DOMAIN Cap
    /\ \A s \in DOMAIN Cap : Cap[s] \in Nat
    /\ \A c \in Calls : c.section \in DOMAIN Cap /\ c.keys \in Seq(STRING)
  BY LedgerAssumption

\* A set that has 0 and the next number of each of its numbers has them all.
LEMMA Induct ==
    ASSUME NEW S, 0 \in S, \A n \in Nat : n \in S => n + 1 \in S
    PROVE  Nat \subseteq S
<1> SUFFICES ASSUME NEW n \in Nat, n \notin S PROVE FALSE
  OBVIOUS
<1> DEFINE T == {x \in 0..n : 0..x \subseteq S}
<1>1. IsFiniteSet(T) /\ T \subseteq Int /\ T # {}
  <2>1. 0 \in T
    OBVIOUS
  <2>2. IsFiniteSet(0..n) /\ T \subseteq 0..n
    BY FS_Interval
  <2> QED
    BY <2>1, <2>2, FS_Subset, SMTT(30)
<1>2. V!Max(T) \in T /\ \A y \in T : V!Max(T) >= y
  BY <1>1, MaxFacts
<1>3. PICK m \in T : \A y \in T : m >= y
  BY <1>2
<1>4. m \in Nat /\ m \in 0..m /\ m \in S /\ m # n /\ m < n
  BY <1>3
<1>5. m + 1 \in S /\ 0..(m + 1) = 0..m \cup {m + 1}
  BY <1>4
<1>6. m + 1 \in T
  BY <1>3, <1>4, <1>5
<1> QED
  BY <1>3, <1>4, <1>6

\* The newest rows of a section.
Cut(c, s) == SubSeq(s, B!Max({1, Len(s) - c + 1}), Len(s))

LEMMA CutFacts ==
    ASSUME NEW S, NEW s \in Seq(S), NEW c \in Nat
    PROVE  /\ Cut(c, s) \in Seq(S)
           /\ Len(Cut(c, s)) = IF Len(s) <= c THEN Len(s) ELSE c
           /\ \A i \in 1..Len(Cut(c, s)) : Cut(c, s)[i] = s[Len(s) - Len(Cut(c, s)) + i]
<1> DEFINE n == Len(s) - c + 1
           m == B!Max({1, n})
<1>1. Len(s) \in Nat /\ n \in Int
  OBVIOUS
<1>2. m = IF n <= 1 THEN 1 ELSE n
  <2>1. \E x \in {1, n} : \A y \in {1, n} : x >= y
    BY <1>1
  <2> HIDE DEF n
  <2>2. m \in {1, n} /\ m >= 1 /\ m >= n
    BY <2>1 DEF B!Max
  <2> QED
    BY <1>1, <2>2
<1>3. Cut(c, s) = SubSeq(s, m, Len(s))
  BY DEF Cut
<1>4. m \in 1..(Len(s) + 1)
  BY <1>1, <1>2
<1> HIDE DEF m
<1>5. /\ SubSeq(s, m, Len(s)) \in Seq(S)
      /\ Len(SubSeq(s, m, Len(s))) = Len(s) - m + 1
      /\ \A i \in 1..(Len(s) - m + 1) : SubSeq(s, m, Len(s))[i] = s[m + i - 1]
  BY <1>1, <1>4, SubSeqProperties
<1>6. Len(s) - m + 1 = IF Len(s) <= c THEN Len(s) ELSE c
  BY <1>1, <1>2
<1>7. Len(Cut(c, s)) = Len(s) - m + 1
  BY <1>3, <1>5
<1>8. ASSUME NEW i \in 1..Len(Cut(c, s)) PROVE Cut(c, s)[i] = s[Len(s) - Len(Cut(c, s)) + i]
  <2>1. Len(s) - Len(Cut(c, s)) + i = m + i - 1 /\ i \in 1..(Len(s) - m + 1)
    BY <1>1, <1>4, <1>7
  <2>2. Cut(c, s)[i] = s[m + i - 1]
    BY <1>3, <1>5, <2>1
  <2> QED
    BY <2>1, <2>2
<1> QED
  BY <1>3, <1>5, <1>6, <1>7, <1>8

LEMMA CutOfCut ==
    ASSUME NEW S, NEW s \in Seq(S), NEW t \in Seq(S), NEW c \in Nat
    PROVE  Cut(c, Cut(c, s) \o t) = Cut(c, s \o t)
<1> DEFINE k == Cut(c, s)
           l == k \o t
           r == s \o t
<1>1. /\ k \in Seq(S) /\ Len(k) = IF Len(s) <= c THEN Len(s) ELSE c
      /\ \A i \in 1..Len(k) : k[i] = s[Len(s) - Len(k) + i]
  BY CutFacts
<1>2. Len(s) \in Nat /\ Len(t) \in Nat /\ Len(k) \in Nat
  BY <1>1
<1> HIDE DEF k
<1>3. /\ l \in Seq(S) /\ Len(l) = Len(k) + Len(t)
      /\ r \in Seq(S) /\ Len(r) = Len(s) + Len(t)
  BY <1>1
<1>10. /\ \A i \in 1..(Len(k) + Len(t)) : l[i] = IF i <= Len(k) THEN k[i] ELSE t[i - Len(k)]
       /\ \A i \in 1..(Len(s) + Len(t)) : r[i] = IF i <= Len(s) THEN s[i] ELSE t[i - Len(s)]
  BY <1>1, ConcatProperties
<1> HIDE DEF l, r
<1>4. ASSUME NEW i \in 1..Len(l) PROVE l[i] = r[Len(s) - Len(k) + i]
  <2> DEFINE j == Len(s) - Len(k) + i
  <2>1. i \in 1..(Len(k) + Len(t)) /\ i \in Int
    BY <1>3, <1>2
  <2>2. Len(k) <= Len(s)
    BY <1>1, <1>2
  <2>3. /\ j \in 1..(Len(s) + Len(t))
        /\ i <= Len(k) <=> j <= Len(s)
        /\ j - Len(s) = i - Len(k)
        /\ i <= Len(k) => i \in 1..Len(k)
    BY ONLY <1>2, <2>1, <2>2
  <2> HIDE DEF j
  <2>4. l[i] = IF i <= Len(k) THEN k[i] ELSE t[i - Len(k)]
    BY <1>10, <2>1
  <2>5. r[j] = IF j <= Len(s) THEN s[j] ELSE t[j - Len(s)]
    BY <1>10, <2>3
  <2>6. i <= Len(k) => k[i] = s[j]
    BY <1>1, <2>3 DEF j
  <2>7. l[i] = r[j]
    BY <2>3, <2>4, <2>5, <2>6
  <2> QED
    BY <2>7 DEF j
<1>5. /\ Cut(c, l) \in Seq(S) /\ Len(Cut(c, l)) = IF Len(l) <= c THEN Len(l) ELSE c
      /\ \A i \in 1..Len(Cut(c, l)) : Cut(c, l)[i] = l[Len(l) - Len(Cut(c, l)) + i]
  BY <1>3, CutFacts
<1>6. /\ Cut(c, r) \in Seq(S) /\ Len(Cut(c, r)) = IF Len(r) <= c THEN Len(r) ELSE c
      /\ \A i \in 1..Len(Cut(c, r)) : Cut(c, r)[i] = r[Len(r) - Len(Cut(c, r)) + i]
  BY <1>3, CutFacts
<1>7. Len(Cut(c, l)) = Len(Cut(c, r)) /\ Len(Cut(c, l)) <= Len(l) /\ Len(Cut(c, l)) \in Nat
  BY <1>1, <1>2, <1>3, <1>5, <1>6
<1>8. ASSUME NEW i \in 1..Len(Cut(c, l)) PROVE Cut(c, l)[i] = Cut(c, r)[i]
  <2>1. Len(l) - Len(Cut(c, l)) + i \in 1..Len(l)
    BY <1>2, <1>3, <1>7
  <2>2. Cut(c, l)[i] = r[Len(s) - Len(k) + (Len(l) - Len(Cut(c, l)) + i)]
    BY <1>4, <1>5, <2>1
  <2>3. Cut(c, r)[i] = r[Len(r) - Len(Cut(c, r)) + i]
    BY <1>6, <1>7
  <2>4. Len(s) - Len(k) + (Len(l) - Len(Cut(c, l)) + i) = Len(r) - Len(Cut(c, r)) + i
    BY <1>2, <1>3, <1>7
  <2> QED
    BY <2>2, <2>3, <2>4
<1>9. Cut(c, l) = Cut(c, r)
  BY <1>5, <1>6, <1>7, <1>8, SeqEqual
<1> QED
  BY <1>9 DEF l, r, k

LEMMA CutOnce ==
    ASSUME NEW S, NEW s \in Seq(S), NEW c \in Nat, Once(s)
    PROVE  Once(Cut(c, s))
<1> DEFINE k == Cut(c, s)
<1>1. /\ k \in Seq(S) /\ Len(k) = IF Len(s) <= c THEN Len(s) ELSE c
      /\ \A i \in 1..Len(k) : k[i] = s[Len(s) - Len(k) + i]
  BY CutFacts
<1>2. Len(s) \in Nat /\ Len(k) \in Nat /\ DOMAIN k = 1..Len(k) /\ DOMAIN s = 1..Len(s)
  BY <1>1
<1> HIDE DEF k
<1>3. ASSUME NEW i \in DOMAIN k
      PROVE  i \in Int /\ Len(s) - Len(k) + i \in DOMAIN s /\ k[i] = s[Len(s) - Len(k) + i]
  <2>1. i \in 1..Len(k) /\ Len(k) <= Len(s)
    BY <1>1, <1>2
  <2>2. i \in Int /\ Len(s) - Len(k) + i \in 1..Len(s)
    BY ONLY <1>2, <2>1
  <2> QED
    BY <1>1, <1>2, <2>1, <2>2
<1>4. ASSUME NEW i \in DOMAIN k, NEW j \in DOMAIN k, k[i].key = k[j].key PROVE i = j
  <2>1. Len(s) - Len(k) + i = Len(s) - Len(k) + j
    BY <1>3, <1>4 DEF Once
  <2> QED
    BY <1>2, <1>3, <2>1
<1> QED
  BY <1>4 DEF Once, k

-----------------------------------------------------------------------------
(* Rows that are recorded once.                                              *)

NextRows(rows, keys, at0, f, n) ==
    IF n = 0 THEN rows
    ELSE IF B!Recorded(f[n - 1], keys[n]) THEN f[n - 1]
    ELSE Append(f[n - 1], [key |-> keys[n], at |-> at0])
IsAfter(rows, keys, at0, f) == f = [n \in 0..Len(keys) |-> NextRows(rows, keys, at0, f, n)]

LEMMA AfterExists ==
    ASSUME NEW rows, NEW keys, NEW at0, Len(keys) \in Nat
    PROVE  \E f : IsAfter(rows, keys, at0, f)
<1> DEFINE G(f, m) == NextRows(rows, keys, at0, f, m)
           Upto(n, f) == f = [m \in 0..n |-> G(f, m)]
           S == {n \in Nat : \E f : Upto(n, f)}
<1>1. 0 \in S
  <2>1. Upto(0, [m \in 0..0 |-> rows])
    BY DEF NextRows
  <2> QED
    BY <2>1
<1>2. ASSUME NEW n \in Nat, n \in S PROVE n + 1 \in S
  <2>1. PICK f : Upto(n, f)
    BY <1>2
  <2> DEFINE g == [m \in 0..(n + 1) |-> IF m = n + 1 THEN G(f, n + 1) ELSE f[m]]
  <2>2. \A m \in 0..n : g[m] = f[m] /\ m \in 0..(n + 1)
    OBVIOUS
  <2>3. \A m \in 0..(n + 1) : G(g, m) = G(f, m)
    <3> SUFFICES ASSUME NEW m \in 0..(n + 1), m # 0
                 PROVE  G(g, m) = G(f, m)
      BY DEF NextRows
    <3>1. m - 1 \in 0..n
      OBVIOUS
    <3>2. g[m - 1] = f[m - 1]
      BY <2>2, <3>1
    <3> HIDE DEF g
    <3> QED
      BY <3>2 DEF NextRows
  <2>4. \A m \in 0..n : f[m] = G(f, m)
    BY <2>1
  <2>5. \A m \in 0..(n + 1) : g[m] = G(g, m)
    <3> SUFFICES ASSUME NEW m \in 0..(n + 1) PROVE g[m] = G(f, m)
      BY <2>3
    <3>1. CASE m = n + 1
      BY <3>1
    <3>2. CASE m # n + 1
      <4>1. m \in 0..n
        BY <3>2
      <4> QED
        BY <4>1, <2>2, <2>4
    <3> QED
      BY <3>1, <3>2
  <2>6. Upto(n + 1, g)
    <3>1. g = [m \in 0..(n + 1) |-> g[m]]
      OBVIOUS
    <3> HIDE DEF g, G
    <3> QED
      BY <2>5, <3>1
  <2> HIDE DEF Upto
  <2> QED
    BY <2>6
<1>3. Nat \subseteq S
  <2> HIDE DEF S
  <2> QED
    BY <1>1, <1>2, Induct
<1> QED
  BY <1>3 DEF IsAfter

LEMMA AddsNewFacts ==
    ASSUME NEW rows \in Seq(Rows), NEW keys \in Seq(STRING), NEW at0 \in Nat
    PROVE  /\ B!AddsNew(rows, keys, at0) \in Seq(Rows)
           /\ Once(rows) => Once(B!AddsNew(rows, keys, at0))
<1> DEFINE L == Len(keys)
<1>1. L \in Nat
  OBVIOUS
<1>2. PICK f : IsAfter(rows, keys, at0, f) /\ B!AddsNew(rows, keys, at0) = f[L]
  <2>1. B!AddsNew(rows, keys, at0) = (CHOOSE f : IsAfter(rows, keys, at0, f))[L]
    BY DEF B!AddsNew, IsAfter, NextRows
  <2> QED
    BY <1>1, <2>1, AfterExists
<1>3. \A n \in 0..L : f[n] = NextRows(rows, keys, at0, f, n)
  BY <1>2 DEF IsAfter
<1> DEFINE Good(n) == f[n] \in Seq(Rows) /\ (Once(rows) => Once(f[n]))
           T == {n \in Nat : n <= L => Good(n)}
<1>4. 0 \in T
  <2>1. f[0] = rows
    <3>1. 0 \in 0..L
      BY <1>1
    <3>2. f[0] = NextRows(rows, keys, at0, f, 0)
      BY <1>3, <3>1
    <3> QED
      BY <3>2 DEF NextRows
  <2> QED
    BY <2>1
<1>5. ASSUME NEW n \in Nat, n \in T PROVE n + 1 \in T
  <2> SUFFICES ASSUME n + 1 <= L PROVE Good(n + 1)
    OBVIOUS
  <2>1. n <= L /\ n + 1 \in 0..L /\ n + 1 \in 1..L /\ n + 1 # 0 /\ (n + 1) - 1 = n
    BY <1>1
  <2>2. f[n] \in Seq(Rows) /\ (Once(rows) => Once(f[n]))
    BY <1>5, <2>1
  <2>3. keys[n + 1] \in STRING
    BY <2>1
  <2> DEFINE x == [key |-> keys[n + 1], at |-> at0]
  <2>4. f[n + 1] = IF B!Recorded(f[n], keys[n + 1]) THEN f[n] ELSE Append(f[n], x)
    BY <1>3, <2>1 DEF NextRows
  <2>5. x \in Rows /\ x.key = keys[n + 1]
    BY <2>3 DEF Rows
  <2> HIDE DEF x
  <2>6. CASE B!Recorded(f[n], keys[n + 1])
    BY <2>2, <2>4, <2>6
  <2>7. CASE ~B!Recorded(f[n], keys[n + 1])
    <3>1. f[n + 1] = Append(f[n], x) /\ f[n + 1] \in Seq(Rows)
      BY <2>2, <2>4, <2>5, <2>7
    <3>2. \A i \in DOMAIN f[n] : f[n][i].key # x.key
      BY <2>5, <2>7 DEF B!Recorded
    <3>3. ASSUME NEW i \in DOMAIN Append(f[n], x)
          PROVE  \/ i \in DOMAIN f[n] /\ Append(f[n], x)[i] = f[n][i]
                 \/ i = Len(f[n]) + 1 /\ Append(f[n], x)[i] = x
      BY <2>2, <2>5
    <3>4. Once(f[n]) => Once(Append(f[n], x))
      BY <3>2, <3>3 DEF Once
    <3> QED
      BY <2>2, <3>1, <3>4
  <2> QED
    BY <2>6, <2>7
<1>6. Nat \subseteq T
  <2> HIDE DEF T
  <2> QED
    BY <1>4, <1>5, Induct
<1> QED
  BY <1>1, <1>2, <1>6

-----------------------------------------------------------------------------
(* The state of the ledger.                                                  *)

Update == [at : {"load", "write", "remove", "rename"}, dir : B!GitDirs, call : Calls,
           time : Nat, anew : BOOLEAN, doc : Docs]
Ledgers == {B!Absent, B!Unreadable} \cup {B!Kept(doc) : doc \in Docs}

LedgerTypes ==
    /\ calls \in Nat
    /\ file \in [B!GitDirs -> Ledgers]
    /\ update \in [Procs -> {B!Idle} \cup Update]
    /\ DOMAIN history = B!GitDirs
    /\ \A d \in B!GitDirs :
         DOMAIN history[d] = {"rows", "raced", "edited"} /\ history[d].rows \in Seq(Rows)

\* Sections in which a leak or a vulnerability has one row, and that keep their caps.
Unique(doc) == \A s \in DOMAIN Cap : s # "gates" => Once(doc[s])
Capped(doc) == \A s \in DOMAIN Cap : Len(doc[s]) <= Cap[s]
Whole ==
    /\ \A d \in B!GitDirs :
         /\ file[d] = B!Unreadable => history[d].edited
         /\ file[d].kind = "kept" => Unique(file[d].doc) /\ Capped(file[d].doc)
    /\ \A p \in Procs :
         /\ update[p].at \in {"write", "remove", "rename"} => Unique(update[p].doc)
         /\ update[p].at \in {"remove", "rename"} => Capped(update[p].doc)

\* An update that has read the ledger of d and not put it back, and the verdicts it adds.
Holds(u, d) == u.at \in {"write", "remove", "rename"} /\ u.dir = d
Put(u) == IF u.call.section = "gates" THEN B!Made(u.call.keys, u.time) ELSE <<>>
New(rows) == Cut(Cap["gates"], rows)
Past(u, rows) == IF u.anew THEN <<>> ELSE rows

\* What is put down in a ledger whose updates do not overlap: the file holds it, but
\* while its last update has it in hand.
Story(d) ==
    /\ \A p, q \in Procs : Holds(update[p], d) /\ Holds(update[q], d) => p = q
    /\ file[d].kind = "kept" => file[d].doc["gates"] = New(history[d].rows)
    /\ file[d] = B!Unreadable => history[d].rows = <<>>
    /\ file[d] = B!Absent =>
         history[d].rows = <<>> \/ \E p \in Procs : Holds(update[p], d) /\ update[p].at = "rename"
    /\ \A p \in Procs : Holds(update[p], d) =>
         /\ update[p].at = "write" =>
              update[p].doc["gates"] = New(Past(update[p], history[d].rows)) \o Put(update[p])
         /\ update[p].at \in {"remove", "rename"} =>
              update[p].doc["gates"] = New(Past(update[p], history[d].rows) \o Put(update[p]))
Stories == \A d \in B!GitDirs : ~history[d].raced => Story(d)

LedgerInv == LedgerTypes /\ Whole /\ Stories

LEMMA Kinds ==
    /\ B!Absent.kind = "absent" /\ B!Unreadable.kind = "unreadable" /\ B!Absent # B!Unreadable
    /\ \A doc : B!Kept(doc).kind = "kept" /\ B!Kept(doc).doc = doc
<1>1. B!Absent.kind = "absent" /\ B!Unreadable.kind = "unreadable"
  BY DEF B!Absent, B!Unreadable
<1>2. B!Absent # B!Unreadable
  BY <1>1
<1>3. \A doc : B!Kept(doc).kind = "kept" /\ B!Kept(doc).doc = doc
  BY DEF B!Kept
<1> QED
  BY <1>1, <1>2, <1>3

\* A ledger is not there, cannot be read, or is kept.
LEMMA LedgerIs ==
    ASSUME LedgerTypes, NEW d \in B!GitDirs
    PROVE  \/ file[d] = B!Absent /\ file[d].kind # "kept" /\ file[d] # B!Unreadable
           \/ file[d] = B!Unreadable /\ file[d].kind # "kept" /\ file[d] # B!Absent
           \/ file[d].kind = "kept" /\ file[d].doc \in Docs
                /\ file[d] # B!Absent /\ file[d] # B!Unreadable
<1>1. file[d] \in {B!Absent, B!Unreadable} \cup {B!Kept(doc) : doc \in Docs}
  BY DEF LedgerTypes, Ledgers
<1>2. CASE file[d] \in {B!Absent, B!Unreadable}
  BY <1>2, Kinds
<1>3. CASE file[d] \in {B!Kept(doc) : doc \in Docs}
  <2>1. PICK doc \in Docs : file[d] = B!Kept(doc)
    BY <1>3
  <2> QED
    BY <2>1, Kinds
<1> QED
  BY <1>1, <1>2, <1>3

LEMMA UpdateFacts ==
    ASSUME LedgerTypes, NEW p \in Procs, update[p].at # "idle"
    PROVE  update[p] \in Update
  BY DEF LedgerTypes, B!Idle

LEMMA EmptyFacts == B!Empty \in Docs /\ Unique(B!Empty) /\ B!Empty["gates"] = <<>>
<1>1. B!Empty = [s \in DOMAIN Cap |-> <<>>]
  BY DEF B!Empty, B!Sections
<1>2. \A s \in DOMAIN Cap : B!Empty[s] = <<>>
  BY <1>1
<1>3. B!Empty \in Docs
  <2>1. <<>> \in Seq(Rows)
    OBVIOUS
  <2> QED
    BY <1>1, <2>1 DEF Docs
<1>4. Once(<<>>)
  BY DEF Once
<1> QED
  BY <1>2, <1>3, <1>4, LedgerConstants DEF Unique

LEMMA MadeFacts ==
    ASSUME NEW keys \in Seq(STRING), NEW t \in Nat
    PROVE  B!Made(keys, t) \in Seq(Rows)
<1>1. DOMAIN keys = 1..Len(keys) /\ Len(keys) \in Nat /\ \A i \in DOMAIN keys : keys[i] \in STRING
  OBVIOUS
<1>2. \A i \in 1..Len(keys) : [key |-> keys[i], at |-> t] \in Rows
  BY <1>1 DEF Rows
<1>3. B!Made(keys, t) = [i \in 1..Len(keys) |-> [key |-> keys[i], at |-> t]]
  BY <1>1 DEF B!Made
<1>4. [i \in 1..Len(keys) |-> [key |-> keys[i], at |-> t]] \in [1..Len(keys) -> Rows]
  BY <1>2
<1> QED
  BY <1>1, <1>3, <1>4

LEMMA PutFacts ==
    ASSUME NEW u \in Update
    PROVE  Put(u) \in Seq(Rows)
<1>1. u.call \in Calls /\ u.time \in Nat
  BY DEF Update
<1>2. u.call.keys \in Seq(STRING)
  BY <1>1, LedgerConstants
<1>3. B!Made(u.call.keys, u.time) \in Seq(Rows)
  BY <1>1, <1>2, MadeFacts
<1>4. <<>> \in Seq(Rows)
  OBVIOUS
<1> QED
  BY <1>3, <1>4 DEF Put

LEMMA AddsFacts ==
    ASSUME NEW doc \in Docs, NEW c \in Calls, NEW t \in Nat
    PROVE  LET new == B!Adds(doc, c.section, c.keys, t) IN
           /\ new \in Docs
           /\ Unique(doc) => Unique(new)
           /\ new["gates"] = doc["gates"] \o
                IF c.section = "gates" THEN B!Made(c.keys, t) ELSE <<>>
<1> DEFINE new == B!Adds(doc, c.section, c.keys, t)
           x == IF c.section = "gates" THEN doc[c.section] \o B!Made(c.keys, t)
                ELSE B!AddsNew(doc[c.section], c.keys, t)
<1>1. c.section \in DOMAIN Cap /\ c.keys \in Seq(STRING) /\ "gates" \in DOMAIN Cap
  BY LedgerConstants
<1>2. DOMAIN doc = DOMAIN Cap /\ \A s \in DOMAIN Cap : doc[s] \in Seq(Rows)
  BY DEF Docs
<1>3. new = [doc EXCEPT ![c.section] = x]
  BY DEF B!Adds
<1>4. x \in Seq(Rows)
  BY <1>1, <1>2, MadeFacts, AddsNewFacts, ConcatProperties
<1>5. c.section # "gates" /\ Once(doc[c.section]) => Once(x)
  BY <1>1, <1>2, AddsNewFacts
<1>6. c.section = "gates" => x = doc["gates"] \o B!Made(c.keys, t)
  OBVIOUS
<1> HIDE DEF x, new
<1>7. new[c.section] = x /\ \A s \in DOMAIN Cap : s # c.section => new[s] = doc[s]
  BY <1>1, <1>2, <1>3
<1>8. new \in Docs
  BY <1>3, <1>4 DEF Docs
<1>9. Unique(doc) => Unique(new)
  BY <1>1, <1>5, <1>7 DEF Unique
<1>10. doc["gates"] \o <<>> = doc["gates"]
  BY <1>1, <1>2, ConcatEmptySeq
<1>11. new["gates"] = doc["gates"] \o IF c.section = "gates" THEN B!Made(c.keys, t) ELSE <<>>
  BY <1>1, <1>6, <1>7, <1>10
<1> QED
  BY <1>8, <1>9, <1>11 DEF new

LEMMA TruncateFacts ==
    ASSUME NEW doc \in Docs
    PROVE  /\ B!Truncate(doc) \in Docs /\ Capped(B!Truncate(doc))
           /\ Unique(doc) => Unique(B!Truncate(doc))
           /\ B!Truncate(doc)["gates"] = New(doc["gates"])
<1>1. B!Truncate(doc) = [s \in DOMAIN Cap |-> Cut(Cap[s], doc[s])]
  BY DEF B!Truncate, B!Sections, Cut
<1>2. \A s \in DOMAIN Cap : doc[s] \in Seq(Rows) /\ Cap[s] \in Nat
  BY LedgerConstants DEF Docs
<1>3. ASSUME NEW s \in DOMAIN Cap
      PROVE  /\ Cut(Cap[s], doc[s]) \in Seq(Rows) /\ Len(Cut(Cap[s], doc[s])) <= Cap[s]
             /\ Once(doc[s]) => Once(Cut(Cap[s], doc[s]))
  <2>1. doc[s] \in Seq(Rows) /\ Cap[s] \in Nat /\ Len(doc[s]) \in Nat
    BY <1>2
  <2> QED
    BY <2>1, CutFacts, CutOnce
<1>4. B!Truncate(doc) \in Docs
  BY <1>1, <1>3 DEF Docs
<1>5. \A s \in DOMAIN Cap : B!Truncate(doc)[s] = Cut(Cap[s], doc[s])
  BY <1>1
<1> QED
  BY <1>3, <1>4, <1>5, LedgerConstants DEF Capped, Unique, New

LEMMA NewFacts ==
    /\ New(<<>>) = <<>>
    /\ \A s, t \in Seq(Rows) : New(New(s) \o t) = New(s \o t)
    /\ \A s \in Seq(Rows) : New(s) \in Seq(Rows)
<1>1. Cap["gates"] \in Nat
  BY LedgerConstants
<1>2. <<>> \in Seq(Rows) /\ Len(<<>>) = 0
  OBVIOUS
<1>3. Len(New(<<>>)) = 0 /\ New(<<>>) \in Seq(Rows)
  <2>1. PICK c \in Nat : c = Cap["gates"]
    BY <1>1
  <2>2. PICK e \in Seq(Rows) : e = <<>>
    BY <1>2
  <2>3. Cut(c, e) \in Seq(Rows) /\ Len(Cut(c, e)) = IF Len(e) <= c THEN Len(e) ELSE c
    BY CutFacts
  <2>4. Len(e) = 0
    BY <2>2
  <2>5. Len(Cut(c, e)) = 0
    BY <2>3, <2>4
  <2> QED
    BY <2>1, <2>2, <2>3, <2>5 DEF New
<1>4. New(<<>>) = <<>>
  BY <1>3, EmptySeq
<1> QED
  BY <1>1, <1>4, CutFacts, CutOfCut DEF New

\* A step that does not touch a ledger, nor what is in hand of it, leaves its story.
LEMMA StoryStays ==
    ASSUME NEW d, Story(d), file'[d] = file[d], history'[d].rows = history[d].rows,
           \A p \in Procs : Holds(update[p], d) \/ Holds(update'[p], d) => update'[p] = update[p]
    PROVE  Story(d)'
<1>1. \A p \in Procs : Holds(update'[p], d) <=> Holds(update[p], d)
  OBVIOUS
<1> QED
  BY <1>1 DEF Story, Past

-----------------------------------------------------------------------------
(* One lemma for each action.                                                *)

\* A process that goes on to u.
LEMMA SetsFacts ==
    ASSUME LedgerTypes, NEW p \in Procs, NEW u, B!Sets(p, u)
    PROVE  /\ update'[p] = u /\ \A q \in Procs : q # p => update'[q] = update[q]
           /\ u \in {B!Idle} \cup Update => update' \in [Procs -> {B!Idle} \cup Update]
  BY DEF LedgerTypes, B!Sets

LEMMA IdleHolds == \A d : ~Holds(B!Idle, d)
  BY DEF Holds, B!Idle

LEMMA RecordsKeeps ==
    ASSUME LedgerInv, NEW p \in Procs, B!Records(p)
    PROVE  LedgerInv'
<1>1. update[p].at = "idle" /\ calls' = calls + 1 /\ UNCHANGED <<file, history>>
  BY DEF B!Records
<1>2. PICK u : B!Sets(p, u) /\ u \in {B!Idle} \cup Update /\ u.at \in {"idle", "load"}
  <2>1. PICK c \in Calls :
          B!Sets(p, IF c.keys = <<>> \/ B!GitDir(c.place) = B!Nothing THEN B!Idle
                    ELSE [at |-> "load", dir |-> B!GitDir(c.place), call |-> c, time |-> calls',
                          anew |-> FALSE, doc |-> B!Empty])
    BY DEF B!Records
  <2>2. CASE c.keys = <<>> \/ B!GitDir(c.place) = B!Nothing
    <3>1. B!Sets(p, B!Idle)
      BY <2>1, <2>2
    <3> QED
      BY <3>1 DEF B!Idle
  <2>3. CASE ~(c.keys = <<>> \/ B!GitDir(c.place) = B!Nothing)
    <3> DEFINE u == [at |-> "load", dir |-> B!GitDir(c.place), call |-> c, time |-> calls',
                     anew |-> FALSE, doc |-> B!Empty]
    <3>1. B!Sets(p, u)
      BY <2>1, <2>3
    <3>2. B!GitDir(c.place) \in B!GitDirs
      BY <2>3 DEF B!GitDirs
    <3>3. calls' \in Nat
      BY <1>1 DEF LedgerInv, LedgerTypes
    <3>4. u \in Update /\ u.at = "load"
      BY <3>2, <3>3, EmptyFacts DEF Update
    <3> QED
      BY <3>1, <3>4
  <2> QED
    BY <2>2, <2>3
<1>3. /\ update'[p] = u /\ \A q \in Procs : q # p => update'[q] = update[q]
      /\ update' \in [Procs -> {B!Idle} \cup Update]
  BY <1>2, SetsFacts DEF LedgerInv
<1>4. LedgerTypes'
  BY <1>1, <1>3 DEF LedgerInv, LedgerTypes
<1>5. Whole'
  BY <1>1, <1>2, <1>3 DEF LedgerInv, Whole
<1>6. Stories'
  <2> SUFFICES ASSUME NEW d \in B!GitDirs, ~history[d].raced PROVE Story(d)'
    BY <1>1 DEF Stories
  <2>1. \A q \in Procs :
          Holds(update[q], d) \/ Holds(update'[q], d) => update'[q] = update[q]
    BY <1>1, <1>2, <1>3 DEF Holds
  <2> QED
    BY <1>1, <2>1, StoryStays DEF LedgerInv, Stories
<1> QED
  BY <1>4, <1>5, <1>6 DEF LedgerInv

LEMMA LoadsKeeps ==
    ASSUME LedgerInv, NEW p \in Procs, B!Loads(p)
    PROVE  LedgerInv'
<1> DEFINE d0 == update[p].dir
<1>0. PICK anew \in BOOLEAN :
        /\ ~anew => file[d0].kind = "kept"
        /\ B!Sets(p, [update[p] EXCEPT !.at = "write", !.anew = anew,
             !.doc = B!Adds(IF anew THEN B!Empty ELSE file[d0].doc,
                            update[p].call.section, update[p].call.keys, update[p].time)])
  BY DEF B!Loads
<1> DEFINE old == IF anew THEN B!Empty ELSE file[d0].doc
           new == B!Adds(old, update[p].call.section, update[p].call.keys, update[p].time)
           u == [update[p] EXCEPT !.at = "write", !.anew = anew, !.doc = new]
<1>1. update[p].at = "load" /\ B!Sets(p, u) /\ UNCHANGED <<file, calls>>
  BY <1>0 DEF B!Loads
<1>2. history' = IF \A q \in B!Busy(d0) \ {p} : update[q].at = "load" THEN history
                 ELSE [history EXCEPT ![d0].raced = TRUE]
  BY DEF B!Loads
<1>3. update[p] \in Update /\ d0 \in B!GitDirs /\ update[p].call \in Calls /\ update[p].time \in Nat
  BY <1>1, UpdateFacts DEF LedgerInv, Update
<1>4. old \in Docs /\ Unique(old)
  BY <1>0, <1>3, LedgerIs, EmptyFacts DEF LedgerInv, Whole
<1> HIDE DEF old
<1>5. new \in Docs /\ Unique(new)
      /\ new["gates"] = old["gates"] \o Put(update[p])
  BY <1>3, <1>4, AddsFacts DEF Put
<1> HIDE DEF new
<1>6. u \in Update /\ u.at = "write" /\ u.dir = d0 /\ u.doc = new /\ u.anew = anew
      /\ u.call = update[p].call /\ u.time = update[p].time
  BY <1>3, <1>5 DEF Update
<1> HIDE DEF u
<1>7. /\ update'[p] = u /\ \A q \in Procs : q # p => update'[q] = update[q]
      /\ update' \in [Procs -> {B!Idle} \cup Update]
  BY <1>1, <1>6, SetsFacts DEF LedgerInv
<1>8. /\ DOMAIN history' = B!GitDirs
      /\ \A d \in B!GitDirs :
           /\ DOMAIN history'[d] = {"rows", "raced", "edited"}
           /\ history'[d].rows = history[d].rows
           /\ history[d].edited => history'[d].edited
           /\ history[d].raced => history'[d].raced
           /\ d # d0 => history'[d] = history[d]
  <2>1. CASE history' = history
    BY <2>1 DEF LedgerInv, LedgerTypes
  <2>2. CASE history' = [history EXCEPT ![d0].raced = TRUE]
    <3>1. DOMAIN history = B!GitDirs
          /\ \A d \in B!GitDirs : DOMAIN history[d] = {"rows", "raced", "edited"}
      BY DEF LedgerInv, LedgerTypes
    <3>2. history'[d0] = [history[d0] EXCEPT !.raced = TRUE]
          /\ \A d \in B!GitDirs : d # d0 => history'[d] = history[d]
      BY <1>3, <2>2, <3>1
    <3>3. /\ DOMAIN history'[d0] = {"rows", "raced", "edited"}
          /\ history'[d0].rows = history[d0].rows
          /\ history[d0].edited => history'[d0].edited
          /\ history'[d0].raced
      BY <1>3, <3>1, <3>2
    <3>4. DOMAIN history' = B!GitDirs
      BY <2>2, <3>1
    <3> QED
      BY <3>1, <3>2, <3>3, <3>4
  <2> QED
    BY <1>2, <2>1, <2>2
<1>9. LedgerTypes'
  BY <1>1, <1>7, <1>8 DEF LedgerInv, LedgerTypes
<1>10. Whole'
  BY <1>1, <1>5, <1>6, <1>7, <1>8 DEF LedgerInv, Whole
<1>11. Stories'
  <2> SUFFICES ASSUME NEW d \in B!GitDirs, ~history'[d].raced PROVE Story(d)'
    BY DEF Stories
  <2>1. Story(d)
    BY <1>8 DEF LedgerInv, Stories
  <2>2. CASE d # d0
    <3>1. \A q \in Procs :
            Holds(update[q], d) \/ Holds(update'[q], d) => update'[q] = update[q]
      BY <1>6, <1>7, <2>2 DEF Holds
    <3> QED
      BY <1>1, <1>8, <2>1, <3>1, StoryStays
  <2>3. CASE d = d0
    <3>1. \A q \in B!Busy(d0) \ {p} : update[q].at = "load"
      <4> SUFFICES ASSUME ~\A q \in B!Busy(d0) \ {p} : update[q].at = "load" PROVE FALSE
        OBVIOUS
      <4>1. history' = [history EXCEPT ![d0].raced = TRUE]
        BY <1>2
      <4>2. DOMAIN history = B!GitDirs /\ DOMAIN history[d0] = {"rows", "raced", "edited"}
        BY <1>3 DEF LedgerInv, LedgerTypes
      <4>3. history'[d0] = [history[d0] EXCEPT !.raced = TRUE]
        BY <1>3, <4>1, <4>2
      <4>4. history'[d0].raced
        BY <4>2, <4>3
      <4> QED
        BY <2>3, <4>4
    <3>2. \A q \in Procs : ~Holds(update[q], d)
      BY <1>1, <2>3, <3>1 DEF Holds, B!Busy
    <3>3. \A q \in Procs : Holds(update'[q], d) => q = p
      BY <1>7, <3>2
    <3>4. old["gates"] = New(Past(u, history[d].rows))
      <4>1. CASE ~anew
        BY <1>0, <1>6, <2>1, <2>3, <4>1 DEF old, Story, Past
      <4>2. CASE anew
        BY <1>6, <4>2, EmptyFacts, NewFacts DEF old, Past
      <4> QED
        BY <4>1, <4>2
    <3>5. Put(u) = Put(update[p]) /\ Past(u, history'[d].rows) = Past(u, history[d].rows)
      BY <1>6, <1>8 DEF Put, Past
    <3>6. update'[p].doc["gates"] = New(Past(update'[p], history'[d].rows)) \o Put(update'[p])
      BY <1>5, <1>6, <1>7, <3>4, <3>5 DEF Past
    <3>7. update'[p].at = "write"
      BY <1>6, <1>7
    <3>8. file'[d] = B!Absent => history'[d].rows = <<>>
      BY <1>1, <1>8, <2>1, <3>2 DEF Story
    <3>9. /\ file'[d].kind = "kept" => file'[d].doc["gates"] = New(history'[d].rows)
          /\ file'[d] = B!Unreadable => history'[d].rows = <<>>
      BY <1>1, <1>8, <2>1 DEF Story
    <3> QED
      BY <3>3, <3>6, <3>7, <3>8, <3>9 DEF Story
  <2> QED
    BY <2>2, <2>3
<1> QED
  BY <1>9, <1>10, <1>11 DEF LedgerInv

LEMMA WritesKeeps ==
    ASSUME LedgerInv, NEW p \in Procs, B!Writes(p)
    PROVE  LedgerInv'
<1> DEFINE new == B!Truncate(update[p].doc)
           u == [update[p] EXCEPT !.at = "remove", !.doc = new]
<1>1. update[p].at = "write" /\ UNCHANGED <<file, calls, history>>
  BY DEF B!Writes
<1>2. update[p] \in Update /\ update[p].doc \in Docs
  BY <1>1, UpdateFacts DEF LedgerInv, Update
<1>3. B!Sets(p, u)
  BY DEF B!Writes
<1>4. /\ new \in Docs /\ Capped(new)
      /\ Unique(new)
      /\ new["gates"] = New(update[p].doc["gates"])
  BY <1>1, <1>2, TruncateFacts DEF LedgerInv, Whole
<1> HIDE DEF new
<1>5. u \in Update /\ u.at = "remove" /\ u.dir = update[p].dir /\ u.doc = new
      /\ u.call = update[p].call /\ u.time = update[p].time /\ u.anew = update[p].anew
  BY <1>2, <1>4 DEF Update
<1> HIDE DEF u
<1>6. /\ update'[p] = u /\ \A q \in Procs : q # p => update'[q] = update[q]
      /\ update' \in [Procs -> {B!Idle} \cup Update]
  BY <1>3, <1>5, SetsFacts DEF LedgerInv
<1>7. LedgerTypes'
  BY <1>1, <1>6 DEF LedgerInv, LedgerTypes
<1>8. Whole'
  BY <1>1, <1>4, <1>5, <1>6 DEF LedgerInv, Whole
<1>9. Stories'
  <2> SUFFICES ASSUME NEW d \in B!GitDirs, ~history[d].raced PROVE Story(d)'
    BY <1>1 DEF Stories
  <2>1. Story(d)
    BY DEF LedgerInv, Stories
  <2>2. CASE d # update[p].dir
    <3>1. \A q \in Procs :
            Holds(update[q], d) \/ Holds(update'[q], d) => update'[q] = update[q]
      BY <1>5, <1>6, <2>2 DEF Holds
    <3> QED
      BY <1>1, <2>1, <3>1, StoryStays
  <2>3. CASE d = update[p].dir
    <3>1. Holds(update[p], d)
      BY <1>1, <2>3 DEF Holds
    <3>2. \A q \in Procs : Holds(update'[q], d) => q = p
      BY <1>6, <2>1, <3>1 DEF Story
    <3>3. Put(u) = Put(update[p]) /\ Put(update[p]) \in Seq(Rows)
      BY <1>2, <1>5, PutFacts DEF Put
    <3> DEFINE past == Past(update[p], history[d].rows)
    <3>4. update[p].doc["gates"] = New(past) \o Put(update[p])
      BY <1>1, <2>1, <3>1 DEF Story
    <3>5. past \in Seq(Rows) /\ Past(update'[p], history'[d].rows) = past
      <4>1. history[d].rows \in Seq(Rows) /\ <<>> \in Seq(Rows) /\ history' = history
        BY <1>1 DEF LedgerInv, LedgerTypes
      <4> QED
        BY <1>5, <1>6, <4>1 DEF Past
    <3> HIDE DEF past
    <3>6. update'[p].doc["gates"] = New(Past(update'[p], history'[d].rows) \o Put(update'[p]))
      BY <1>4, <1>5, <1>6, <3>3, <3>4, <3>5, NewFacts
    <3>7. update'[p].at = "remove"
      BY <1>5, <1>6
    <3>8. file'[d] = B!Absent => history'[d].rows = <<>>
      BY <1>1, <2>1, <3>1 DEF Story
    <3>9. /\ file'[d].kind = "kept" => file'[d].doc["gates"] = New(history'[d].rows)
          /\ file'[d] = B!Unreadable => history'[d].rows = <<>>
      BY <1>1, <2>1 DEF Story
    <3> QED
      BY <3>2, <3>6, <3>7, <3>8, <3>9 DEF Story
  <2> QED
    BY <2>2, <2>3
<1> QED
  BY <1>7, <1>8, <1>9 DEF LedgerInv

LEMMA RemovesKeeps ==
    ASSUME LedgerInv, NEW p \in Procs, B!Removes(p)
    PROVE  LedgerInv'
<1> DEFINE d0 == update[p].dir
           u == [update[p] EXCEPT !.at = "rename"]
<1>1. update[p].at = "remove" /\ UNCHANGED <<calls, history>> /\ B!Sets(p, u)
      /\ file' \in {file, [file EXCEPT ![d0] = B!Absent]}
  BY DEF B!Removes
<1>2. update[p] \in Update /\ d0 \in B!GitDirs
  BY <1>1, UpdateFacts DEF LedgerInv, Update
<1>3. u \in Update /\ u.at = "rename" /\ u.dir = d0 /\ u.doc = update[p].doc
      /\ u.call = update[p].call /\ u.time = update[p].time /\ u.anew = update[p].anew
  BY <1>2 DEF Update
<1> HIDE DEF u
<1>4. /\ update'[p] = u /\ \A q \in Procs : q # p => update'[q] = update[q]
      /\ update' \in [Procs -> {B!Idle} \cup Update]
  BY <1>1, <1>3, SetsFacts DEF LedgerInv
<1>5. /\ file' \in [B!GitDirs -> Ledgers]
      /\ \A d \in B!GitDirs : file'[d] = file[d] \/ (d = d0 /\ file'[d] = B!Absent)
  BY <1>1, <1>2 DEF LedgerInv, LedgerTypes, Ledgers
<1>6. LedgerTypes'
  BY <1>1, <1>4, <1>5 DEF LedgerInv, LedgerTypes
<1>7. Whole'
  <2>1. \A d \in B!GitDirs :
         /\ file'[d] = B!Unreadable => history'[d].edited
         /\ file'[d].kind = "kept" => Unique(file'[d].doc) /\ Capped(file'[d].doc)
    BY <1>1, <1>5, Kinds DEF LedgerInv, Whole
  <2>2. Unique(update[p].doc) /\ Capped(update[p].doc)
    BY <1>1 DEF LedgerInv, Whole
  <2> QED
    BY <1>3, <1>4, <2>1, <2>2 DEF LedgerInv, Whole
<1>8. Stories'
  <2> SUFFICES ASSUME NEW d \in B!GitDirs, ~history[d].raced PROVE Story(d)'
    BY <1>1 DEF Stories
  <2>1. Story(d)
    BY DEF LedgerInv, Stories
  <2>2. CASE d # d0
    <3>1. \A q \in Procs :
            Holds(update[q], d) \/ Holds(update'[q], d) => update'[q] = update[q]
      BY <1>1, <1>3, <1>4, <2>2 DEF Holds
    <3> QED
      BY <1>1, <1>5, <2>1, <2>2, <3>1, StoryStays
  <2>3. CASE d = d0
    <3>1. Holds(update[p], d)
      BY <1>1, <2>3 DEF Holds
    <3>2. \A q \in Procs : Holds(update'[q], d) => q = p
      BY <1>4, <2>1, <3>1 DEF Story
    <3>3. Put(u) = Put(update[p])
      BY <1>3 DEF Put
    <3>4. update[p].doc["gates"] = New(Past(update[p], history[d].rows) \o Put(update[p]))
      BY <1>1, <2>1, <3>1 DEF Story
    <3>5. update'[p].doc["gates"] = New(Past(update'[p], history'[d].rows) \o Put(update'[p]))
      BY <1>1, <1>3, <1>4, <3>3, <3>4 DEF Past
    <3>6. update'[p].at = "rename" /\ Holds(update'[p], d)
      BY <1>3, <1>4, <2>3 DEF Holds
    <3>7. /\ file'[d].kind = "kept" => file'[d].doc["gates"] = New(history'[d].rows)
          /\ file'[d] = B!Unreadable => history'[d].rows = <<>>
      BY <1>1, <1>5, <2>1, Kinds DEF Story
    <3> QED
      BY <3>2, <3>5, <3>6, <3>7 DEF Story
  <2> QED
    BY <2>2, <2>3
<1> QED
  BY <1>6, <1>7, <1>8 DEF LedgerInv

LEMMA RenamesKeeps ==
    ASSUME LedgerInv, NEW p \in Procs, B!Renames(p)
    PROVE  LedgerInv'
<1> DEFINE d0 == update[p].dir
           v == Put(update[p])
           past == Past(update[p], history[d0].rows)
<1>1. /\ update[p].at = "rename" /\ UNCHANGED calls /\ B!Sets(p, B!Idle)
      /\ file' = [file EXCEPT ![d0] = B!Kept(update[p].doc)]
      /\ history' = [history EXCEPT ![d0].rows = past \o v]
  BY DEF B!Renames, B!Verdicts, Put, Past
<1>2. update[p] \in Update /\ d0 \in B!GitDirs /\ update[p].doc \in Docs /\ v \in Seq(Rows)
  BY <1>1, UpdateFacts, PutFacts DEF LedgerInv, Update
<1>10. past \in Seq(Rows)
  <2>1. history[d0].rows \in Seq(Rows) /\ <<>> \in Seq(Rows)
    BY <1>2 DEF LedgerInv, LedgerTypes
  <2> QED
    BY <2>1 DEF Past
<1> HIDE DEF v, past
<1>3. /\ update'[p] = B!Idle /\ \A q \in Procs : q # p => update'[q] = update[q]
      /\ update' \in [Procs -> {B!Idle} \cup Update] /\ B!Idle.at = "idle"
  BY <1>1, SetsFacts DEF LedgerInv, B!Idle
<1>4. /\ file' \in [B!GitDirs -> Ledgers]
      /\ file'[d0] = B!Kept(update[p].doc)
      /\ \A d \in B!GitDirs : d # d0 => file'[d] = file[d]
  BY <1>1, <1>2 DEF LedgerInv, LedgerTypes, Ledgers
<1>5. /\ DOMAIN history' = B!GitDirs
      /\ history'[d0] = [history[d0] EXCEPT !.rows = past \o v]
      /\ \A d \in B!GitDirs : d # d0 => history'[d] = history[d]
  BY <1>1, <1>2 DEF LedgerInv, LedgerTypes
<1>6. /\ DOMAIN history'[d0] = {"rows", "raced", "edited"}
      /\ history'[d0].rows = past \o v
      /\ history'[d0].raced <=> history[d0].raced
      /\ history[d0].edited => history'[d0].edited
  BY <1>2, <1>5 DEF LedgerInv, LedgerTypes
<1>7. LedgerTypes'
  <2>1. history'[d0].rows \in Seq(Rows)
    BY <1>2, <1>6, <1>10, ConcatProperties
  <2> QED
    BY <1>1, <1>3, <1>4, <1>5, <1>6, <2>1 DEF LedgerInv, LedgerTypes
<1>8. Whole'
  <2>1. Unique(update[p].doc) /\ Capped(update[p].doc)
    BY <1>1 DEF LedgerInv, Whole
  <2> QED
    BY <1>3, <1>4, <1>5, <2>1, Kinds DEF LedgerInv, Whole
<1>9. Stories'
  <2> SUFFICES ASSUME NEW d \in B!GitDirs, ~history'[d].raced PROVE Story(d)'
    BY DEF Stories
  <2>1. Story(d)
    BY <1>5, <1>6 DEF LedgerInv, Stories
  <2>2. CASE d # d0
    <3>1. \A q \in Procs :
            Holds(update[q], d) \/ Holds(update'[q], d) => update'[q] = update[q]
      BY <1>1, <1>3, <2>2 DEF Holds
    <3> QED
      BY <1>4, <1>5, <2>1, <2>2, <3>1, StoryStays
  <2>3. CASE d = d0
    <3>1. Holds(update[p], d)
      BY <1>1, <2>3 DEF Holds
    <3>2. \A q \in Procs : ~Holds(update'[q], d)
      BY <1>3, <2>1, <3>1, IdleHolds DEF Story
    <3>3. update[p].doc["gates"] = New(past \o v)
      BY <1>1, <2>1, <2>3, <3>1 DEF Story, v, past
    <3>4. file'[d].kind = "kept" /\ file'[d].doc["gates"] = New(history'[d].rows)
          /\ file'[d] # B!Absent /\ file'[d] # B!Unreadable
      <4>1. file'[d] = B!Kept(update[p].doc)
        BY <1>4, <2>3
      <4>2. file'[d].kind = "kept" /\ file'[d].doc = update[p].doc
        BY <4>1, Kinds
      <4>3. file'[d] # B!Absent /\ file'[d] # B!Unreadable
        BY <4>2, Kinds
      <4>4. history'[d].rows = past \o v
        BY <1>6, <2>3
      <4> QED
        BY <3>3, <4>2, <4>3, <4>4
    <3> QED
      BY <3>2, <3>4 DEF Story
  <2> QED
    BY <2>2, <2>3
<1> QED
  BY <1>7, <1>8, <1>9 DEF LedgerInv

LEMMA FailsKept ==
    ASSUME LedgerInv, NEW p \in Procs, B!Fails(p)
    PROVE  LedgerInv'
<1> DEFINE d0 == update[p].dir
<1>1. update[p].at # "idle" /\ UNCHANGED <<file, calls>> /\ B!Sets(p, B!Idle)
      /\ history' = IF update[p].at = "rename" /\ file[d0] = B!Absent
                    THEN [history EXCEPT ![d0].rows = <<>>] ELSE history
  BY DEF B!Fails
<1>2. update[p] \in Update /\ d0 \in B!GitDirs
  BY <1>1, UpdateFacts DEF LedgerInv, Update
<1>3. /\ update'[p] = B!Idle /\ \A q \in Procs : q # p => update'[q] = update[q]
      /\ update' \in [Procs -> {B!Idle} \cup Update] /\ B!Idle.at = "idle"
  BY <1>1, SetsFacts DEF LedgerInv, B!Idle
<1>4. /\ DOMAIN history' = B!GitDirs
      /\ \A d \in B!GitDirs :
           /\ DOMAIN history'[d] = {"rows", "raced", "edited"}
           /\ history'[d].rows =
                IF d = d0 /\ update[p].at = "rename" /\ file[d0] = B!Absent
                THEN <<>> ELSE history[d].rows
           /\ history'[d].raced <=> history[d].raced
           /\ history[d].edited => history'[d].edited
  <2>1. CASE ~(update[p].at = "rename" /\ file[d0] = B!Absent)
    <3>1. history' = history
      BY <1>1, <2>1
    <3> QED
      BY <2>1, <3>1 DEF LedgerInv, LedgerTypes
  <2>2. CASE update[p].at = "rename" /\ file[d0] = B!Absent
    <3>1. history' = [history EXCEPT ![d0].rows = <<>>]
      BY <1>1, <2>2
    <3>2. DOMAIN history = B!GitDirs
          /\ \A d \in B!GitDirs : DOMAIN history[d] = {"rows", "raced", "edited"}
      BY DEF LedgerInv, LedgerTypes
    <3>3. /\ DOMAIN history' = B!GitDirs
          /\ history'[d0] = [history[d0] EXCEPT !.rows = <<>>]
          /\ \A d \in B!GitDirs : d # d0 => history'[d] = history[d]
      BY <1>2, <3>1, <3>2
    <3>4. /\ DOMAIN history'[d0] = {"rows", "raced", "edited"}
          /\ history'[d0].rows = <<>>
          /\ history'[d0].raced <=> history[d0].raced
          /\ history[d0].edited => history'[d0].edited
      BY <1>2, <3>2, <3>3
    <3> QED
      BY <2>2, <3>2, <3>3, <3>4
  <2> QED
    BY <2>1, <2>2
<1>5. LedgerTypes'
  <2>1. <<>> \in Seq(Rows) /\ \A d \in B!GitDirs : history[d].rows \in Seq(Rows)
    BY DEF LedgerInv, LedgerTypes
  <2>2. ASSUME NEW d \in B!GitDirs PROVE history'[d].rows \in Seq(Rows)
    <3>1. history'[d].rows \in {<<>>, history[d].rows}
      BY <1>4
    <3> QED
      BY <2>1, <3>1
  <2> QED
    BY <1>1, <1>3, <1>4, <2>2 DEF LedgerInv, LedgerTypes
<1>6. Whole'
  BY <1>1, <1>3, <1>4 DEF LedgerInv, Whole
<1>7. Stories'
  <2> SUFFICES ASSUME NEW d \in B!GitDirs, ~history'[d].raced PROVE Story(d)'
    BY DEF Stories
  <2>1. Story(d)
    BY <1>4 DEF LedgerInv, Stories
  <2>2. CASE ~Holds(update[p], d)
    <3>1. \A q \in Procs :
            Holds(update[q], d) \/ Holds(update'[q], d) => update'[q] = update[q]
      BY <1>3, <2>2, IdleHolds
    <3>2. history'[d].rows = history[d].rows
      BY <1>4, <2>2 DEF Holds
    <3> QED
      BY <1>1, <2>1, <3>1, <3>2, StoryStays
  <2>3. CASE Holds(update[p], d)
    <3>1. d = d0
      BY <2>3 DEF Holds
    <3>2. \A q \in Procs : ~Holds(update'[q], d)
      BY <1>3, <2>1, <2>3, IdleHolds DEF Story
    <3>3. file[d] = B!Absent => history'[d].rows = <<>>
      BY <1>4, <2>1, <2>3, <3>1 DEF Story
    <3>4. /\ file[d].kind = "kept" => file[d].doc["gates"] = New(history'[d].rows)
          /\ file[d] = B!Unreadable => history'[d].rows = <<>>
      BY <1>4, <2>1, Kinds DEF Story
    <3> QED
      BY <1>1, <3>2, <3>3, <3>4 DEF Story
  <2> QED
    BY <2>2, <2>3
<1> QED
  BY <1>5, <1>6, <1>7 DEF LedgerInv

LEMMA EditsKeeps ==
    ASSUME LedgerInv, B!Edits
    PROVE  LedgerInv'
<1>1. UNCHANGED <<update, calls>>
  BY DEF B!Edits
<1>2. PICK d0 \in B!GitDirs, as \in {B!Absent, B!Unreadable} :
        /\ file' = [file EXCEPT ![d0] = as]
        /\ history' = [history EXCEPT ![d0] = [rows |-> <<>>, edited |-> TRUE,
                                               raced |-> @.raced \/ B!Busy(d0) # {}]]
  BY DEF B!Edits
<1>3. /\ file' \in [B!GitDirs -> Ledgers] /\ file'[d0] = as
      /\ \A d \in B!GitDirs : d # d0 => file'[d] = file[d]
  BY <1>2 DEF LedgerInv, LedgerTypes, Ledgers
<1>4. /\ DOMAIN history' = B!GitDirs
      /\ history'[d0] = [rows |-> <<>>, edited |-> TRUE,
                         raced |-> history[d0].raced \/ B!Busy(d0) # {}]
      /\ \A d \in B!GitDirs : d # d0 => history'[d] = history[d]
  BY <1>2 DEF LedgerInv, LedgerTypes
<1>5. /\ DOMAIN history'[d0] = {"rows", "raced", "edited"}
      /\ history'[d0].rows = <<>> /\ history'[d0].edited
      /\ history'[d0].raced <=> (history[d0].raced \/ B!Busy(d0) # {})
  <2>1. DOMAIN history'[d0] = {"rows", "raced", "edited"} /\ history'[d0].rows = <<>>
    BY <1>4
  <2>2. history'[d0].edited
    BY <1>4
  <2>3. history'[d0].raced <=> (history[d0].raced \/ B!Busy(d0) # {})
    <3> DEFINE r == history[d0].raced \/ B!Busy(d0) # {}
    <3>1. history'[d0] = [rows |-> <<>>, edited |-> TRUE, raced |-> r]
      BY <1>4
    <3> HIDE DEF r
    <3>2. history'[d0].raced = r
      BY <3>1
    <3>3. history'[d0].raced <=> r
      BY <3>2, Zenon
    <3> QED
      BY <3>3 DEF r
  <2> QED
    BY <2>1, <2>2, <2>3
<1>6. LedgerTypes'
  <2>1. history'[d0].rows \in Seq(Rows)
    BY <1>5
  <2> QED
    BY <1>1, <1>3, <1>4, <1>5, <2>1 DEF LedgerInv, LedgerTypes
<1>7. Whole'
  BY <1>1, <1>3, <1>4, <1>5, Kinds, ZenonT(40) DEF LedgerInv, Whole
<1>8. Stories'
  <2> SUFFICES ASSUME NEW d \in B!GitDirs, ~history'[d].raced PROVE Story(d)'
    BY DEF Stories
  <2>1. CASE d # d0
    <3>1. Story(d) /\ file'[d] = file[d] /\ history'[d].rows = history[d].rows
      BY <1>3, <1>4, <2>1 DEF LedgerInv, Stories
    <3> QED
      BY <1>1, <3>1, StoryStays
  <2>2. CASE d = d0
    <3>1. \A q \in Procs : ~Holds(update[q], d)
      BY <1>5, <2>2 DEF Holds, B!Busy
    <3>2. file'[d].kind # "kept" /\ history'[d].rows = <<>>
      BY <1>3, <1>5, <2>2, Kinds
    <3> QED
      BY <1>1, <3>1, <3>2 DEF Story
  <2> QED
    BY <2>1, <2>2
<1> QED
  BY <1>6, <1>7, <1>8 DEF LedgerInv

-----------------------------------------------------------------------------

LedgerKeeps == file # None => LedgerInv

LEMMA LedgerInit ==
    ASSUME B!Init
    PROVE  LedgerInv
<1>1. /\ \A d \in B!GitDirs : file[d] = B!Absent /\ history[d].rows = <<>>
      /\ \A p \in Procs : update[p] = B!Idle
  BY DEF B!Init
<1>2. LedgerTypes
  <2>1. /\ calls = 0 /\ update = [p \in Procs |-> B!Idle]
        /\ file = [d \in B!GitDirs |-> B!Absent]
        /\ history = [d \in B!GitDirs |-> [rows |-> <<>>, raced |-> FALSE, edited |-> FALSE]]
    BY DEF B!Init
  <2>2. update \in [Procs -> {B!Idle} \cup Update] /\ file \in [B!GitDirs -> Ledgers]
    BY <2>1 DEF Ledgers
  <2>3. \A d \in B!GitDirs :
          DOMAIN history[d] = {"rows", "raced", "edited"} /\ history[d].rows = <<>>
    BY <2>1
  <2>4. <<>> \in Seq(Rows) /\ DOMAIN history = B!GitDirs
    BY <2>1
  <2> QED
    BY <2>1, <2>2, <2>3, <2>4 DEF LedgerTypes
<1>3. B!Idle.at = "idle"
  BY DEF B!Idle
<1>4. Whole
  BY <1>1, <1>3, Kinds DEF Whole
<1>5. Stories
  BY <1>1, IdleHolds, Kinds DEF Stories, Story
<1> QED
  BY <1>2, <1>4, <1>5 DEF LedgerInv

LEMMA LedgerStep == LedgerKeeps /\ [Next]_vars => LedgerKeeps'
<1> SUFFICES ASSUME LedgerKeeps, [Next]_vars
             PROVE  LedgerKeeps'
  OBVIOUS
<1>1. CASE file # None /\ B!Next
  <2>1. LedgerInv
    BY <1>1 DEF LedgerKeeps
  <2>2. CASE B!Edits
    BY <2>1, <2>2, EditsKeeps DEF LedgerKeeps
  <2>3. CASE ~B!Edits
    <3>1. PICK p \in Procs : B!Records(p) \/ B!Loads(p) \/ B!Writes(p) \/ B!Removes(p)
                               \/ B!Renames(p) \/ B!Fails(p)
      BY <1>1, <2>3 DEF B!Next
    <3> QED
      BY <2>1, <3>1, RecordsKeeps, LoadsKeeps, WritesKeeps, RemovesKeeps, RenamesKeeps,
         FailsKept DEF LedgerKeeps
  <2> QED
    BY <2>2, <2>3
<1>2. CASE UNCHANGED ledger
  <2>1. UNCHANGED <<file, update, calls, history>>
    BY <1>2 DEF ledger
  <2> QED
    BY <2>1 DEF LedgerKeeps, LedgerInv, LedgerTypes, Whole, Stories, Story, Past
<1> QED
  BY <1>1, <1>2 DEF Next, vars

\* However updates overlap, fail or die, and whoever edits it: nobody but an outsider makes
\* the ledger unreadable, its sections keep their caps and have a leak once, and where
\* updates do not overlap it holds, in their order, the newest verdicts put down since the
\* last update that could not read it.
THEOREM LedgerKept == Spec => []LedgerHolds
<1>1. Init => LedgerKeeps
  BY LedgerInit DEF Init, LedgerKeeps, LedgerIdle
<1>2. LedgerKeeps => LedgerHolds
  <2> SUFFICES ASSUME LedgerInv, NEW d \in B!GitDirs
               PROVE  /\ file[d] = B!Unreadable => history[d].edited
                      /\ file[d].kind = "kept" => \A s \in DOMAIN Cap :
                           LET rows == file[d].doc[s]
                           IN /\ Len(rows) <= Cap[s]
                              /\ s # "gates" =>
                                   \A i, j \in DOMAIN rows : rows[i].key = rows[j].key => i = j
                      /\ ~history[d].raced /\ file[d].kind = "kept" =>
                           file[d].doc["gates"] = B!Newest(history[d].rows)
    BY DEF LedgerKeeps, LedgerHolds, B!LedgerIsWhole, B!LedgerIsTheHistory, B!Sections
  <2>1. /\ file[d] = B!Unreadable => history[d].edited
        /\ file[d].kind = "kept" => Unique(file[d].doc) /\ Capped(file[d].doc)
    BY DEF LedgerInv, Whole
  <2>2. ~history[d].raced /\ file[d].kind = "kept" => file[d].doc["gates"] = New(history[d].rows)
    BY DEF LedgerInv, Stories, Story
  <2>3. New(history[d].rows) = B!Newest(history[d].rows)
    BY DEF New, Cut, B!Newest
  <2> QED
    BY <2>1, <2>2, <2>3 DEF Unique, Capped, Once
<1> QED
  BY <1>1, <1>2, LedgerStep, PTL DEF Spec

-----------------------------------------------------------------------------
(* The pipeline: its sequences, of whatever elements.                        *)

IsSeq(s) == \E S : s \in Seq(S)

LEMMA SeqFacts ==
    ASSUME NEW s, IsSeq(s), NEW x
    PROVE  /\ Len(s) \in Nat /\ DOMAIN s = 1..Len(s)
           /\ IsSeq(Append(s, x)) /\ Append(s, x) = s \o <<x>> /\ s \o <<>> = s
           /\ Len(Append(s, x)) = Len(s) + 1
           /\ Append(s, x)[Len(s) + 1] = x
           /\ \A i \in 1..Len(s) : Append(s, x)[i] = s[i]
<1>1. PICK S : s \in Seq(S)
  BY DEF IsSeq
<1> DEFINE T == S \cup {x}
<1>2. s \in Seq(T) /\ x \in T /\ <<x>> \in Seq(T)
  BY <1>1
<1> HIDE DEF T
<1>3. /\ Len(s) \in Nat /\ DOMAIN s = 1..Len(s) /\ Append(s, x) \in Seq(T)
      /\ Len(Append(s, x)) = Len(s) + 1
      /\ Append(s, x)[Len(s) + 1] = x
      /\ \A i \in 1..Len(s) : Append(s, x)[i] = s[i]
  BY <1>2
<1>4. Append(s, x) = s \o <<x>>
  BY <1>2, AppendIsConcat
<1>5. s \o <<>> = s
  BY <1>2, ConcatEmptySeq
<1> QED
  BY <1>3, <1>4, <1>5 DEF IsSeq

\* The rows of the log without their enrichment.
Plains(rows) == [i \in DOMAIN rows |-> R!Plain(rows[i])]

LEMMA PlainsFacts ==
    ASSUME NEW rows, IsSeq(rows), NEW entry
    PROVE  /\ IsSeq(Plains(rows))
           /\ Plains(Append(rows, entry)) = Append(Plains(rows), R!Plain(entry))
<1> DEFINE n == Len(rows)
           m == n + 1
           p == Plains(rows)
           q == Plains(Append(rows, entry))
           T == {R!Plain(rows[i]) : i \in 1..n} \cup {R!Plain(entry)}
<1>1. n \in Nat /\ DOMAIN rows = 1..n /\ IsSeq(Append(rows, entry)) /\ m \in Nat
      /\ Len(Append(rows, entry)) = m /\ Append(rows, entry)[m] = entry
      /\ \A i \in 1..n : Append(rows, entry)[i] = rows[i]
  BY SeqFacts
<1>2. DOMAIN Append(rows, entry) = 1..m
  BY <1>1, SeqFacts
<1>3. p = [i \in 1..n |-> R!Plain(rows[i])]
  BY <1>1 DEF Plains
<1>4. q = [i \in 1..m |-> R!Plain(Append(rows, entry)[i])]
  BY <1>2 DEF Plains
<1>5. p \in Seq(T) /\ Len(p) = n /\ R!Plain(entry) \in T
  <2>1. p \in [1..n -> T]
    BY <1>3
  <2> HIDE DEF T, p, n
  <2>2. p \in Seq(T) /\ Len(p) = n
    BY <1>1, <2>1, LenProperties, SeqDef
  <2> QED
    BY <2>2 DEF T
<1>6. \A i \in 1..n : q[i] = p[i]
  <2> SUFFICES ASSUME NEW i \in 1..n PROVE q[i] = p[i]
    OBVIOUS
  <2>1. i \in 1..m
    BY <1>1
  <2> QED
    BY <1>1, <1>3, <1>4, <2>1
<1>7. q[m] = R!Plain(entry)
  BY <1>1, <1>4
<1>8. q \in Seq(T) /\ Len(q) = m
  <2>1. \A i \in 1..m : i \in 1..n \/ i = m
    BY <1>1
  <2>2. \A i \in 1..n : p[i] \in T
    BY <1>3
  <2>3. \A i \in 1..m : q[i] \in T
    BY <1>5, <1>6, <1>7, <2>1, <2>2
  <2>4. q \in [1..m -> T]
    BY <1>4, <2>3
  <2> HIDE DEF T, q, m
  <2> QED
    BY <1>1, <2>4
<1> HIDE DEF p, q, T, m, n
<1>9. q = Append(p, R!Plain(entry))
  <2> DEFINE r == Append(p, R!Plain(entry))
  <2>1. r \in Seq(T) /\ Len(r) = m /\ r[m] = R!Plain(entry) /\ \A i \in 1..n : r[i] = p[i]
    BY <1>5 DEF m
  <2> HIDE DEF r
  <2>2. \A i \in 1..m : i \in 1..n \/ i = m
    BY <1>1 DEF m
  <2>3. \A i \in 1..m : q[i] = r[i]
    BY <1>6, <1>7, <2>1, <2>2
  <2> QED
    BY <1>8, <2>1, <2>3, SeqEqual DEF r
<1>10. IsSeq(p)
  BY <1>5 DEF IsSeq
<1> QED
  BY <1>9, <1>10 DEF p, q

-----------------------------------------------------------------------------
(* What the log ought to hold.                                               *)

MaskedRow(x) == [x EXCEPT !.argv = R!Redacted(@)]
NextAudited(v, f, n) ==
    IF n = 0 THEN <<>>
    ELSE IF R!Auditable(v[n].argv) THEN Append(f[n - 1], MaskedRow(v[n]))
    ELSE f[n - 1]
IsLog(v, f) == f = [n \in 0..Len(v) |-> NextAudited(v, f, n)]

LEMMA LogExists ==
    ASSUME NEW v, Len(v) \in Nat
    PROVE  \E f : IsLog(v, f)
<1> DEFINE G(f, m) == NextAudited(v, f, m)
           Upto(n, f) == f = [m \in 0..n |-> G(f, m)]
           S == {n \in Nat : \E f : Upto(n, f)}
<1>1. 0 \in S
  <2>1. Upto(0, [m \in 0..0 |-> <<>>])
    BY DEF NextAudited
  <2> QED
    BY <2>1
<1>2. ASSUME NEW n \in Nat, n \in S PROVE n + 1 \in S
  <2>1. PICK f : Upto(n, f)
    BY <1>2
  <2> DEFINE g == [m \in 0..(n + 1) |-> IF m = n + 1 THEN G(f, n + 1) ELSE f[m]]
  <2>2. \A m \in 0..n : g[m] = f[m] /\ m \in 0..(n + 1)
    OBVIOUS
  <2>3. \A m \in 0..(n + 1) : G(g, m) = G(f, m)
    <3> SUFFICES ASSUME NEW m \in 0..(n + 1), m # 0
                 PROVE  G(g, m) = G(f, m)
      BY DEF NextAudited
    <3>1. m - 1 \in 0..n
      OBVIOUS
    <3>2. g[m - 1] = f[m - 1]
      BY <2>2, <3>1
    <3> HIDE DEF g
    <3> QED
      BY <3>2 DEF NextAudited
  <2>4. \A m \in 0..n : f[m] = G(f, m)
    BY <2>1
  <2>5. \A m \in 0..(n + 1) : g[m] = G(g, m)
    <3> SUFFICES ASSUME NEW m \in 0..(n + 1) PROVE g[m] = G(f, m)
      BY <2>3
    <3>1. CASE m = n + 1
      BY <3>1
    <3>2. CASE m # n + 1
      <4>1. m \in 0..n
        BY <3>2
      <4> QED
        BY <4>1, <2>2, <2>4
    <3> QED
      BY <3>1, <3>2
  <2>6. Upto(n + 1, g)
    <3>1. g = [m \in 0..(n + 1) |-> g[m]]
      OBVIOUS
    <3> HIDE DEF g, G
    <3> QED
      BY <2>5, <3>1
  <2> HIDE DEF Upto
  <2> QED
    BY <2>6
<1>3. Nat \subseteq S
  <2> HIDE DEF S
  <2> QED
    BY <1>1, <1>2, Induct
<1> QED
  BY <1>3 DEF IsLog

LEMMA LogIs ==
    ASSUME NEW v, Len(v) \in Nat
    PROVE  \E f : /\ R!Audited(v) = f[Len(v)]
                  /\ \A n \in 0..Len(v) : f[n] = NextAudited(v, f, n)
<1>1. R!Audited(v) = (CHOOSE f : IsLog(v, f))[Len(v)]
  BY DEF R!Audited, IsLog, NextAudited, MaskedRow
<1>2. PICK f : IsLog(v, f) /\ R!Audited(v) = f[Len(v)]
  BY <1>1, LogExists
<1> QED
  BY <1>2 DEF IsLog

\* A vector more is a row more, if it is audited.
LEMMA AuditedFacts ==
    ASSUME NEW v, IsSeq(v), NEW x
    PROVE  /\ R!Audited(<<>>) = <<>>
           /\ R!Audited(Append(v, x)) =
                IF R!Auditable(x.argv) THEN Append(R!Audited(v), MaskedRow(x)) ELSE R!Audited(v)
<1> DEFINE w == Append(v, x)
           L == Len(v)
<1>1. L \in Nat /\ Len(w) = L + 1 /\ w[L + 1] = x /\ \A i \in 1..L : w[i] = v[i]
  BY SeqFacts
<1>2. PICK f : R!Audited(v) = f[L] /\ \A n \in 0..L : f[n] = NextAudited(v, f, n)
  BY <1>1, LogIs
<1>3. PICK g : R!Audited(w) = g[L + 1] /\ \A n \in 0..(L + 1) : g[n] = NextAudited(w, g, n)
  <2>1. Len(w) \in Nat
    BY <1>1
  <2> QED
    BY <1>1, <2>1, LogIs
<1> HIDE DEF w, L
<1> DEFINE T == {n \in Nat : n <= L => g[n] = f[n]}
<1>4. 0 \in T
  <2>1. 0 \in 0..L /\ 0 \in 0..(L + 1)
    BY <1>1
  <2>2. g[0] = NextAudited(w, g, 0) /\ f[0] = NextAudited(v, f, 0)
    BY <1>2, <1>3, <2>1
  <2> QED
    BY <2>2 DEF NextAudited
<1>5. ASSUME NEW n \in Nat, n \in T PROVE n + 1 \in T
  <2> SUFFICES ASSUME n + 1 <= L PROVE g[n + 1] = f[n + 1]
    OBVIOUS
  <2>1. n <= L /\ n + 1 \in 0..L /\ n + 1 \in 1..L /\ n + 1 \in 0..(L + 1)
        /\ n + 1 # 0 /\ (n + 1) - 1 = n
    BY <1>1
  <2>2. g[n] = f[n] /\ w[n + 1] = v[n + 1]
    BY <1>1, <1>5, <2>1
  <2>3. g[n + 1] = NextAudited(w, g, n + 1) /\ f[n + 1] = NextAudited(v, f, n + 1)
    BY <1>2, <1>3, <2>1
  <2> QED
    BY <2>1, <2>2, <2>3 DEF NextAudited
<1>6. Nat \subseteq T
  <2> HIDE DEF T
  <2> QED
    BY <1>4, <1>5, Induct
<1>7. g[L] = f[L]
  BY <1>1, <1>6
<1>8. R!Audited(w) = IF R!Auditable(x.argv) THEN Append(R!Audited(v), MaskedRow(x)) ELSE R!Audited(v)
  <2>1. L + 1 \in 0..(L + 1) /\ L + 1 # 0 /\ (L + 1) - 1 = L
    BY <1>1
  <2>2. g[L + 1] = NextAudited(w, g, L + 1)
    BY <1>3, <2>1
  <2> QED
    BY <1>1, <1>2, <1>3, <1>7, <2>1, <2>2 DEF NextAudited
<1>9. R!Audited(<<>>) = <<>>
  <2>1. Len(<<>>) = 0 /\ 0 \in 0..0 /\ Len(<<>>) \in Nat
    OBVIOUS
  <2>2. PICK h : R!Audited(<<>>) = h[0] /\ \A n \in 0..0 : h[n] = NextAudited(<<>>, h, n)
    BY <2>1, LogIs
  <2>3. h[0] = NextAudited(<<>>, h, 0)
    BY <2>1, <2>2
  <2> QED
    BY <2>2, <2>3 DEF NextAudited
<1> QED
  BY <1>8, <1>9 DEF w

-----------------------------------------------------------------------------
(* The invariant of the pipeline.                                            *)

Lines == [k : STRING, xy : Seq(STRING)]

\* A vector that runs, as it is told; the row of a shortcut.
Ran(i) == [argv |-> Head(i.steps), mode |-> "passthrough", code |-> i.code]
Summary(i) == [argv |-> R!Redacted(R!Bare(i.argv)), mode |-> "shortcut", code |-> i.code]

AllDone(v) == \A i \in 1..Len(v) : v[i].code = 0
DoneButLast(v) == \A i \in 1..(Len(v) - 1) : v[i].code = 0
Judges(v) == \A i \in 1..Len(v) : v[i].mode = "blocked" <=> v[i].argv.sub \in DOMAIN Blocked
Tally(v, rows) == Plains(rows) = R!Audited(v)
Enrichments == {None} \cup {R!ParseStatus(lines) : lines \in Statuses}
Enriched(rows) == \A i \in 1..Len(rows) : rows[i].enrichment \in Enrichments

RunTypes ==
    /\ DOMAIN told = {"vectors", "warned"} /\ IsSeq(told.vectors)
    /\ DOMAIN store = {"open", "rows"} /\ IsSeq(store.rows)
    /\ DOMAIN inv = {"argv", "mode", "steps", "code"}
    /\ inv.mode \in {"meta", "passthrough", "shortcut"}

Stands ==
    /\ at \in {"start", "gate", "git", "enrich", "sum", "done"}
    /\ at \notin {"start", "done"} => inv.mode # "meta"
    /\ at = "start" => told.vectors = <<>> /\ store.rows = <<>>
    /\ at = "git" => Head(inv.steps).sub \notin DOMAIN Blocked
    /\ at = "sum" => inv.mode = "shortcut" /\ told.vectors # <<>>

\* Nothing follows a vector that failed, and none reaches git that the policy refuses.
InOrder ==
    /\ Judges(told.vectors) /\ DoneButLast(told.vectors)
    /\ at \in {"gate", "git"} => AllDone(told.vectors)

\* The log is level with what was dealt with, but for the vector that is enriched.
Level ==
    /\ at = "enrich" => R!Auditable(Head(inv.steps)) /\ \E w :
         /\ IsSeq(w) /\ told.vectors = Append(w, Ran(inv))
         /\ ~told.warned => Tally(w, store.rows)
    /\ ~told.warned /\ at \in {"gate", "git", "sum"} => Tally(told.vectors, store.rows)
    /\ ~told.warned /\ at = "done" => Plains(store.rows) =
         R!Audited(told.vectors)
           \o IF inv.mode = "shortcut" /\ told.vectors # <<>> THEN <<Summary(inv)>> ELSE <<>>

\* What was read, what is in the pipe and what git has yet to write are one whole status.
ChildSound ==
    /\ DOMAIN status = {"state", "left", "pipe", "got", "reader", "expired", "waited"}
    /\ status.got \in Seq(Lines) /\ status.pipe \in Seq(Lines) /\ status.left \in Seq(Lines)
    /\ status.state \in {"running", "succeeded", "failed", "killed"}
    /\ (status.got \o status.pipe) \o status.left \in Statuses
    /\ status.state \in {"succeeded", "failed"} => status.left = <<>>
    /\ status.reader = "done" => status.state # "running" /\ status.pipe = <<>>

Children == status = R!NoChild \/ (at = "enrich" /\ ChildSound)

RunInv == RunTypes /\ Stands /\ InOrder /\ Level /\ Enriched(store.rows) /\ Children

-----------------------------------------------------------------------------
(* One vector more, one row more.                                            *)

LEMMA VectorFacts ==
    ASSUME NEW v, IsSeq(v), NEW x
    PROVE  /\ Judges(v) /\ (x.mode = "blocked" <=> x.argv.sub \in DOMAIN Blocked)
                => Judges(Append(v, x))
           /\ AllDone(v) => DoneButLast(Append(v, x))
           /\ AllDone(v) /\ x.code = 0 => AllDone(Append(v, x))
           /\ DoneButLast(Append(v, x)) => AllDone(v)
           /\ Append(v, x) # <<>> /\ v \o <<x>> = Append(v, x)
<1> DEFINE n == Len(v)
           w == Append(v, x)
<1>1. n \in Nat /\ Len(w) = n + 1 /\ w[n + 1] = x /\ \A i \in 1..n : w[i] = v[i]
  BY SeqFacts
<1>2. \A i \in 1..(n + 1) : i \in 1..n \/ i = n + 1
  BY <1>1
<1>3. (n + 1) - 1 = n /\ n + 1 # 0
  BY <1>1
<1>4. v \o <<x>> = w
  BY SeqFacts
<1>5. w # <<>>
  <2>1. Len(<<>>) = 0
    OBVIOUS
  <2> HIDE DEF w, n
  <2> QED
    BY <1>1, <1>3, <2>1
<1> HIDE DEF w, n
<1>6. Judges(v) /\ (x.mode = "blocked" <=> x.argv.sub \in DOMAIN Blocked) => Judges(w)
  <2> SUFFICES ASSUME Judges(v), x.mode = "blocked" <=> x.argv.sub \in DOMAIN Blocked,
                      NEW i \in 1..(n + 1)
               PROVE  w[i].mode = "blocked" <=> w[i].argv.sub \in DOMAIN Blocked
    BY <1>1 DEF Judges
  <2>1. CASE i \in 1..n
    <3>1. w[i] = v[i] /\ (v[i].mode = "blocked" <=> v[i].argv.sub \in DOMAIN Blocked)
      BY <1>1, <2>1 DEF Judges, n
    <3> QED
      BY <3>1
  <2>2. CASE i = n + 1
    <3>1. w[i] = x
      BY <1>1, <2>2
    <3> QED
      BY <3>1
  <2> QED
    BY <1>2, <2>1, <2>2
<1>7. AllDone(v) => DoneButLast(w)
  BY <1>1, <1>3 DEF AllDone, DoneButLast, n
<1>8. AllDone(v) /\ x.code = 0 => AllDone(w)
  <2> SUFFICES ASSUME AllDone(v), x.code = 0, NEW i \in 1..(n + 1) PROVE w[i].code = 0
    BY <1>1 DEF AllDone
  <2> QED
    BY <1>1, <1>2 DEF AllDone, n
<1>9. DoneButLast(w) => AllDone(v)
  BY <1>1, <1>3 DEF AllDone, DoneButLast, n
<1> QED
  BY <1>4, <1>5, <1>6, <1>7, <1>8, <1>9 DEF w

LEMMA EnrichedFacts ==
    ASSUME NEW rows, IsSeq(rows), NEW entry, Enriched(rows), entry.enrichment \in Enrichments
    PROVE  Enriched(Append(rows, entry))
<1> DEFINE n == Len(rows)
           r == Append(rows, entry)
<1>1. n \in Nat /\ Len(r) = n + 1 /\ r[n + 1] = entry /\ \A i \in 1..n : r[i] = rows[i]
  BY SeqFacts
<1>2. \A i \in 1..n : rows[i].enrichment \in Enrichments
  BY DEF Enriched
<1> HIDE DEF r, n
<1>3. \A i \in 1..(n + 1) : i \in 1..n \/ i = n + 1
  BY <1>1
<1>4. \A i \in 1..(n + 1) : r[i].enrichment \in Enrichments
  BY <1>1, <1>2, <1>3
<1>5. Enriched(r)
  BY <1>1, <1>4 DEF Enriched
<1> QED
  BY <1>5 DEF r

LEMMA RowFacts ==
    ASSUME NEW a, NEW mode, NEW code, NEW e
    PROVE  /\ R!Row(a, mode, code, e).enrichment = e
           /\ R!Plain(R!Row(a, mode, code, e)) = MaskedRow([argv |-> a, mode |-> mode, code |-> code])
  BY DEF R!Row, R!Plain, MaskedRow

\* A log that is level stays so when a vector and its row are added, or a vector that has none.
LEMMA TallyFacts ==
    ASSUME NEW v, IsSeq(v), NEW rows, IsSeq(rows), Tally(v, rows),
           NEW a, NEW mode, NEW code, NEW e
    PROVE  LET x == [argv |-> a, mode |-> mode, code |-> code]
           IN /\ R!Auditable(a) => Tally(Append(v, x), Append(rows, R!Row(a, mode, code, e)))
              /\ ~R!Auditable(a) => Tally(Append(v, x), rows)
<1> DEFINE x == [argv |-> a, mode |-> mode, code |-> code]
           r == R!Row(a, mode, code, e)
<1>1. R!Plain(r) = MaskedRow(x) /\ x.argv = a
  BY RowFacts
<1>2. Plains(Append(rows, r)) = Append(Plains(rows), R!Plain(r))
  BY PlainsFacts
<1>3. R!Audited(Append(v, x)) =
        IF R!Auditable(x.argv) THEN Append(R!Audited(v), MaskedRow(x)) ELSE R!Audited(v)
  BY AuditedFacts
<1> HIDE DEF r, x
<1>4. R!Auditable(a) => Tally(Append(v, x), Append(rows, r))
  BY <1>1, <1>2, <1>3 DEF Tally
<1>5. ~R!Auditable(a) => Tally(Append(v, x), rows)
  BY <1>1, <1>3 DEF Tally
<1> QED
  BY <1>4, <1>5 DEF r, x

-----------------------------------------------------------------------------
(* The steps of the command.                                                 *)

LEMMA GoesFacts ==
    ASSUME RunTypes, inv.mode # "meta", NEW code, R!Goes(code)
    PROVE  /\ DOMAIN inv' = {"argv", "mode", "steps", "code"}
           /\ inv'.mode = inv.mode /\ inv.mode \in {"passthrough", "shortcut"}
           /\ at' \in {"done", "sum", "gate"}
           /\ at' = "done" => inv.mode = "passthrough"
           /\ at' = "sum" => inv.mode = "shortcut"
           /\ at' = "gate" => code = 0
<1>1. inv' = [inv EXCEPT !.code = code, !.steps = Tail(@)]
      /\ inv.mode \in {"passthrough", "shortcut"} /\ DOMAIN inv = {"argv", "mode", "steps", "code"}
  BY DEF R!Goes, RunTypes
<1>2. CASE inv.mode = "passthrough"
  <2>1. at' = "done"
    BY <1>2 DEF R!Goes
  <2> QED
    BY <1>1, <1>2, <2>1
<1>3. CASE inv.mode = "shortcut"
  <2>1. at' = IF code # 0 \/ Len(inv.steps) = 1 THEN "sum" ELSE "gate"
    BY <1>3 DEF R!Goes
  <2> QED
    BY <1>1, <1>3, <2>1
<1> QED
  BY <1>1, <1>2, <1>3

\* After a vector that is dealt with, whichever way.
LEMMA Settles ==
    ASSUME RunTypes, inv.mode # "meta", NEW code, R!Goes(code), status' = R!NoChild,
           DOMAIN told' = {"vectors", "warned"}, IsSeq(told'.vectors), told'.vectors # <<>>,
           DOMAIN store' = {"open", "rows"}, IsSeq(store'.rows),
           Judges(told'.vectors), DoneButLast(told'.vectors), code = 0 => AllDone(told'.vectors),
           ~told'.warned => Tally(told'.vectors, store'.rows), Enriched(store'.rows)
    PROVE  RunInv'
<1>1. /\ DOMAIN inv' = {"argv", "mode", "steps", "code"}
      /\ inv'.mode = inv.mode /\ inv.mode \in {"passthrough", "shortcut"}
      /\ at' \in {"done", "sum", "gate"}
      /\ at' = "done" => inv.mode = "passthrough"
      /\ at' = "sum" => inv.mode = "shortcut"
      /\ at' = "gate" => code = 0
  BY GoesFacts
<1>2. RunTypes'
  BY <1>1 DEF RunTypes
<1>3. Stands'
  BY <1>1 DEF Stands
<1>4. InOrder'
  BY <1>1 DEF InOrder
<1>5. Level'
  <2>1. ASSUME ~told'.warned, at' = "done"
        PROVE  Plains(store'.rows) = R!Audited(told'.vectors) \o <<>>
    <3>1. IsSeq(Plains(store'.rows)) /\ Plains(store'.rows) = R!Audited(told'.vectors)
      BY <2>1, PlainsFacts DEF Tally
    <3> QED
      BY <3>1, SeqFacts
  <2>2. at' # "enrich"
    BY <1>1
  <2>3. ~told'.warned => Tally(told'.vectors, store'.rows)
    OBVIOUS
  <2>4. at' = "done" => inv'.mode # "shortcut"
    BY <1>1
  <2> QED
    BY <2>1, <2>2, <2>3, <2>4 DEF Level
<1>6. Children'
  BY DEF Children
<1> QED
  BY <1>2, <1>3, <1>4, <1>5, <1>6 DEF RunInv

LEMMA StartsKeeps ==
    ASSUME RunInv, R!Starts
    PROVE  RunInv'
<1>1. /\ at = "start" /\ store' = store /\ status' = status /\ told' = told
      /\ DOMAIN inv = {"argv", "mode", "steps", "code"}
      /\ inv.mode \in {"meta", "passthrough", "shortcut"}
  BY DEF R!Starts, RunInv, RunTypes
<1>2. told'.vectors = <<>> /\ store'.rows = <<>> /\ status' = R!NoChild
  BY <1>1 DEF RunInv, Stands, Children
<1>3. /\ \/ \E code : inv' = [inv EXCEPT !.code = code, !.steps = <<>>] /\ at' = "done"
         \/ inv.mode # "meta" /\ at' = "gate" /\ \E steps : inv' = [inv EXCEPT !.steps = steps]
  <2> DEFINE Stopped == \E code : inv' = [inv EXCEPT !.code = code, !.steps = <<>>] /\ at' = "done"
             Queued == at' = "gate" /\ \E steps : inv' = [inv EXCEPT !.steps = steps]
  <2>1. \A code : R!Ends(code) => Stopped
    BY DEF R!Ends
  <2>2. CASE inv.mode = "meta"
    <3>1. \E code \in R!MetaCodes(R!MetaArgs(inv.argv)) : R!Ends(code)
      BY <2>2 DEF R!Starts
    <3> QED
      BY <2>1, <3>1
  <2>3. CASE inv.mode = "passthrough"
    <3>1. \/ R!Ends(1)
          \/ \E supported \in BOOLEAN :
               inv' = [inv EXCEPT !.steps = <<R!WithBranch(inv.argv, supported)>>] /\ at' = "gate"
      BY <2>3 DEF R!Starts
    <3>2. Stopped \/ Queued
      BY <2>1, <3>1
    <3> QED
      BY <2>3, <3>2
  <2>4. CASE inv.mode = "shortcut"
    <3>1. \/ R!Ends(1)
          \/ IF Len(inv.argv.rest) < Shortcuts[inv.argv.sub].min THEN R!Ends(2)
             ELSE inv' = [inv EXCEPT !.steps = R!Steps(inv.argv.sub, inv.argv.rest)] /\ at' = "gate"
      BY <2>4 DEF R!Starts
    <3>2. Stopped \/ Queued
      BY <2>1, <3>1
    <3> QED
      BY <2>4, <3>2
  <2> QED
    BY <1>1, <2>2, <2>3, <2>4
<1>4. /\ DOMAIN inv' = DOMAIN inv /\ inv'.mode = inv.mode
      /\ at' \in {"done", "gate"} /\ (at' = "gate" => inv.mode # "meta")
  <2>1. CASE \E code : inv' = [inv EXCEPT !.code = code, !.steps = <<>>] /\ at' = "done"
    BY <1>1, <2>1
  <2>2. CASE inv.mode # "meta" /\ at' = "gate" /\ \E steps : inv' = [inv EXCEPT !.steps = steps]
    BY <1>1, <2>2
  <2> QED
    BY <1>3, <2>1, <2>2
<1>5. RunTypes' /\ Stands'
  BY <1>1, <1>4 DEF RunInv, RunTypes, Stands
<1>6. /\ Judges(<<>>) /\ DoneButLast(<<>>) /\ AllDone(<<>>) /\ Plains(<<>>) = <<>>
      /\ R!Audited(<<>>) = <<>> /\ <<>> \o <<>> = <<>> /\ Tally(<<>>, <<>>)
  <2>1. Len(<<>>) = 0 /\ 1..0 = {} /\ 1..(0 - 1) = {} /\ DOMAIN <<>> = {} /\ <<>> \in Seq({})
    OBVIOUS
  <2>2. IsSeq(<<>>)
    BY <2>1 DEF IsSeq
  <2>3. R!Audited(<<>>) = <<>> /\ <<>> \o <<>> = <<>>
    BY <2>2, AuditedFacts, SeqFacts
  <2>4. Plains(<<>>) = <<>>
    BY <2>1 DEF Plains
  <2>5. Judges(<<>>) /\ DoneButLast(<<>>) /\ AllDone(<<>>)
    BY <2>1 DEF Judges, DoneButLast, AllDone
  <2> QED
    BY <2>3, <2>4, <2>5 DEF Tally
<1>7. InOrder'
  BY <1>2, <1>6 DEF InOrder
<1>8. Level'
  BY <1>2, <1>4, <1>6 DEF Level
<1>9. Enriched(store.rows)' /\ Children'
  BY <1>1, <1>2 DEF RunInv, Children
<1> QED
  BY <1>5, <1>7, <1>8, <1>9 DEF RunInv

LEMMA GatePassesKeeps ==
    ASSUME RunInv, R!GatePasses
    PROVE  RunInv'
<1>1. /\ at = "gate" /\ at' = "git" /\ Head(inv.steps).sub \notin DOMAIN Blocked
      /\ inv' = inv /\ store' = store /\ status' = status /\ told' = told
  BY DEF R!GatePasses
<1>2. status = R!NoChild
  BY <1>1 DEF RunInv, Children
<1>3. RunTypes' /\ InOrder' /\ Enriched(store.rows)' /\ Children'
  BY <1>1, <1>2 DEF RunInv, RunTypes, InOrder, Children
<1>4. Stands'
  BY <1>1 DEF RunInv, Stands
<1>5. Level'
  BY <1>1 DEF RunInv, Level
<1> QED
  BY <1>3, <1>4, <1>5 DEF RunInv

LEMMA GateBlocksKeeps ==
    ASSUME RunInv, R!GateBlocks
    PROVE  RunInv'
<1> DEFINE a == Head(inv.steps)
           c == Blocked[a.sub]
           x == [argv |-> a, mode |-> "blocked", code |-> c]
           v == told.vectors
           r == R!Row(a, "blocked", c, None)
<1>1. /\ at = "gate" /\ a.sub \in DOMAIN Blocked /\ R!Goes(c) /\ status' = status
      /\ \/ ~R!Auditable(a) /\ store' = store /\ told' = [told EXCEPT !.vectors = v \o <<x>>]
         \/ /\ R!Auditable(a)
            /\ store' = [store EXCEPT !.rows = Append(@, r)]
            /\ told' = [told EXCEPT !.vectors = v \o <<x>>]
         \/ store' = store /\ told' = [vectors |-> v \o <<x>>, warned |-> TRUE]
  BY DEF R!GateBlocks, R!Tells
<1>2. /\ RunTypes /\ inv.mode # "meta" /\ status' = R!NoChild
      /\ IsSeq(v) /\ IsSeq(store.rows) /\ Judges(v) /\ AllDone(v) /\ Enriched(store.rows)
      /\ DOMAIN told = {"vectors", "warned"} /\ DOMAIN store = {"open", "rows"}
      /\ ~told.warned => Tally(v, store.rows)
  BY <1>1 DEF RunInv, RunTypes, Stands, InOrder, Level, Children
<1>3. /\ Judges(Append(v, x)) /\ DoneButLast(Append(v, x)) /\ (c = 0 => AllDone(Append(v, x)))
      /\ Append(v, x) # <<>> /\ v \o <<x>> = Append(v, x) /\ IsSeq(Append(v, x))
  <2>1. (x.mode = "blocked" <=> x.argv.sub \in DOMAIN Blocked) /\ x.code = c
    BY <1>1
  <2> HIDE DEF x, v, c
  <2> QED
    BY <1>2, <2>1, VectorFacts, SeqFacts
<1>4. IsSeq(Append(store.rows, r)) /\ Enriched(Append(store.rows, r))
  <2>1. r.enrichment = None
    BY DEF R!Row
  <2> HIDE DEF r
  <2>2. r.enrichment \in Enrichments
    BY <2>1 DEF Enrichments
  <2> QED
    BY <1>2, <2>2, EnrichedFacts, SeqFacts
<1>5. ~told.warned =>
        /\ R!Auditable(a) => Tally(Append(v, x), Append(store.rows, r))
        /\ ~R!Auditable(a) => Tally(Append(v, x), store.rows)
  <2> HIDE DEF a, c, v
  <2> QED
    BY <1>2, TallyFacts
<1>6. /\ DOMAIN told' = {"vectors", "warned"} /\ told'.vectors = Append(v, x)
      /\ DOMAIN store' = {"open", "rows"}
      /\ store'.rows = store.rows \/ store'.rows = Append(store.rows, r)
      /\ ~told'.warned => ~told.warned
           /\ IF R!Auditable(a) THEN store'.rows = Append(store.rows, r) ELSE store'.rows = store.rows
  <2> HIDE DEF a, c, x, r
  <2>1. CASE ~R!Auditable(a) /\ store' = store /\ told' = [told EXCEPT !.vectors = v \o <<x>>]
    BY <1>2, <1>3, <2>1
  <2>2. CASE /\ R!Auditable(a)
             /\ store' = [store EXCEPT !.rows = Append(@, r)]
             /\ told' = [told EXCEPT !.vectors = v \o <<x>>]
    BY <1>2, <1>3, <2>2
  <2>3. CASE store' = store /\ told' = [vectors |-> v \o <<x>>, warned |-> TRUE]
    BY <1>2, <1>3, <2>3
  <2> QED
    BY <1>1, <2>1, <2>2, <2>3
<1> HIDE DEF a, c, x, v, r
<1>7. ~told'.warned => Tally(told'.vectors, store'.rows)
  BY <1>5, <1>6
<1>8. IsSeq(store'.rows) /\ Enriched(store'.rows)
  BY <1>2, <1>4, <1>6
<1>9. /\ IsSeq(told'.vectors) /\ told'.vectors # <<>> /\ Judges(told'.vectors)
      /\ DoneButLast(told'.vectors) /\ (c = 0 => AllDone(told'.vectors))
  BY <1>3, <1>6
<1> QED
  BY <1>1, <1>2, <1>6, <1>7, <1>8, <1>9, Settles

LEMMA GitRunsKeeps ==
    ASSUME RunInv, R!GitRuns
    PROVE  RunInv'
<1> DEFINE a == Head(inv.steps)
           v == told.vectors
           x(c) == [argv |-> a, mode |-> "passthrough", code |-> c]
<1>1. PICK c \in {-1, 0, 1} :
        /\ told' = [told EXCEPT !.vectors = v \o <<x(c)>>]
        /\ IF R!Auditable(a)
           THEN /\ inv' = [inv EXCEPT !.code = c] /\ at' = "enrich"
                /\ \/ status' = R!NoChild
                   \/ \E lines \in Statuses :
                        status' = [R!NoChild EXCEPT !.state = "running", !.left = lines,
                                                    !.reader = "reading"]
           ELSE R!Goes(c) /\ UNCHANGED status
  BY DEF R!GitRuns, R!Tells
<1>2. at = "git" /\ store' = store
  BY DEF R!GitRuns
<1>3. /\ RunTypes /\ inv.mode # "meta" /\ status = R!NoChild /\ a.sub \notin DOMAIN Blocked
      /\ IsSeq(v) /\ IsSeq(store.rows) /\ Judges(v) /\ AllDone(v) /\ Enriched(store.rows)
      /\ DOMAIN told = {"vectors", "warned"} /\ DOMAIN store = {"open", "rows"}
      /\ DOMAIN inv = {"argv", "mode", "steps", "code"}
      /\ inv.mode \in {"meta", "passthrough", "shortcut"}
      /\ ~told.warned => Tally(v, store.rows)
  BY <1>2 DEF RunInv, RunTypes, Stands, InOrder, Level, Children
<1> DEFINE w == Append(v, x(c))
<1>4. /\ Judges(w) /\ DoneButLast(w) /\ (c = 0 => AllDone(w))
      /\ w # <<>> /\ v \o <<x(c)>> = w /\ IsSeq(w)
  <2>1. (x(c).mode = "blocked" <=> x(c).argv.sub \in DOMAIN Blocked) /\ x(c).code = c
    BY <1>3
  <2> HIDE DEF x, v
  <2>2. IsSeq(w)
    BY <1>3, SeqFacts
  <2> QED
    BY <1>3, <2>1, <2>2, VectorFacts
<1>5. told'.vectors = w /\ DOMAIN told' = {"vectors", "warned"} /\ told'.warned = told.warned
  <2>1. told' = [told EXCEPT !.vectors = w]
    BY <1>1, <1>4
  <2> HIDE DEF w
  <2> QED
    BY <1>3, <2>1
<1>6. CASE R!Auditable(a)
  <2>1. inv' = [inv EXCEPT !.code = c] /\ at' = "enrich"
    BY <1>1, <1>6
  <2>2. /\ DOMAIN inv' = {"argv", "mode", "steps", "code"} /\ inv'.mode = inv.mode
        /\ inv'.steps = inv.steps /\ inv'.code = c
    BY <1>3, <2>1
  <2>3. RunTypes'
    BY <1>2, <1>3, <1>4, <1>5, <2>2 DEF RunTypes
  <2>4. Stands'
    BY <1>3, <2>1, <2>2 DEF Stands
  <2>5. InOrder'
    BY <1>4, <1>5, <2>1 DEF InOrder
  <2>6. Level'
    <3>1. Ran(inv') = x(c)
      BY <2>2 DEF Ran
    <3>2. told'.vectors = Append(v, Ran(inv')) /\ (~told'.warned => Tally(v, store'.rows))
      <4> HIDE DEF v
      <4> QED
        BY <1>2, <1>3, <1>5, <3>1
    <3>3. R!Auditable(Head(inv'.steps))
      BY <1>6, <2>2
    <3> QED
      BY <1>3, <2>1, <3>2, <3>3 DEF Level
  <2>7. Enriched(store.rows)'
    BY <1>2, <1>3
  <2>8. Children'
    <3>1. CASE status' = R!NoChild
      BY <3>1 DEF Children
    <3>2. CASE \E lines \in Statuses :
                 status' = [R!NoChild EXCEPT !.state = "running", !.left = lines, !.reader = "reading"]
      <4>1. PICK lines \in Statuses :
              status' = [R!NoChild EXCEPT !.state = "running", !.left = lines, !.reader = "reading"]
        BY <3>2
      <4>2. lines \in Seq(Lines)
        BY RunnerAssumption DEF Lines
      <4>3. status' = [state |-> "running", left |-> lines, pipe |-> <<>>, got |-> <<>>,
                       reader |-> "reading", expired |-> FALSE, waited |-> TRUE]
        BY <4>1 DEF R!NoChild
      <4>4. <<>> \in Seq(Lines) /\ (<<>> \o <<>>) \o lines = lines
        BY <4>2, ConcatEmptySeq
      <4>5. ChildSound'
        BY <4>2, <4>3, <4>4 DEF ChildSound
      <4> QED
        BY <2>1, <4>5 DEF Children
    <3> QED
      BY <1>1, <1>6, <3>1, <3>2
  <2> QED
    BY <2>3, <2>4, <2>5, <2>6, <2>7, <2>8 DEF RunInv
<1>7. CASE ~R!Auditable(a)
  <2>1. R!Goes(c) /\ status' = R!NoChild
    BY <1>1, <1>3, <1>7
  <2>2. ~told.warned => Tally(w, store.rows)
    <3> HIDE DEF a, v
    <3> QED
      BY <1>3, <1>7, TallyFacts
  <2> HIDE DEF w, a, v, x
  <2>3. /\ ~told'.warned => Tally(told'.vectors, store'.rows)
        /\ IsSeq(told'.vectors) /\ told'.vectors # <<>> /\ Judges(told'.vectors)
        /\ DoneButLast(told'.vectors) /\ (c = 0 => AllDone(told'.vectors))
    BY <1>2, <1>4, <1>5, <2>2
  <2>4. DOMAIN store' = {"open", "rows"} /\ IsSeq(store'.rows) /\ Enriched(store'.rows)
    BY <1>2, <1>3
  <2> QED
    BY <1>3, <1>5, <2>1, <2>3, <2>4, Settles
<1> QED
  BY <1>6, <1>7

LEMMA WritesRowFacts ==
    ASSUME RunTypes, Enriched(store.rows), NEW entry, entry.enrichment \in Enrichments, R!WritesRow(entry)
    PROVE  /\ DOMAIN told' = {"vectors", "warned"} /\ told'.vectors = told.vectors
           /\ DOMAIN store' = {"open", "rows"} /\ IsSeq(store'.rows) /\ Enriched(store'.rows)
           /\ ~told'.warned => ~told.warned /\ store'.rows = Append(store.rows, entry)
<1>1. /\ DOMAIN told = {"vectors", "warned"} /\ DOMAIN store = {"open", "rows"}
      /\ IsSeq(store.rows)
  BY DEF RunTypes
<1>2. IsSeq(Append(store.rows, entry)) /\ Enriched(Append(store.rows, entry))
  BY <1>1, EnrichedFacts, SeqFacts
<1>3. \/ store' = [store EXCEPT !.rows = Append(@, entry)] /\ told' = told
      \/ store' = store /\ told' = [told EXCEPT !.warned = TRUE]
  BY DEF R!WritesRow
<1>4. CASE store' = [store EXCEPT !.rows = Append(@, entry)] /\ told' = told
  <2>1. store'.rows = Append(store.rows, entry) /\ DOMAIN store' = {"open", "rows"}
    BY <1>1, <1>4
  <2> QED
    BY <1>1, <1>2, <1>4, <2>1
<1>5. CASE store' = store /\ told' = [told EXCEPT !.warned = TRUE]
  <2>1. told'.vectors = told.vectors /\ told'.warned /\ DOMAIN told' = {"vectors", "warned"}
    BY <1>1, <1>5
  <2> QED
    BY <1>1, <1>5, <2>1
<1> QED
  BY <1>3, <1>4, <1>5

LEMMA GivesKeeps ==
    ASSUME RunInv, at = "enrich", NEW e \in Enrichments, R!Gives(e)
    PROVE  RunInv'
<1> DEFINE a == Head(inv.steps)
           c == inv.code
           r == R!Row(a, "passthrough", c, e)
           v == told.vectors
<1>1. R!WritesRow(r) /\ status' = R!NoChild /\ R!Goes(c)
  BY DEF R!Gives
<1>2. /\ RunTypes /\ inv.mode # "meta" /\ IsSeq(v) /\ IsSeq(store.rows) /\ v # <<>>
      /\ Judges(v) /\ DoneButLast(v) /\ Enriched(store.rows) /\ R!Auditable(a)
  <2>1. \E w : IsSeq(w) /\ v = Append(w, Ran(inv))
    BY DEF RunInv, Level
  <2>2. v # <<>>
    BY <2>1, VectorFacts
  <2> QED
    BY <2>2 DEF RunInv, RunTypes, Stands, InOrder, Level
<1>3. PICK w : IsSeq(w) /\ v = Append(w, Ran(inv)) /\ (~told.warned => Tally(w, store.rows))
  BY DEF RunInv, Level
<1>4. AllDone(w) /\ (c = 0 => AllDone(v))
  <2>1. Ran(inv).code = c
    BY DEF Ran
  <2> HIDE DEF v, c
  <2> QED
    BY <1>2, <1>3, <2>1, VectorFacts
<1>5. /\ DOMAIN told' = {"vectors", "warned"} /\ told'.vectors = v
      /\ DOMAIN store' = {"open", "rows"} /\ IsSeq(store'.rows) /\ Enriched(store'.rows)
      /\ ~told'.warned => ~told.warned /\ store'.rows = Append(store.rows, r)
  <2>1. r.enrichment \in Enrichments
    BY RowFacts, ZenonT(40)
  <2> HIDE DEF r
  <2> QED
    BY <1>1, <1>2, <2>1, WritesRowFacts
<1>6. ~told.warned => Tally(v, Append(store.rows, r))
  <2>1. Ran(inv) = [argv |-> a, mode |-> "passthrough", code |-> c]
    BY DEF Ran
  <2> HIDE DEF a, c, v
  <2> QED
    BY <1>2, <1>3, <2>1, TallyFacts
<1> HIDE DEF a, c, r, v
<1>7. ~told'.warned => Tally(told'.vectors, store'.rows)
  BY <1>5, <1>6
<1>8. /\ IsSeq(told'.vectors) /\ told'.vectors # <<>> /\ Judges(told'.vectors)
      /\ DoneButLast(told'.vectors) /\ (c = 0 => AllDone(told'.vectors))
  BY <1>2, <1>4, <1>5
<1> QED
  BY <1>1, <1>2, <1>5, <1>7, <1>8, Settles

LEMMA NoStatusKeeps ==
    ASSUME RunInv, R!NoStatus
    PROVE  RunInv'
<1>1. at = "enrich" /\ R!Gives(None) /\ None \in Enrichments
  BY DEF R!NoStatus, Enrichments
<1> QED
  BY <1>1, GivesKeeps

LEMMA JoinsKeeps ==
    ASSUME RunInv, R!Joins
    PROVE  RunInv'
<1> DEFINE e == IF status.state = "succeeded" /\ status.waited THEN R!ParseStatus(status.got) ELSE None
<1>1. /\ at = "enrich" /\ status.state \in {"succeeded", "failed", "killed"}
      /\ status.reader = "done" /\ R!Gives(e)
  BY DEF R!Joins
<1>2. ASSUME status.state = "succeeded" PROVE status.got \in Statuses
  <2>1. status # R!NoChild
    BY <1>2 DEF R!NoChild
  <2>2. ChildSound
    BY <2>1 DEF RunInv, Children
  <2>3. /\ status.left = <<>> /\ status.pipe = <<>> /\ status.got \in Seq(Lines)
        /\ (status.got \o status.pipe) \o status.left \in Statuses
    BY <1>1, <1>2, <2>2 DEF ChildSound
  <2>4. (status.got \o <<>>) \o <<>> = status.got
    BY <2>3, ConcatEmptySeq
  <2> QED
    BY <2>3, <2>4
<1>3. e \in Enrichments
  BY <1>2 DEF Enrichments
<1> HIDE DEF e
<1> QED
  BY <1>1, <1>3, GivesKeeps

\* The row of a shortcut comes after those of its vectors.
LEMMA SumsKeeps ==
    ASSUME RunInv, R!Sums
    PROVE  RunInv'
<1> DEFINE b == R!Bare(inv.argv)
           r == R!Row(b, "shortcut", inv.code, None)
<1>1. /\ at = "sum" /\ R!WritesRow(r) /\ at' = "done" /\ inv' = inv /\ status' = status
  BY DEF R!Sums
<1>2. /\ RunTypes /\ inv.mode = "shortcut" /\ told.vectors # <<>> /\ status = R!NoChild
      /\ IsSeq(told.vectors) /\ IsSeq(store.rows) /\ Judges(told.vectors)
      /\ DoneButLast(told.vectors) /\ Enriched(store.rows)
      /\ ~told.warned => Tally(told.vectors, store.rows)
  BY <1>1 DEF RunInv, RunTypes, Stands, InOrder, Level, Children
<1>3. r.enrichment \in Enrichments /\ R!Plain(r) = Summary(inv)
  <2>1. r.enrichment = None
    BY DEF R!Row
  <2>2. R!Plain(r) = MaskedRow([argv |-> b, mode |-> "shortcut", code |-> inv.code])
    BY RowFacts
  <2> HIDE DEF r
  <2>3. r.enrichment \in Enrichments
    BY <2>1 DEF Enrichments
  <2> QED
    BY <2>2, <2>3 DEF Summary, MaskedRow
<1> HIDE DEF r
<1>4. /\ DOMAIN told' = {"vectors", "warned"} /\ told'.vectors = told.vectors
      /\ DOMAIN store' = {"open", "rows"} /\ IsSeq(store'.rows) /\ Enriched(store'.rows)
      /\ ~told'.warned => ~told.warned /\ store'.rows = Append(store.rows, r)
  BY <1>1, <1>2, <1>3, WritesRowFacts
<1>5. RunTypes' /\ Stands' /\ InOrder'
  <2>1. RunTypes'
    BY <1>1, <1>2, <1>4 DEF RunTypes
  <2>2. Stands' /\ InOrder'
    BY <1>1, <1>2, <1>4 DEF Stands, InOrder
  <2> QED
    BY <2>1, <2>2
<1>6. ASSUME ~told'.warned
      PROVE  Plains(store'.rows) = R!Audited(told'.vectors) \o <<Summary(inv)>>
  <2>1. store'.rows = Append(store.rows, r) /\ Plains(store.rows) = R!Audited(told.vectors)
    BY <1>2, <1>4, <1>6 DEF Tally
  <2>2. Plains(Append(store.rows, r)) = Append(Plains(store.rows), Summary(inv)) /\ IsSeq(Plains(store.rows))
    BY <1>2, <1>3, PlainsFacts
  <2>3. Append(Plains(store.rows), Summary(inv)) = Plains(store.rows) \o <<Summary(inv)>>
    BY <2>2, SeqFacts
  <2> QED
    BY <1>4, <2>1, <2>2, <2>3
<1>7. Level'
  BY <1>1, <1>2, <1>4, <1>6 DEF Level
<1>8. Children'
  BY <1>1, <1>2 DEF Children
<1> QED
  BY <1>4, <1>5, <1>7, <1>8 DEF RunInv

-----------------------------------------------------------------------------
(* The steps of the child and of its reader.                                 *)

LEMMA HeadTailIsWhole ==
    ASSUME NEW S, NEW s \in Seq(S), s # <<>>
    PROVE  Head(s) \in S /\ Tail(s) \in Seq(S) /\ <<Head(s)>> \o Tail(s) = s
<1> DEFINE h == <<Head(s)>>
           t == Tail(s)
           r == h \o t
<1>1. /\ Head(s) \in S /\ t \in Seq(S) /\ Len(t) = Len(s) - 1
      /\ \A i \in 1..Len(t) : t[i] = s[i + 1]
  BY HeadTailProperties
<1>2. h \in Seq(S) /\ Len(h) = 1 /\ h[1] = s[1] /\ Len(s) \in Nat
  BY <1>1
<1> HIDE DEF h, t
<1>3. /\ r \in Seq(S) /\ Len(r) = Len(h) + Len(t)
      /\ \A i \in 1..(Len(h) + Len(t)) : r[i] = IF i <= Len(h) THEN h[i] ELSE t[i - Len(h)]
  <2>1. h \in Seq(S) /\ t \in Seq(S)
    BY <1>1, <1>2
  <2> QED
    BY ONLY <2>1, ConcatProperties
<1> HIDE DEF r
<1>4. Len(t) \in Nat /\ Len(r) = Len(s)
  <2>1. Len(t) \in Nat
    BY <1>1
  <2> QED
    BY ONLY <2>1, <1>1, <1>2, <1>3
<1>5. \A i \in 1..Len(s) : r[i] = s[i]
  <2> SUFFICES ASSUME NEW i \in 1..Len(s) PROVE r[i] = s[i]
    OBVIOUS
  <2>1. i \in Nat /\ i \in 1..(Len(h) + Len(t)) /\ (i <= 1 => i = 1)
        /\ (i # 1 => ~(i <= 1) /\ i - 1 \in 1..Len(t) /\ (i - 1) + 1 = i)
    BY ONLY <1>1, <1>2, <1>4, i \in 1..Len(s)
  <2>2. r[i] = IF i <= 1 THEN h[i] ELSE t[i - 1]
    BY <1>2, <1>3, <2>1
  <2>3. CASE i = 1
    BY <1>2, <2>1, <2>2, <2>3
  <2>4. CASE i # 1
    <3>1. r[i] = t[i - 1]
      BY <2>1, <2>2, <2>4
    <3> QED
      BY <1>1, <2>1, <2>4, <3>1
  <2> QED
    BY <2>3, <2>4
<1>6. r = s
  BY <1>3, <1>4, <1>5, SeqEqual
<1> QED
  BY <1>1, <1>6 DEF r, h, t

LEMMA SomeChild ==
    ASSUME RunInv, status.reader # "none" \/ status.state # "none"
    PROVE  at = "enrich" /\ ChildSound
<1>1. status # R!NoChild
  BY DEF R!NoChild
<1> QED
  BY <1>1 DEF RunInv, Children

LEMMA ChildSetsKeeps ==
    ASSUME RunInv, UNCHANGED <<inv, at, store, told>>, at = "enrich", ChildSound'
    PROVE  RunInv'
<1>1. inv' = inv /\ at' = at /\ store' = store /\ told' = told
  OBVIOUS
<1>2. RunTypes' /\ Stands' /\ InOrder' /\ Enriched(store.rows)'
  BY <1>1 DEF RunInv, RunTypes, Stands, InOrder
<1>3. Level'
  BY <1>1 DEF RunInv, Level
<1>4. Children'
  BY <1>1 DEF Children
<1> QED
  BY <1>2, <1>3, <1>4 DEF RunInv

LEMMA ChildWritesKeeps ==
    ASSUME RunInv, R!ChildWrites
    PROVE  RunInv'
<1>1. /\ status.state = "running" /\ status.left # <<>> /\ status.pipe = <<>>
      /\ status' = [status EXCEPT !.pipe = <<Head(status.left)>>, !.left = Tail(status.left)]
      /\ UNCHANGED <<inv, at, store, told>>
  BY DEF R!ChildWrites, R!ChildSets
<1>2. at = "enrich" /\ ChildSound
  BY <1>1, SomeChild
<1>3. /\ DOMAIN status = {"state", "left", "pipe", "got", "reader", "expired", "waited"}
      /\ status.got \in Seq(Lines) /\ status.left \in Seq(Lines) /\ status.reader # "done"
      /\ (status.got \o <<>>) \o status.left \in Statuses
  BY <1>1, <1>2 DEF ChildSound
<1>4. /\ DOMAIN status' = {"state", "left", "pipe", "got", "reader", "expired", "waited"}
      /\ status'.state = "running" /\ status'.got = status.got /\ status'.reader = status.reader
      /\ status'.pipe = <<Head(status.left)>> /\ status'.left = Tail(status.left)
  BY <1>1, <1>3
<1>5. /\ <<Head(status.left)>> \in Seq(Lines) /\ Tail(status.left) \in Seq(Lines)
      /\ (status.got \o <<Head(status.left)>>) \o Tail(status.left) = (status.got \o <<>>) \o status.left
  <2> DEFINE g == status.got
             l == status.left
  <2>1. g \in Seq(Lines) /\ l \in Seq(Lines) /\ l # <<>>
    BY <1>1, <1>3
  <2> HIDE DEF g, l
  <2>2. Head(l) \in Lines /\ Tail(l) \in Seq(Lines) /\ <<Head(l)>> \o Tail(l) = l
    BY <2>1, HeadTailIsWhole
  <2>3. <<Head(l)>> \in Seq(Lines)
    BY <2>2
  <2>4. (g \o <<Head(l)>>) \o Tail(l) = g \o (<<Head(l)>> \o Tail(l))
    BY <2>1, <2>2, <2>3, ConcatAssociative
  <2>5. g \o <<>> = g
    BY <2>1, ConcatEmptySeq
  <2>6. (g \o <<Head(l)>>) \o Tail(l) = (g \o <<>>) \o l
    BY <2>2, <2>4, <2>5
  <2> QED
    BY <2>2, <2>3, <2>6 DEF g, l
<1>6. ChildSound'
  BY <1>3, <1>4, <1>5 DEF ChildSound
<1> QED
  BY <1>1, <1>2, <1>6, ChildSetsKeeps

LEMMA ReaderReadsKeeps ==
    ASSUME RunInv, R!ReaderReads
    PROVE  RunInv'
<1>1. /\ status.reader = "reading" /\ status.pipe # <<>>
      /\ status' = [status EXCEPT !.got = status.got \o status.pipe, !.pipe = <<>>]
      /\ UNCHANGED <<inv, at, store, told>>
  BY DEF R!ReaderReads, R!ChildSets
<1>2. at = "enrich" /\ ChildSound
  BY <1>1, SomeChild
<1>3. /\ DOMAIN status' = {"state", "left", "pipe", "got", "reader", "expired", "waited"}
      /\ status'.state = status.state /\ status'.got = status.got \o status.pipe
      /\ status'.reader = status.reader /\ status'.pipe = <<>> /\ status'.left = status.left
  BY <1>1, <1>2 DEF ChildSound
<1>4. status'.got \in Seq(Lines) /\ <<>> \in Seq(Lines)
      /\ (status'.got \o <<>>) \o status.left = (status.got \o status.pipe) \o status.left
  <2> DEFINE g == status.got \o status.pipe
  <2>1. g \in Seq(Lines)
    BY <1>2 DEF ChildSound
  <2> HIDE DEF g
  <2>2. g \o <<>> = g
    BY <2>1, ConcatEmptySeq
  <2>3. status'.got = g
    BY <1>3 DEF g
  <2> QED
    BY <2>1, <2>2, <2>3 DEF g
<1>5. ChildSound'
  BY <1>1, <1>2, <1>3, <1>4 DEF ChildSound
<1> QED
  BY <1>1, <1>2, <1>5, ChildSetsKeeps

\* The child ends, its reader ends, the deadline passes, the command kills the child or can
\* no longer ask after it.
LEMMA ChildEndsKeeps ==
    ASSUME RunInv, R!ChildExits \/ R!ReaderEnds \/ R!Expires \/ R!Kills \/ R!Loses
    PROVE  RunInv'
<1>1. /\ UNCHANGED <<inv, at, store, told>>
      /\ \/ /\ status.state = "running" /\ status.left = <<>>
            /\ \E s \in {"succeeded", "failed"} : status' = [status EXCEPT !.state = s]
         \/ /\ status.reader = "reading" /\ status.pipe = <<>> /\ status.state # "running"
            /\ status' = [status EXCEPT !.reader = "done"]
         \/ status.state = "running" /\ status' = [status EXCEPT !.expired = TRUE]
         \/ status.state = "running" /\ status' = [status EXCEPT !.state = "killed"]
         \/ /\ status.state \in {"running", "succeeded", "failed"}
            /\ status' = [status EXCEPT !.waited = FALSE]
  <2>1. CASE R!ChildExits
    BY <2>1 DEF R!ChildExits, R!ChildSets
  <2>2. CASE R!ReaderEnds
    BY <2>2 DEF R!ReaderEnds, R!ChildSets
  <2>3. CASE R!Expires
    BY <2>3 DEF R!Expires, R!ChildSets
  <2>4. CASE R!Kills
    BY <2>4 DEF R!Kills, R!ChildSets
  <2>5. CASE R!Loses
    BY <2>5 DEF R!Loses, R!ChildSets
  <2> QED
    BY <2>1, <2>2, <2>3, <2>4, <2>5
<1>2. at = "enrich" /\ ChildSound
  BY <1>1, SomeChild
<1>3. DOMAIN status = {"state", "left", "pipe", "got", "reader", "expired", "waited"}
  BY <1>2 DEF ChildSound
<1>4. /\ DOMAIN status' = {"state", "left", "pipe", "got", "reader", "expired", "waited"}
      /\ status'.got = status.got /\ status'.pipe = status.pipe /\ status'.left = status.left
      /\ status'.state \in {"running", "succeeded", "failed", "killed"}
      /\ status'.state \in {"succeeded", "failed"} => status.left = <<>>
      /\ status'.reader = "done" => status'.state # "running" /\ status.pipe = <<>>
  <2>1. CASE /\ status.state = "running" /\ status.left = <<>>
             /\ \E s \in {"succeeded", "failed"} : status' = [status EXCEPT !.state = s]
    BY <1>2, <1>3, <2>1 DEF ChildSound
  <2>2. CASE /\ status.reader = "reading" /\ status.pipe = <<>> /\ status.state # "running"
             /\ status' = [status EXCEPT !.reader = "done"]
    BY <1>2, <1>3, <2>2 DEF ChildSound
  <2>3. CASE status.state = "running" /\ status' = [status EXCEPT !.expired = TRUE]
    BY <1>2, <1>3, <2>3 DEF ChildSound
  <2>4. CASE status.state = "running" /\ status' = [status EXCEPT !.state = "killed"]
    BY <1>2, <1>3, <2>4 DEF ChildSound
  <2>5. CASE /\ status.state \in {"running", "succeeded", "failed"}
             /\ status' = [status EXCEPT !.waited = FALSE]
    BY <1>2, <1>3, <2>5 DEF ChildSound
  <2> QED
    BY <1>1, <2>1, <2>2, <2>3, <2>4, <2>5
<1>5. ChildSound'
  BY <1>2, <1>4 DEF ChildSound
<1> QED
  BY <1>1, <1>2, <1>5, ChildSetsKeeps

-----------------------------------------------------------------------------

RunHolds == at # None => RunInv

LEMMA RunInit ==
    ASSUME R!Init
    PROVE  RunInv
<1>1. PICK a \in Invocations, open \in BOOLEAN :
        /\ inv = [argv |-> a, mode |-> R!Classify(a), steps |-> <<>>, code |-> 0]
        /\ at = "start" /\ status = R!NoChild
        /\ store = [open |-> open, rows |-> <<>>]
        /\ told = [vectors |-> <<>>, warned |-> FALSE]
  BY DEF R!Init
<1>2. R!Classify(a) \in {"meta", "passthrough", "shortcut"}
  BY DEF R!Classify
<1>3. Len(<<>>) = 0 /\ 1..0 = {} /\ 1..(0 - 1) = {} /\ IsSeq(<<>>)
  <2>1. <<>> \in Seq({})
    OBVIOUS
  <2> QED
    BY <2>1 DEF IsSeq
<1>4. RunTypes
  BY <1>1, <1>2, <1>3 DEF RunTypes
<1>5. Stands /\ InOrder /\ Level /\ Children
  BY <1>1, <1>3 DEF Stands, InOrder, Judges, DoneButLast, Level, Children
<1>6. Enriched(store.rows)
  BY <1>1, <1>3 DEF Enriched
<1> QED
  BY <1>4, <1>5, <1>6 DEF RunInv

LEMMA RunStep == RunHolds /\ [Next]_vars => RunHolds'
<1> SUFFICES ASSUME RunHolds, [Next]_vars
             PROVE  RunHolds'
  OBVIOUS
<1>1. CASE at # None /\ R!Next
  <2>1. RunInv
    BY <1>1 DEF RunHolds
  <2>2. RunInv'
    <3>1. CASE R!ChildExits \/ R!ReaderEnds \/ R!Expires \/ R!Kills \/ R!Loses
      BY <2>1, <3>1, ChildEndsKeeps
    <3>2. CASE R!NoStatus \/ R!Joins \/ R!Sums
      BY <2>1, <3>2, NoStatusKeeps, JoinsKeeps, SumsKeeps
    <3>3. CASE R!Starts \/ R!GatePasses \/ R!GateBlocks \/ R!GitRuns
      BY <2>1, <3>3, StartsKeeps, GatePassesKeeps, GateBlocksKeeps, GitRunsKeeps
    <3>4. CASE R!ChildWrites \/ R!ReaderReads
      BY <2>1, <3>4, ChildWritesKeeps, ReaderReadsKeeps
    <3> QED
      BY <1>1, <3>1, <3>2, <3>3, <3>4 DEF R!Next, R!Command
  <2> QED
    BY <2>2 DEF RunHolds
<1>2. CASE UNCHANGED pipeline
  <2>1. inv' = inv /\ at' = at /\ store' = store /\ status' = status /\ told' = told
    BY <1>2 DEF pipeline
  <2> QED
    BY <2>1 DEF RunHolds, RunInv, RunTypes, Stands, InOrder, Level, Children, ChildSound
<1> QED
  BY <1>1, <1>2 DEF Next, vars

\* Whatever is run, and however its status child, the reader and the deadline fall: the policy
\* is applied to every vector and none follows a failed one, the rows tell the story in order
\* unless a warning says otherwise, and the state in a row is that of a whole status.
THEOREM RowsKept == Spec => []RowsAreTrue
<1>1. Init => RunHolds
  BY RunInit DEF Init, RunHolds, PipelineIdle
<1>2. RunHolds => RowsAreTrue
  <2> SUFFICES ASSUME RunInv
               PROVE  R!LogTellsTheStory /\ R!StatusIsWhole
    BY DEF RunHolds, RowsAreTrue
  <2>1. /\ DOMAIN told.vectors = 1..Len(told.vectors) /\ DOMAIN store.rows = 1..Len(store.rows)
    BY SeqFacts DEF RunInv, RunTypes
  <2>2. R!StatusIsWhole
    BY <2>1 DEF RunInv, Enriched, Enrichments, R!StatusIsWhole
  <2>3. \A i \in DOMAIN told.vectors :
          told.vectors[i].mode = "blocked" <=> told.vectors[i].argv.sub \in DOMAIN Blocked
    BY <2>1 DEF RunInv, InOrder, Judges
  <2>4. \A i \in 1..(Len(told.vectors) - 1) : told.vectors[i].code = 0
    BY DEF RunInv, InOrder, DoneButLast
  <2>5. at = "done" /\ ~told.warned =>
          [i \in DOMAIN store.rows |-> R!Plain(store.rows[i])] =
            R!Audited(told.vectors)
              \o IF inv.mode = "shortcut" /\ told.vectors # <<>> THEN <<Summary(inv)>> ELSE <<>>
    BY DEF RunInv, Level, Plains
  <2> QED
    BY <2>2, <2>3, <2>4, <2>5 DEF R!LogTellsTheStory, Summary
<1> QED
  BY <1>1, <1>2, RunStep, PTL DEF Spec
==============================================================================
