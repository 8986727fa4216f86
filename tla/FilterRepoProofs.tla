--------------------------- MODULE FilterRepoProofs ---------------------------
(* Proofs about FilterRepo, for every history it may be given. The argument:  *)
(* the stream is read in order, so that the commits read are always the first *)
(* ones (StreamInv); of each commit read, what survives at or below it is its *)
(* survivor and what is below that in the new history (SurvivorStands), which *)
(* makes resolve_parents keep ancestry and makes the tree that a commit's     *)
(* changes are applied to the filtered old one (TreesAreFiltered); and each   *)
(* branch trails the last commit read of it (TipInv).                         *)
EXTENDS FilterRepo, FiniteSetTheorems, WellFoundedInduction, TLAPS

\* A set of numbers that is not empty has a least one.
LEMMA Least ==
    ASSUME NEW S \in SUBSET Nat, S # {}
    PROVE  \E x \in S : \A y \in S : x <= y
<1>1. PICK s \in S : TRUE
  OBVIOUS
<1> DEFINE Small == {x \in S : x <= s}
           Under(y) == {z \in Small : z < y}
           Unders == {Under(y) : y \in Small}
           Smaller == StrictSubsetOrdering(Small)
<1>2. IsFiniteSet(Small)
  <2>1. s \in Nat /\ 0 \in Int /\ s \in Int
    OBVIOUS
  <2>2. IsFiniteSet(0..s)
    BY <2>1, FS_Interval
  <2>3. Small \subseteq 0..s
    <3> SUFFICES ASSUME NEW z \in S, z <= s PROVE z \in 0..s
      OBVIOUS
    <3>1. z \in Nat
      OBVIOUS
    <3> QED
      BY ONLY <2>1, <3>1, z <= s
  <2> QED
    BY <2>2, <2>3, FS_Subset
<1>3. IsWellFoundedOn(Smaller, SUBSET Small)
  BY <1>2, FS_FiniteSubsetsOfFinite, FS_StrictSubsetOrderingWellFounded, Zenon
<1>4. Unders \subseteq SUBSET Small /\ Unders # {}
  <2>1. s \in Small
    BY <1>1
  <2> QED
    BY <2>1
<1>5. PICK t \in Unders : \A u \in Unders : <<u, t>> \notin Smaller
  <2> HIDE DEF Smaller, Unders
  <2> QED
    BY <1>3, <1>4, WFMin
<1>6. PICK x \in Small : t = Under(x)
  OBVIOUS
<1>7. \A y \in Small : x <= y
  <2> SUFFICES ASSUME NEW y \in Small, y < x PROVE FALSE
    OBVIOUS
  <2>1. Under(y) \subseteq Under(x)
    <3> SUFFICES ASSUME NEW z \in Small, z < y PROVE z < x
      OBVIOUS
    <3>1. x \in Nat /\ y \in Nat /\ z \in Nat
      OBVIOUS
    <3> QED
      BY ONLY <3>1, z < y, y < x
  <2>2. y \in Under(x) /\ y \notin Under(y)
    OBVIOUS
  <2>3. Under(x) \in SUBSET Small /\ Under(y) \in SUBSET Small /\ Under(y) \in Unders
    OBVIOUS
  <2> HIDE DEF Under
  <2>4. <<Under(y), Under(x)>> \in Smaller
    BY <2>1, <2>2, <2>3 DEF StrictSubsetOrdering
  <2> QED
    BY <1>5, <1>6, <2>3, <2>4
<1> QED
  BY <1>1, <1>7

\* Induction, on the set of the numbers that have the property.
LEMMA Induct ==
    ASSUME NEW S, 0 \in S, \A n \in Nat : n \in S => n + 1 \in S
    PROVE  Nat \subseteq S
<1> SUFFICES ASSUME Nat \ S # {} PROVE FALSE
  OBVIOUS
<1>1. PICK n \in Nat \ S : \A m \in Nat \ S : n <= m
  BY Least
<1>2. n # 0 /\ n - 1 \in Nat /\ ~(n <= n - 1)
  BY <1>1
<1>3. n - 1 \in S
  BY <1>1, <1>2
<1> QED
  BY <1>1, <1>2, <1>3, (n - 1) + 1 = n

-----------------------------------------------------------------------------
(* Graphs of parents.                                                         *)

\* Parents come before their children.
Older(parents) ==
    /\ DOMAIN parents \subseteq Nat
    /\ \A c \in DOMAIN parents : ToSet(parents[c]) \subseteq {d \in DOMAIN parents : d < c}

IsBelow(parents, f) ==
    f = [c \in DOMAIN parents |-> UNION {{p} \cup f[p] : p \in ToSet(parents[c])}]

\* What can be reached from a commit: what is in every set that has its parents and is
\* closed under parents.
Closed(parents, S) == \A c \in S : ToSet(parents[c]) \subseteq S
Reach(parents, c) ==
    {d \in DOMAIN parents :
        \A S \in SUBSET DOMAIN parents :
            ToSet(parents[c]) \subseteq S /\ Closed(parents, S) => d \in S}

LEMMA ReachIsBelow ==
    ASSUME NEW parents, Older(parents)
    PROVE  IsBelow(parents, [c \in DOMAIN parents |-> Reach(parents, c)])
<1> DEFINE reach == [c \in DOMAIN parents |-> Reach(parents, c)]
<1> SUFFICES ASSUME NEW c \in DOMAIN parents
             PROVE  Reach(parents, c) = UNION {{p} \cup reach[p] : p \in ToSet(parents[c])}
  BY DEF IsBelow
<1> DEFINE T == UNION {{p} \cup reach[p] : p \in ToSet(parents[c])}
<1>1. \A d \in DOMAIN parents : ToSet(parents[d]) \subseteq DOMAIN parents
  BY DEF Older
<1>2. T \subseteq Reach(parents, c)
  <2> SUFFICES ASSUME NEW p \in ToSet(parents[c]), NEW d \in {p} \cup Reach(parents, p),
                      NEW S \in SUBSET DOMAIN parents,
                      ToSet(parents[c]) \subseteq S, Closed(parents, S)
               PROVE  d \in DOMAIN parents /\ d \in S
    BY <1>1 DEF Reach
  <2>1. p \in S /\ ToSet(parents[p]) \subseteq S
    BY DEF Closed
  <2> QED
    BY <2>1 DEF Reach
<1>3. T \subseteq DOMAIN parents
  BY <1>2 DEF Reach
<1>4. ToSet(parents[c]) \subseteq T
  OBVIOUS
<1>5. Closed(parents, T)
  <2> SUFFICES ASSUME NEW d \in T, NEW e \in ToSet(parents[d]) PROVE e \in T
    BY DEF Closed
  <2>1. PICK p \in ToSet(parents[c]) : d \in {p} \cup reach[p]
    OBVIOUS
  <2>2. p \in DOMAIN parents /\ d \in DOMAIN parents /\ e \in DOMAIN parents
    BY <1>1, <1>3
  <2>3. e \in Reach(parents, p)
    <3>1. \A S \in SUBSET DOMAIN parents :
             ToSet(parents[p]) \subseteq S /\ Closed(parents, S) => ToSet(parents[d]) \subseteq S
      <4> SUFFICES ASSUME NEW S \in SUBSET DOMAIN parents,
                          ToSet(parents[p]) \subseteq S, Closed(parents, S)
                   PROVE  ToSet(parents[d]) \subseteq S
        OBVIOUS
      <4>1. CASE d = p
        BY <4>1
      <4>2. CASE d \in Reach(parents, p)
        <5>1. d \in S
          BY <4>2 DEF Reach
        <5> QED
          BY <5>1 DEF Closed
      <4> QED
        BY <2>1, <2>2, <4>1, <4>2
    <3> QED
      BY <2>2, <3>1 DEF Reach
  <2> QED
    BY <2>2, <2>3
<1>6. Reach(parents, c) \subseteq T
  <2> HIDE DEF T
  <2> QED
    BY <1>3, <1>4, <1>5 DEF Reach
<1> QED
  BY <1>2, <1>6

LEMMA BelowIsUnique ==
    ASSUME NEW parents, Older(parents), NEW f, NEW g, IsBelow(parents, f), IsBelow(parents, g)
    PROVE  f = g
<1> DEFINE D == DOMAIN parents
           Wrong == {c \in D : f[c] # g[c]}
<1>1. /\ f = [c \in D |-> f[c]] /\ g = [c \in D |-> g[c]]
      /\ \A c \in D : f[c] = UNION {{p} \cup f[p] : p \in ToSet(parents[c])}
      /\ \A c \in D : g[c] = UNION {{p} \cup g[p] : p \in ToSet(parents[c])}
  BY DEF IsBelow
<1>2. Wrong = {}
  <2> SUFFICES ASSUME Wrong # {} PROVE FALSE
    OBVIOUS
  <2>1. Wrong \in SUBSET Nat
    BY DEF Older
  <2>2. PICK c \in Wrong : \A d \in Wrong : c <= d
    <3> HIDE DEF Wrong
    <3> QED
      BY <2>1, Least
  <2>3. \A p \in ToSet(parents[c]) : p \in D /\ p \notin Wrong
    BY <2>1, <2>2 DEF Older
  <2>4. \A p \in ToSet(parents[c]) : f[p] = g[p]
    BY <2>3
  <2>5. {{p} \cup f[p] : p \in ToSet(parents[c])} = {{p} \cup g[p] : p \in ToSet(parents[c])}
    BY <2>4
  <2> QED
    BY <1>1, <2>2, <2>5
<1> QED
  BY <1>1, <1>2

LEMMA BelowFacts ==
    ASSUME NEW parents, Older(parents)
    PROVE  /\ IsBelow(parents, Below(parents))
           /\ \A f : IsBelow(parents, f) => Below(parents) = f
           /\ \A c \in DOMAIN parents :
                /\ Below(parents)[c] \subseteq {d \in DOMAIN parents : d < c}
                /\ Below(parents)[c] =
                     UNION {{p} \cup Below(parents)[p] : p \in ToSet(parents[c])}
<1>1. \E f : IsBelow(parents, f)
  BY ReachIsBelow
<1>2. Below(parents) = CHOOSE f : IsBelow(parents, f)
  BY DEF Below, IsBelow
<1>3. IsBelow(parents, Below(parents))
  BY <1>1, <1>2
<1>4. \A f : IsBelow(parents, f) => Below(parents) = f
  BY <1>3, BelowIsUnique
<1>5. Below(parents) = [c \in DOMAIN parents |-> Reach(parents, c)]
  BY <1>4, ReachIsBelow
<1>6. ASSUME NEW c \in DOMAIN parents
      PROVE  Reach(parents, c) \subseteq {d \in DOMAIN parents : d < c}
  <2> DEFINE S == {d \in DOMAIN parents : d < c}
  <2>1. ToSet(parents[c]) \subseteq S
    BY DEF Older
  <2>2. Closed(parents, S)
    <3> SUFFICES ASSUME NEW d \in S, NEW e \in ToSet(parents[d]) PROVE e \in S
      BY DEF Closed
    <3>1. c \in Nat /\ d \in Nat /\ e \in Nat /\ e \in DOMAIN parents /\ e < d /\ d < c
      BY DEF Older
    <3>2. e < c
      BY ONLY <3>1
    <3> QED
      BY <3>1, <3>2
  <2> QED
    BY <2>1, <2>2 DEF Reach
<1> QED
  BY <1>3, <1>4, <1>5, <1>6 DEF IsBelow

\* What is below what is below a commit is below it.
LEMMA BelowTransitive ==
    ASSUME NEW parents, Older(parents), NEW c \in DOMAIN parents, NEW d \in Below(parents)[c]
    PROVE  Below(parents)[d] \subseteq Below(parents)[c]
<1>1. Below(parents) = [x \in DOMAIN parents |-> Reach(parents, x)]
  BY BelowFacts, ReachIsBelow
<1>2. d \in DOMAIN parents /\ Below(parents)[d] = Reach(parents, d)
  BY <1>1, BelowFacts
<1>3. Below(parents)[c] = Reach(parents, c)
  BY <1>1
<1>4. \A S \in SUBSET DOMAIN parents :
         ToSet(parents[c]) \subseteq S /\ Closed(parents, S) => ToSet(parents[d]) \subseteq S
  BY <1>3 DEF Reach, Closed
<1> QED
  BY <1>2, <1>3, <1>4 DEF Reach

-----------------------------------------------------------------------------
(* resolve_parents.                                                           *)

Drops(parents, f, n) ==
    \/ Resolve(parents[n]) = None
    \/ IsPruned(parents[n]) /\ Resolve(parents[n]) \in ToSet(f[n - 1])
Goes(parents, f, n) ==
    IF n = 0 THEN <<>>
    ELSE IF Drops(parents, f, n) THEN f[n - 1]
    ELSE Append(f[n - 1], Resolve(parents[n]))
IsOut(parents, f) == f = [n \in 0..Len(parents) |-> Goes(parents, f, n)]

LEMMA OutExists ==
    ASSUME NEW parents, Len(parents) \in Nat
    PROVE  \E f : IsOut(parents, f)
<1> DEFINE Upto(n, f) == f = [m \in 0..n |-> Goes(parents, f, m)]
           S == {n \in Nat : \E f : Upto(n, f)}
<1>1. 0 \in S
  <2>1. Upto(0, [m \in 0..0 |-> <<>>])
    BY DEF Goes
  <2> QED
    BY <2>1
<1>2. ASSUME NEW n \in Nat, n \in S PROVE n + 1 \in S
  <2>1. PICK f : Upto(n, f)
    BY <1>2
  <2> DEFINE g == [m \in 0..(n + 1) |-> IF m = n + 1 THEN Goes(parents, f, n + 1) ELSE f[m]]
  <2>2. \A m \in 0..n : g[m] = f[m] /\ m \in 0..(n + 1)
    OBVIOUS
  <2>3. \A m \in 0..(n + 1) : Goes(parents, g, m) = Goes(parents, f, m)
    <3> SUFFICES ASSUME NEW m \in 0..(n + 1), m # 0
                 PROVE  Goes(parents, g, m) = Goes(parents, f, m)
      BY DEF Goes
    <3>1. m - 1 \in 0..n
      OBVIOUS
    <3>2. g[m - 1] = f[m - 1]
      BY <2>2, <3>1
    <3> HIDE DEF g
    <3> QED
      BY <3>2 DEF Goes, Drops
  <2>4. \A m \in 0..n : f[m] = Goes(parents, f, m)
    BY <2>1
  <2>5. \A m \in 0..(n + 1) : g[m] = Goes(parents, g, m)
    <3> SUFFICES ASSUME NEW m \in 0..(n + 1) PROVE g[m] = Goes(parents, f, m)
      BY <2>3
    <3>1. CASE m = n + 1
      BY <3>1
    <3>2. CASE m # n + 1
      <4>1. m \in 0..n
        BY <3>2
      <4> QED
        BY <4>1, <2>2, <2>4
    <3> QED
      BY <3>1, <3>2
  <2>6. Upto(n + 1, g)
    <3>1. g = [m \in 0..(n + 1) |-> g[m]]
      OBVIOUS
    <3> HIDE DEF g
    <3> QED
      BY <2>5, <3>1
  <2> HIDE DEF Upto
  <2> QED
    BY <2>6
<1>3. Nat \subseteq S
  <2> HIDE DEF S
  <2> QED
    BY <1>1, <1>2, Induct
<1> QED
  BY <1>3 DEF IsOut

LEMMA ResolvedIsOut ==
    ASSUME NEW parents, Len(parents) \in Nat
    PROVE  \E f : IsOut(parents, f) /\ ResolveParents(parents) = f[Len(parents)]
<1>1. ResolveParents(parents) = (CHOOSE f : IsOut(parents, f))[Len(parents)]
  BY DEF ResolveParents, IsOut, Goes, Drops
<1> QED
  BY <1>1, OutExists

LEMMA Narrower ==
    ASSUME NEW S, NEW T, NEW s \in Seq(S), \A i \in DOMAIN s : s[i] \in T
    PROVE  s \in Seq(T)
<1>1. Len(s) \in Nat /\ DOMAIN s = 1..Len(s) /\ s = [i \in 1..Len(s) |-> s[i]]
  OBVIOUS
<1> QED
  BY <1>1

LEMMA Appended ==
    ASSUME NEW S, NEW s \in Seq(S), NEW x
    PROVE  /\ ToSet(Append(s, x)) = ToSet(s) \cup {x}
           /\ Len(Append(s, x)) = Len(s) + 1
           /\ Len(s) >= 1 => Append(s, x)[1] = s[1]
           /\ s = <<>> => Append(s, x)[1] = x
<1>1. s \in Seq(S \cup {x}) /\ DOMAIN s = 1..Len(s) /\ Len(s) \in Nat
  OBVIOUS
<1>2. /\ DOMAIN Append(s, x) = 1..(Len(s) + 1)
      /\ \A i \in 1..Len(s) : Append(s, x)[i] = s[i]
      /\ Append(s, x)[Len(s) + 1] = x
  BY <1>1
<1>3. ToSet(Append(s, x)) \subseteq ToSet(s) \cup {x}
  <2> SUFFICES ASSUME NEW i \in DOMAIN Append(s, x) PROVE Append(s, x)[i] \in ToSet(s) \cup {x}
    BY DEF ToSet
  <2>1. i \in 1..Len(s) \/ i = Len(s) + 1
    BY <1>1, <1>2
  <2> QED
    BY <1>1, <1>2, <2>1 DEF ToSet
<1>4. ToSet(s) \cup {x} \subseteq ToSet(Append(s, x))
  BY <1>1, <1>2 DEF ToSet
<1> QED
  BY <1>1, <1>2, <1>3, <1>4

\* Every parent that survives has its survivor among the resolved parents, the first one in
\* front; and nothing else is there.
LEMMA ResolveFacts ==
    ASSUME NEW S, NEW parents \in Seq(S),
           \A i \in DOMAIN parents : Resolve(parents[i]) \in S \cup {None}
    PROVE  /\ ResolveParents(parents) \in Seq(S)
           /\ ToSet(ResolveParents(parents)) = {Resolve(p) : p \in ToSet(parents)} \ {None}
           /\ Len(ResolveParents(parents)) <= Len(parents)
           /\ Len(parents) >= 1 /\ Resolve(parents[1]) # None =>
                /\ Len(ResolveParents(parents)) >= 1
                /\ ResolveParents(parents)[1] = Resolve(parents[1])
<1> DEFINE L == Len(parents)
<1>1. L \in Nat /\ DOMAIN parents = 1..L
  OBVIOUS
<1>2. PICK f : IsOut(parents, f) /\ ResolveParents(parents) = f[L]
  BY <1>1, ResolvedIsOut
<1>3. \A n \in 0..L : f[n] = Goes(parents, f, n)
  BY <1>2 DEF IsOut
<1> DEFINE Good(n) ==
             /\ f[n] \in Seq(S)
             /\ ToSet(f[n]) = {Resolve(parents[i]) : i \in 1..n} \ {None}
             /\ Len(f[n]) <= n
             /\ n >= 1 /\ Resolve(parents[1]) # None =>
                  Len(f[n]) >= 1 /\ f[n][1] = Resolve(parents[1])
           T == {n \in Nat : n <= L => Good(n)}
<1>4. 0 \in T
  <2>1. f[0] = <<>>
    BY <1>1, <1>3 DEF Goes
  <2>2. ToSet(<<>>) = {}
    BY DEF ToSet
  <2>3. {Resolve(parents[i]) : i \in 1..0} = {}
    OBVIOUS
  <2>4. <<>> \in Seq(S) /\ Len(<<>>) = 0
    OBVIOUS
  <2>5. Good(0)
    BY <2>1, <2>2, <2>3, <2>4
  <2> QED
    BY <2>5
<1>5. ASSUME NEW n \in Nat, n \in T PROVE n + 1 \in T
  <2> SUFFICES ASSUME n + 1 <= L PROVE Good(n + 1)
    OBVIOUS
  <2> DEFINE x == Resolve(parents[n + 1])
             Before == {Resolve(parents[i]) : i \in 1..n}
             After == {Resolve(parents[i]) : i \in 1..(n + 1)}
  <2>1. n <= L /\ n + 1 \in 0..L /\ n + 1 # 0 /\ (n + 1) - 1 = n /\ n + 1 \in DOMAIN parents
    BY <1>1
  <2>2. Good(n)
    BY <1>5, <2>1
  <2>3. f[n + 1] = IF Drops(parents, f, n + 1) THEN f[n] ELSE Append(f[n], x)
    BY <1>3, <2>1 DEF Goes
  <2>4. After = Before \cup {x}
    <3>1. \A i : i \in 1..(n + 1) <=> i \in 1..n \/ i = n + 1
      OBVIOUS
    <3> QED
      BY <3>1
  <2>5. Drops(parents, f, n + 1) <=> x = None \/ (IsPruned(parents[n + 1]) /\ x \in ToSet(f[n]))
    BY <2>1 DEF Drops
  <2>6. x \in S \cup {None}
    BY <2>1
  <2>7. n = 0 => f[n] = <<>>
    BY <2>2
  <2>8. CASE Drops(parents, f, n + 1)
    <3>1. f[n + 1] = f[n] /\ (x = None \/ x \in ToSet(f[n]))
      BY <2>3, <2>5, <2>8
    <3>2. After \ {None} = Before \ {None}
      BY <2>2, <2>4, <3>1
    <3>3. n + 1 >= 1 /\ Resolve(parents[1]) # None =>
             Len(f[n + 1]) >= 1 /\ f[n + 1][1] = Resolve(parents[1])
      <4>1. CASE n = 0
        <5>1. f[n] = <<>> /\ ToSet(f[n]) = {}
          BY <2>7, <4>1 DEF ToSet
        <5>2. x = None
          BY <3>1, <5>1
        <5> QED
          BY <4>1, <5>2
      <4>2. CASE n # 0
        BY <2>2, <3>1, <4>2
      <4> QED
        BY <4>1, <4>2
    <3>4. Len(f[n + 1]) <= n + 1
      <4>1. Len(f[n]) \in Nat
        BY <2>2
      <4> QED
        BY <2>2, <3>1, <4>1
    <3> HIDE DEF Before, After
    <3> QED
      BY <2>2, <3>1, <3>2, <3>3, <3>4 DEF Before, After
  <2>9. CASE ~Drops(parents, f, n + 1)
    <3>1. f[n + 1] = Append(f[n], x) /\ x # None /\ x \in S
      BY <2>3, <2>5, <2>6, <2>9
    <3>2. f[n] \in Seq(S)
      BY <2>2
    <3>3. /\ ToSet(f[n + 1]) = ToSet(f[n]) \cup {x}
          /\ Len(f[n + 1]) = Len(f[n]) + 1
          /\ Len(f[n]) >= 1 => f[n + 1][1] = f[n][1]
          /\ f[n] = <<>> => f[n + 1][1] = x
          /\ f[n + 1] \in Seq(S)
      BY <3>1, <3>2, Appended
    <3>4. ToSet(f[n + 1]) = After \ {None}
      <4>1. ToSet(f[n]) = Before \ {None}
        BY <2>2
      <4> HIDE DEF Before, After, x
      <4> QED
        BY <4>1, <2>4, <3>1, <3>3
    <3>5. Len(f[n]) \in Nat
      BY <3>2
    <3>6. Len(f[n + 1]) <= n + 1 /\ Len(f[n + 1]) >= 1
      BY <2>2, <3>3, <3>5
    <3>7. Resolve(parents[1]) # None => f[n + 1][1] = Resolve(parents[1])
      <4>1. CASE n = 0
        BY <2>7, <3>3, <4>1
      <4>2. CASE n # 0
        BY <2>2, <3>3, <4>2
      <4> QED
        BY <4>1, <4>2
    <3> HIDE DEF Before, After
    <3> QED
      BY <3>3, <3>4, <3>6, <3>7 DEF After
  <2> QED
    BY <2>8, <2>9
<1>6. Nat \subseteq T
  <2> HIDE DEF T
  <2> QED
    BY <1>4, <1>5, Induct
<1>7. Good(L)
  <2>1. L \in T
    <3> HIDE DEF T
    <3> QED
      BY <1>1, <1>6
  <2> HIDE DEF Good
  <2> QED
    BY <1>1, <2>1
<1>8. {Resolve(parents[i]) : i \in 1..L} = {Resolve(p) : p \in ToSet(parents)}
  BY <1>1 DEF ToSet
<1> QED
  BY <1>1, <1>2, <1>7, <1>8

-----------------------------------------------------------------------------
(* The invariant.                                                             *)

Commits == DOMAIN repo.parents
Written(c) == Record("commit", repo.name[c], c)
Bare(c) == Record("bare", repo.name[c], c)
Done == Record("done", None, None)
Old == Below(repo.parents)
New == Below(ParentsMade)

Rewriting == [repo |-> repo, filter |-> filter] \in Rewrites

\* What has been read stands before what has not.
Ordered == \A a \in Stream(repo) \ todo, b \in todo : Place(a) <= Place(b)

\* The commits that were read are those that are made or pruned, parents first.
ReadInOrder ==
    /\ \A c \in Commits : c \in Read <=> Written(c) \notin todo
    /\ \A c \in DOMAIN made : ToSet(made[c].parents) \subseteq 1..(c - 1)

\* fast-import has no parent to supply to a root.
Forgotten ==
    \A c \in Commits :
        repo.parents[c] = <<>> /\ Written(c) \in todo /\ Bare(c) \notin todo
            => latest[repo.name[c]] = None

\* A commit's survivor has at or below it all that survives of the commit and its ancestors.
SurvivorStands ==
    \A c \in Read :
        ({c} \cup Old[c]) \cap DOMAIN made =
            IF Survivor(c) = None THEN {} ELSE {Survivor(c)} \cup New[Survivor(c)]

\* A branch is at the survivor of one of its commits, the last or one with a child of the
\* same name still to come.
Trails(r, d) ==
    /\ repo.name[d] = r /\ Survivor(d) = tips[r]
    /\ \/ d \in Tips(repo)
       \/ \E e \in Commits \ Read : d \in ToSet(repo.parents[e]) /\ repo.name[e] = r
BranchTips ==
    /\ \A r \in Refs \ DOMAIN repo.resets : tips[r] # None => \E d \in Read : Trails(r, d)
    /\ \A c \in DOMAIN made : tips[repo.name[c]] # None

\* The other refs and the tags are where their records put them.
Placed(kind, map) ==
    \A r \in DOMAIN map :
        /\ tips[r] # None => tips[r] = map[r] /\ map[r] \in DOMAIN made
        /\ Record(kind, r, map[r]) \notin todo /\ import # "died" => tips[r] # None
OtherTips ==
    /\ Placed("reset", repo.resets) /\ Placed("tag", repo.tags)
    /\ \A r \in Tags \ DOMAIN repo.tags : tips[r] = None

\* No ref moves before the end of the stream.
Unmoved == Done \in todo => import # "done" /\ \A r \in Named : ~refs[r].new

StreamInv == TypeOK /\ Ordered /\ ReadInOrder /\ Forgotten
WriteInv == SurvivorStands /\ TreesAreFiltered
TipInv == BranchTips /\ OtherTips /\ Unmoved /\ RefsFollow
RewriteInv == StreamInv /\ WriteInv /\ TipInv

-----------------------------------------------------------------------------
(* What is rewritten.                                                         *)

LEMMA RepoFacts ==
    ASSUME Rewriting
    PROVE  /\ Len(repo.parents) \in Nat /\ Commits = 1..Len(repo.parents)
           /\ \A c \in Commits :
                /\ repo.parents[c] \in Seq(Commits)
                /\ ToSet(repo.parents[c]) \subseteq 1..(c - 1)
                /\ ToSet(repo.parents[c]) \subseteq Commits
           /\ repo.tree \in [Commits -> Tree] /\ repo.name \in [Commits -> Refs]
           /\ \A c \in Commits \ Tips(repo) :
                \E d \in Commits : c \in ToSet(repo.parents[d]) /\ repo.name[d] = repo.name[c]
           /\ DOMAIN repo.resets \subseteq Refs
           /\ \A c \in Commits : repo.name[c] \notin DOMAIN repo.resets
           /\ \A r \in DOMAIN repo.resets : repo.resets[r] \in Commits
           /\ DOMAIN repo.tags \subseteq Tags
           /\ \A r \in DOMAIN repo.tags : repo.tags[r] \in Commits
           /\ filter.kept \subseteq Paths /\ filter.redact \in [Contents -> Contents]
<1>1. IsHistory(repo) /\ filter \in [kept : SUBSET Paths, redact : [Contents -> Contents]]
  BY FilterRepoAssumption DEF Rewriting
<1>2. repo.parents \in Seq(Seq(Commits))
  BY <1>1 DEF IsHistory, Commits
<1>3. Len(repo.parents) \in Nat /\ Commits = 1..Len(repo.parents)
  BY <1>2 DEF Commits
<1>4. ASSUME NEW c \in Commits
      PROVE  /\ repo.parents[c] \in Seq(Commits)
             /\ ToSet(repo.parents[c]) \subseteq 1..(c - 1)
             /\ ToSet(repo.parents[c]) \subseteq Commits
  <2>1. repo.parents[c] \in Seq(Commits)
    BY <1>2 DEF Commits
  <2>2. ToSet(repo.parents[c]) \subseteq 1..(c - 1)
    BY <1>1 DEF IsHistory, Commits
  <2>3. ToSet(repo.parents[c]) \subseteq Commits
    BY <2>1 DEF ToSet
  <2> QED
    BY <2>1, <2>2, <2>3
<1>5. repo.tree \in [Commits -> Tree] /\ repo.name \in [Commits -> Refs]
  BY <1>1 DEF IsHistory, Commits
<1>6. \A c \in Commits \ Tips(repo) :
         \E d \in Commits : c \in ToSet(repo.parents[d]) /\ repo.name[d] = repo.name[c]
  BY <1>1 DEF IsHistory, Commits
<1>7. /\ DOMAIN repo.resets \subseteq Refs
      /\ \A c \in Commits : repo.name[c] \notin DOMAIN repo.resets
  BY <1>1 DEF IsHistory, Commits
<1>8. \A r \in DOMAIN repo.resets : repo.resets[r] \in Commits
  BY <1>1 DEF IsHistory, Commits, Tips, ToSet
<1>9. DOMAIN repo.tags \subseteq Tags /\ \A r \in DOMAIN repo.tags : repo.tags[r] \in Commits
  BY <1>1 DEF IsHistory, Commits, ToSet
<1>10. filter.kept \subseteq Paths /\ filter.redact \in [Contents -> Contents]
  BY <1>1
<1> QED
  BY <1>3, <1>4, <1>5, <1>6, <1>7, <1>8, <1>9, <1>10

LEMMA OlderOld ==
    ASSUME Rewriting
    PROVE  /\ Older(repo.parents)
           /\ \A c \in Commits :
                /\ Old[c] \subseteq {d \in Commits : d < c}
                /\ Old[c] = UNION {{p} \cup Old[p] : p \in ToSet(repo.parents[c])}
<1>1. Older(repo.parents)
  <2>1. Commits \subseteq Nat
    BY RepoFacts
  <2>2. ASSUME NEW c \in Commits, NEW d \in ToSet(repo.parents[c])
        PROVE  d \in Commits /\ d < c
    <3>1. d \in Commits /\ d \in 1..(c - 1) /\ c \in Nat
      BY <2>1, RepoFacts
    <3> QED
      BY <3>1
  <2> QED
    BY <2>1, <2>2 DEF Older, Commits
<1> QED
  BY <1>1, BelowFacts DEF Old, Commits

\* A record of the stream is one of these.
LEMMA StreamFacts ==
    ASSUME NEW rec \in Stream(repo)
    PROVE  /\ rec.kind = "bare" =>
                rec.at \in Commits /\ repo.parents[rec.at] = <<>> /\ rec = Bare(rec.at)
           /\ rec.kind = "commit" => rec.at \in Commits /\ rec = Written(rec.at)
           /\ rec.kind = "reset" =>
                rec.ref \in DOMAIN repo.resets /\ rec.at = repo.resets[rec.ref]
                /\ rec = Record("reset", rec.ref, rec.at)
           /\ rec.kind = "tag" =>
                rec.ref \in DOMAIN repo.tags /\ rec.at = repo.tags[rec.ref]
                /\ rec = Record("tag", rec.ref, rec.at)
           /\ rec.kind = "done" => rec = Done
           /\ rec.kind \in {"bare", "commit", "reset", "tag", "done"}
  BY DEF Stream, Record, Commits, Bare, Written, Done

LEMMA PlaceFacts ==
    ASSUME Rewriting
    PROVE  /\ \A c \in Commits :
                /\ Written(c) \in Stream(repo) /\ Place(Written(c)) = 2 * c
                /\ Place(Bare(c)) = 2 * c - 1
                /\ repo.parents[c] = <<>> => Bare(c) \in Stream(repo)
           /\ Done \in Stream(repo)
           /\ \A rec \in Stream(repo) :
                /\ Place(rec) \in Int
                /\ rec # Done => Place(rec) < Place(Done)
                /\ rec.kind \in {"reset", "tag", "done"} =>
                     \A c \in Commits : Place(Written(c)) < Place(rec)
<1> DEFINE N == Len(repo.parents)
<1>1. N \in Nat /\ Commits = 1..N
  BY RepoFacts
<1>2. \A c \in Commits : /\ Written(c) \in Stream(repo) /\ Place(Written(c)) = 2 * c
                         /\ Place(Bare(c)) = 2 * c - 1
                         /\ repo.parents[c] = <<>> => Bare(c) \in Stream(repo)
  BY DEF Written, Bare, Stream, Record, Place, Commits
<1>3. Done \in Stream(repo) /\ Place(Done) = 2 * N + 2
  BY DEF Done, Stream, Record, Place
<1>4. ASSUME NEW rec \in Stream(repo)
      PROVE  /\ Place(rec) \in Int
             /\ rec # Done => Place(rec) < Place(Done)
             /\ rec.kind \in {"reset", "tag", "done"} =>
                  \A c \in Commits : Place(Written(c)) < Place(rec)
  <2>1. CASE rec.kind = "bare"
    <3>1. rec.at \in Commits /\ rec = Bare(rec.at)
      BY <2>1, StreamFacts
    <3>2. Place(rec) = 2 * rec.at - 1
      BY <1>2, <3>1
    <3> QED
      BY <1>1, <1>3, <2>1, <3>1, <3>2
  <2>2. CASE rec.kind = "commit"
    <3>1. rec.at \in Commits /\ rec = Written(rec.at)
      BY <2>2, StreamFacts
    <3>2. Place(rec) = 2 * rec.at
      BY <1>2, <3>1
    <3> QED
      BY <1>1, <1>3, <2>2, <3>1, <3>2
  <2>3. CASE rec.kind \in {"reset", "tag"}
    <3>1. Place(rec) = 2 * N + 1
      BY <2>3 DEF Place
    <3>2. \A c \in Commits : 2 * c < 2 * N + 1
      BY <1>1
    <3> QED
      BY <1>1, <1>2, <1>3, <2>3, <3>1, <3>2
  <2>4. CASE rec.kind = "done"
    <3>1. rec = Done
      BY <2>4, StreamFacts
    <3>2. \A c \in Commits : 2 * c < 2 * N + 2
      BY <1>1
    <3> QED
      BY <1>1, <1>2, <1>3, <3>1, <3>2
  <2> QED
    BY <2>1, <2>2, <2>3, <2>4, StreamFacts
<1> QED
  BY <1>2, <1>3, <1>4

-----------------------------------------------------------------------------
(* Steps that write no commit.                                                *)

LEMMA ReadsFacts ==
    ASSUME StreamInv, NEW kind, NEW rec \in todo, Reads(kind, rec), UNCHANGED repo
    PROVE  /\ rec \in Stream(repo) /\ rec.kind = kind /\ todo' = todo \ {rec}
           /\ result = None /\ import = "reading"
           /\ Ordered'
           /\ kind = "commit" =>
                /\ rec.at \in Commits /\ rec = Written(rec.at)
                /\ Read = 1..(rec.at - 1)
                /\ repo.parents[rec.at] = <<>> => Bare(rec.at) \notin todo
           /\ kind \in {"reset", "tag", "done"} =>
                Read = Commits /\ \A c \in Commits : Written(c) \notin todo
           /\ kind = "done" => rec = Done /\ todo' = {}
<1>1. /\ todo \subseteq Stream(repo) /\ rec \in Stream(repo) /\ rec.kind = kind /\ todo' = todo \ {rec}
      /\ result = None /\ import = "reading"
      /\ \A other \in todo : Place(rec) <= Place(other)
  BY DEF Reads, StreamInv, TypeOK
<1>2. Rewriting
  BY DEF StreamInv, TypeOK, Rewriting
<1>3. Read \subseteq Commits
  BY DEF StreamInv, TypeOK, Read, Commits
<1>4. Ordered'
  <2>1. \A a \in Stream(repo) \ todo', b \in todo' : Place(a) <= Place(b)
    BY <1>1 DEF StreamInv, Ordered
  <2> QED
    BY <2>1 DEF Ordered, Place
<1>5. \A c \in Commits : c \in Nat
  BY <1>2, RepoFacts
<1>6. ASSUME kind = "commit"
      PROVE  /\ rec.at \in Commits /\ rec = Written(rec.at)
             /\ Read = 1..(rec.at - 1)
             /\ repo.parents[rec.at] = <<>> => Bare(rec.at) \notin todo
  <2> DEFINE c == rec.at
  <2>1. c \in Commits /\ rec = Written(c) /\ c \in Nat
    BY <1>1, <1>5, <1>6, StreamFacts
  <2>2. Place(rec) = 2 * c
    BY <1>2, <2>1, PlaceFacts
  <2>3. ASSUME NEW d \in Commits PROVE d \in Read <=> d < c
    <3>1. Written(d) \in Stream(repo) /\ Place(Written(d)) = 2 * d /\ d \in Nat
      BY <1>2, <1>5, PlaceFacts
    <3>2. CASE d < c
      <4>1. ~(2 * c <= 2 * d)
        BY ONLY <2>1, <3>1, <3>2
      <4>2. Written(d) \notin todo
        BY <1>1, <2>2, <3>1, <4>1
      <4> QED
        BY <3>2, <4>2 DEF StreamInv, ReadInOrder
    <3>3. CASE ~(d < c)
      <4>1. Written(d) \in todo
        <5>1. CASE d = c
          BY <2>1, <5>1
        <5>2. CASE d # c
          <6>1. ~(2 * d <= 2 * c)
            BY ONLY <2>1, <3>1, <3>3, <5>2
          <6> QED
            BY <2>2, <3>1, <6>1 DEF StreamInv, Ordered
        <5> QED
          BY <5>1, <5>2
      <4> QED
        BY <3>3, <4>1 DEF StreamInv, ReadInOrder
    <3> QED
      BY <3>2, <3>3
  <2>4. Read = 1..(c - 1)
    <3>1. Commits = 1..Len(repo.parents) /\ Len(repo.parents) \in Nat
      BY <1>2, RepoFacts
    <3>2. Read = {d \in Commits : d < c}
      BY <1>3, <2>3
    <3>3. {d \in 1..Len(repo.parents) : d < c} = 1..(c - 1)
      BY <2>1, <3>1
    <3> QED
      BY <3>1, <3>2, <3>3
  <2>5. repo.parents[c] = <<>> => Bare(c) \notin todo
    <3>1. Place(Bare(c)) = 2 * c - 1
      BY <1>2, <2>1, PlaceFacts
    <3>2. ~(2 * c <= 2 * c - 1)
      BY ONLY <2>1
    <3> QED
      BY <1>1, <2>2, <3>1, <3>2
  <2> QED
    BY <2>1, <2>4, <2>5
<1>7. ASSUME kind \in {"reset", "tag", "done"}
      PROVE  Read = Commits /\ \A c \in Commits : Written(c) \notin todo
  <2>1. ASSUME NEW c \in Commits PROVE Written(c) \notin todo
    <3>1. Place(Written(c)) < Place(rec) /\ Place(rec) \in Int
      BY <1>1, <1>2, <1>7, PlaceFacts
    <3>2. Place(Written(c)) = 2 * c /\ c \in Nat
      BY <1>2, <1>5, PlaceFacts
    <3>3. ~(Place(rec) <= Place(Written(c)))
      BY ONLY <3>1, <3>2
    <3> QED
      BY <1>1, <3>3
  <2> QED
    BY <1>3, <2>1 DEF StreamInv, ReadInOrder
<1>8. ASSUME kind = "done" PROVE rec = Done /\ todo' = {}
  <2>1. rec = Done
    BY <1>1, <1>8, StreamFacts
  <2>2. ASSUME NEW other \in todo, other # Done PROVE FALSE
    <3>1. Place(other) < Place(Done) /\ Place(other) \in Int /\ Place(Done) \in Int
      BY <1>1, <1>2, <2>1, <2>2, PlaceFacts
    <3>2. ~(Place(Done) <= Place(other))
      BY ONLY <3>1
    <3> QED
      BY <1>1, <2>1, <3>2
  <2> QED
    BY <1>1, <2>1, <2>2
<1> QED
  BY <1>1, <1>4, <1>6, <1>7, <1>8

LEMMA WritesNothing ==
    ASSUME WriteInv, UNCHANGED <<repo, filter, pruned, made>>
    PROVE  WriteInv'
<1>1. SurvivorStands'
  BY DEF WriteInv, SurvivorStands, Read, Survivor, Old, New, ParentsMade
<1>2. TreesAreFiltered'
  BY DEF WriteInv, TreesAreFiltered, Untouched, LosesMainline, Survivor, Filtered, Redacted
<1> QED
  BY <1>1, <1>2 DEF WriteInv

LEMMA MovesNothing ==
    ASSUME RefsFollow, UNCHANGED <<repo, pruned, made, refs>>, import' = "done" => import = "done"
    PROVE  RefsFollow'
  BY DEF RefsFollow, Read, Survivor

LEMMA BareKeeps ==
    ASSUME RewriteInv, ParseBareReset
    PROVE  RewriteInv'
<1>1. PICK rec \in todo : Reads("bare", rec) /\ latest' = [latest EXCEPT ![rec.ref] = None]
  BY DEF ParseBareReset
<1>2. UNCHANGED <<repo, filter, pruned, made, tips, import, refs, result>>
  BY DEF ParseBareReset
<1>3. StreamInv /\ WriteInv /\ TipInv /\ TypeOK /\ Rewriting
  BY DEF RewriteInv, StreamInv, TypeOK, Rewriting
<1>4. rec \in Stream(repo) /\ rec.kind = "bare" /\ todo' = todo \ {rec} /\ Ordered'
  BY <1>1, <1>2, <1>3, ReadsFacts
<1>5. rec.at \in Commits /\ rec = Bare(rec.at)
  BY <1>4, StreamFacts
<1>6. \A r \in Refs : latest'[r] = IF r = rec.ref THEN None ELSE latest[r]
  BY <1>1, <1>3 DEF TypeOK
<1>7. TypeOK'
  BY <1>1, <1>2, <1>3, <1>4 DEF TypeOK
<1>8. \A other : other.kind # "bare" => (other \in todo' <=> other \in todo)
  BY <1>4
<1>9. ReadInOrder'
  BY <1>2, <1>3, <1>8 DEF StreamInv, ReadInOrder, Read, Written, Record, Commits
<1>10. Forgotten'
  <2> SUFFICES ASSUME NEW c \in Commits, repo.parents[c] = <<>>,
                      Written(c) \in todo', Bare(c) \notin todo'
               PROVE  latest'[repo.name[c]] = None
    BY <1>2 DEF Forgotten, Commits, Written, Bare, Record
  <2>1. repo.name[c] \in Refs
    BY <1>3, RepoFacts
  <2>2. CASE Bare(c) = rec
    BY <1>6, <2>1, <2>2 DEF Bare, Record
  <2>3. CASE Bare(c) # rec
    <3>1. Bare(c) \notin todo /\ Written(c) \in todo
      BY <1>4, <2>3
    <3>2. latest[repo.name[c]] = None
      BY <1>3, <3>1 DEF StreamInv, Forgotten
    <3> QED
      BY <1>6, <2>1, <3>2
  <2> QED
    BY <2>2, <2>3
<1>11. TipInv'
  <2>1. BranchTips'
    BY <1>2, <1>3 DEF TipInv, BranchTips, Trails, Read, Survivor, Commits
  <2>2. OtherTips'
    BY <1>2, <1>3, <1>8 DEF TipInv, OtherTips, Placed, Record
  <2>3. Unmoved'
    BY <1>2, <1>3, <1>4 DEF TipInv, Unmoved
  <2>4. RefsFollow'
    BY <1>2, <1>3, MovesNothing DEF TipInv
  <2> QED
    BY <2>1, <2>2, <2>3, <2>4 DEF TipInv
<1> QED
  BY <1>2, <1>3, <1>4, <1>7, <1>9, <1>10, <1>11, WritesNothing DEF RewriteInv, StreamInv

\* A ref other than a branch of the commits, or a tag, is set to a commit that was read.
LEMMA ResetKeeps ==
    ASSUME RewriteInv, ParseReset \/ ParseTag
    PROVE  RewriteInv'
<1>1. PICK kind \in {"reset", "tag"}, rec \in todo :
         /\ Reads(kind, rec) /\ ImportReset(rec.ref, rec.at)
         /\ latest' = IF kind = "reset" THEN [latest EXCEPT ![rec.ref] = rec.at] ELSE latest
  BY DEF ParseReset, ParseTag
<1>2. UNCHANGED <<repo, filter, pruned, made, refs, result>>
  BY DEF ParseReset, ParseTag
<1>3. StreamInv /\ WriteInv /\ TipInv /\ TypeOK /\ Rewriting
  BY DEF RewriteInv, StreamInv, TypeOK, Rewriting
<1>4. /\ rec \in Stream(repo) /\ rec.kind = kind /\ todo' = todo \ {rec} /\ Ordered'
      /\ Read = Commits /\ \A c \in Commits : Written(c) \notin todo
      /\ import = "reading"
  BY <1>1, <1>2, <1>3, ReadsFacts
<1>5. /\ kind = "reset" => rec.ref \in DOMAIN repo.resets /\ rec.at = repo.resets[rec.ref]
                           /\ rec.ref \in Refs /\ rec.at \in Commits
      /\ kind = "tag" => rec.ref \in DOMAIN repo.tags /\ rec.at = repo.tags[rec.ref]
                         /\ rec.ref \in Tags /\ rec.at \in Commits
      /\ rec = Record(kind, rec.ref, rec.at) /\ rec.at \in Commits
  BY <1>3, <1>4, StreamFacts, RepoFacts
<1>6. rec.at # None
  BY <1>3, <1>5, RepoFacts, FilterRepoAssumption
<1>7. \/ rec.at \in DOMAIN made /\ tips' = [tips EXCEPT ![rec.ref] = rec.at] /\ import' = import
      \/ import' = "died" /\ tips' = tips
  BY <1>1 DEF ImportReset
<1>8. tips' \in [Named -> DOMAIN made \cup {None}] /\ import' # "done"
  BY <1>3, <1>4, <1>7 DEF TypeOK
<1>9. latest' \in [Refs -> Commits \cup {None}]
  BY <1>1, <1>3, <1>5 DEF TypeOK, Commits
<1>10. TypeOK'
  BY <1>2, <1>3, <1>4, <1>7, <1>8, <1>9 DEF TypeOK, Commits
<1>11. ReadInOrder'
  BY <1>2, <1>3, <1>4 DEF StreamInv, ReadInOrder, Read, Written, Commits
<1>12. Forgotten'
  BY <1>2, <1>4 DEF Forgotten, Written, Commits
<1>13. \A r \in Named : r # rec.ref => tips'[r] = tips[r]
  BY <1>3, <1>7 DEF TypeOK
<1>14. tips'[rec.ref] # tips[rec.ref] =>
          tips'[rec.ref] = rec.at /\ rec.at \in DOMAIN made
  BY <1>3, <1>5, <1>7 DEF TypeOK, Named
<1>15. import' # "died" => tips'[rec.ref] = rec.at
  BY <1>3, <1>5, <1>7 DEF TypeOK, Named
<1>16. \A r \in Refs : r \notin Tags
  BY FilterRepoAssumption
<1>17. DOMAIN repo.resets \subseteq Refs /\ DOMAIN repo.tags \subseteq Tags /\ Named = Refs \cup Tags
  BY <1>3, RepoFacts DEF Named
<1>18. BranchTips'
  <2>1. rec.ref \notin Refs \ DOMAIN repo.resets
    BY <1>1, <1>5, <1>16
  <2>2. \A c \in DOMAIN made : repo.name[c] \in Refs \ DOMAIN repo.resets
    BY <1>3, <1>17, RepoFacts DEF TypeOK, Commits
  <2>3. \A r \in Refs \ DOMAIN repo.resets : tips'[r] = tips[r]
    BY <1>13, <1>17, <2>1
  <2> QED
    BY <1>2, <1>3, <2>2, <2>3 DEF TipInv, BranchTips, Trails, Read, Survivor, Commits
<1>19. ASSUME NEW k \in {"reset", "tag"}, NEW map, DOMAIN map \subseteq Named, Placed(k, map),
              k = kind => rec.ref \in DOMAIN map /\ rec.at = map[rec.ref],
              k # kind => rec.ref \notin DOMAIN map
       PROVE  /\ \A r \in DOMAIN map :
                   /\ tips'[r] # None => tips'[r] = map[r] /\ map[r] \in DOMAIN made
                   /\ Record(k, r, map[r]) \notin todo' /\ import' # "died" => tips'[r] # None
  <2> SUFFICES ASSUME NEW r \in DOMAIN map
               PROVE  /\ tips'[r] # None => tips'[r] = map[r] /\ map[r] \in DOMAIN made
                      /\ Record(k, r, map[r]) \notin todo' /\ import' # "died" => tips'[r] # None
    OBVIOUS
  <2>1. CASE r = rec.ref
    BY <1>6, <1>14, <1>15, <1>19, <2>1 DEF Placed
  <2>2. CASE r # rec.ref
    <3>1. tips'[r] = tips[r]
      BY <1>13, <1>19, <2>2
    <3>2. Record(k, r, map[r]) # rec
      BY <1>5, <2>2 DEF Record
    <3> QED
      BY <1>4, <1>19, <3>1, <3>2 DEF Placed
  <2> QED
    BY <2>1, <2>2
<1>20. OtherTips'
  <2>1. /\ \A r \in DOMAIN repo.resets :
             /\ tips'[r] # None => tips'[r] = repo.resets[r] /\ repo.resets[r] \in DOMAIN made
             /\ Record("reset", r, repo.resets[r]) \notin todo' /\ import' # "died" => tips'[r] # None
    BY <1>1, <1>3, <1>5, <1>16, <1>17, <1>19 DEF TipInv, OtherTips
  <2>2. /\ \A r \in DOMAIN repo.tags :
             /\ tips'[r] # None => tips'[r] = repo.tags[r] /\ repo.tags[r] \in DOMAIN made
             /\ Record("tag", r, repo.tags[r]) \notin todo' /\ import' # "died" => tips'[r] # None
    BY <1>1, <1>3, <1>5, <1>16, <1>17, <1>19 DEF TipInv, OtherTips
  <2>3. \A r \in Tags \ DOMAIN repo.tags : tips'[r] = None
    BY <1>1, <1>3, <1>5, <1>13, <1>16, <1>17 DEF TipInv, OtherTips
  <2> QED
    BY <1>2, <2>1, <2>2, <2>3 DEF OtherTips, Placed, Record
<1>21. Unmoved'
  BY <1>2, <1>3, <1>4, <1>8 DEF TipInv, Unmoved
<1>22. RefsFollow'
  BY <1>2, <1>3, <1>8, MovesNothing DEF TipInv
<1> QED
  BY <1>2, <1>3, <1>4, <1>10, <1>11, <1>12, <1>18, <1>20, <1>21, <1>22, WritesNothing
  DEF RewriteInv, StreamInv, TipInv

-----------------------------------------------------------------------------
(* Reading a commit.                                                          *)

Changes(c) == FileChanges(repo, c)
Resolved(c) == ResolveParents(repo.parents[c])
Empties(c) == ShouldPrune(Changes(c), FilterFiles(Changes(c)), repo.parents[c], Resolved(c))

\* What it is to read commit c: all before it were read, and none after it.
Reading(c) ==
    /\ c \in Commits /\ todo' = todo \ {Written(c)} /\ Ordered'
    /\ Read = 1..(c - 1) /\ import = "reading"
    /\ UNCHANGED <<repo, filter, refs, result>>
    /\ IF Empties(c) THEN Prune(c, Resolved(c))
       ELSE Keep(c, Resolved(c), FilterFiles(Changes(c)))

LEMMA CommitIsReading ==
    ASSUME RewriteInv, ParseCommit
    PROVE  \E c \in Commits : Reading(c)
<1>1. PICK rec \in todo : Reads("commit", rec) /\ Commit(rec.at)
  BY DEF ParseCommit
<1>2. UNCHANGED <<repo, filter, refs, result>>
  BY DEF ParseCommit
<1>3. StreamInv /\ Rewriting
  BY DEF RewriteInv, StreamInv, TypeOK, Rewriting
<1> DEFINE c == rec.at
<1>4. /\ c \in Commits /\ rec = Written(c) /\ todo' = todo \ {rec} /\ Ordered'
      /\ Read = 1..(c - 1) /\ import = "reading"
      /\ repo.parents[c] = <<>> => Bare(c) \notin todo
  BY <1>1, <1>2, <1>3, ReadsFacts
<1>5. Parents(c) = repo.parents[c]
  <2>1. repo.parents[c] = <<>> => latest[repo.name[c]] = None
    BY <1>1, <1>3, <1>4 DEF StreamInv, Forgotten
  <2> QED
    BY <2>1 DEF Parents
<1> HIDE DEF c
<1>6. Reading(c)
  BY <1>1, <1>2, <1>4, <1>5 DEF Reading, Commit, Changes, Resolved, Empties, c
<1> QED
  BY <1>4, <1>6

\* The survivor that the invariant speaks of is what `resolve` answers.
LEMMA ResolvedFacts ==
    ASSUME RewriteInv, NEW c \in Commits, Read = 1..(c - 1)
    PROVE  /\ ToSet(repo.parents[c]) \subseteq Read
           /\ \A p \in Read : Survivor(p) \in DOMAIN made \cup {None}
           /\ Resolved(c) \in Seq(DOMAIN made)
           /\ ToSet(Resolved(c)) = {Survivor(p) : p \in ToSet(repo.parents[c])} \ {None}
           /\ Len(Resolved(c)) <= Len(repo.parents[c])
           /\ Len(repo.parents[c]) >= 1 /\ Survivor(repo.parents[c][1]) # None =>
                Len(Resolved(c)) >= 1 /\ Resolved(c)[1] = Survivor(repo.parents[c][1])
           /\ Len(repo.parents[c]) >= 1 => repo.parents[c][1] \in ToSet(repo.parents[c])
           /\ \A i \in DOMAIN repo.parents[c] : repo.parents[c][i] \in ToSet(repo.parents[c])
<1> DEFINE ps == repo.parents[c]
<1>1. Rewriting /\ TypeOK
  BY DEF RewriteInv, StreamInv, TypeOK, Rewriting
<1>2. ps \in Seq(Commits) /\ ToSet(ps) \subseteq Read
  BY <1>1, RepoFacts
<1>3. \A p \in Read : Survivor(p) = Resolve(p) /\ Survivor(p) \in DOMAIN made \cup {None}
  BY <1>1 DEF TypeOK, Survivor, Resolve, IsPruned, Read
<1>4. \A i \in DOMAIN ps : ps[i] \in ToSet(ps)
  BY DEF ToSet
<1>5. ps \in Seq(Read)
  <2>1. \A i \in DOMAIN ps : ps[i] \in Read
    BY <1>2, <1>4
  <2>2. ps \in Seq(Commits)
    BY <1>2
  <2> HIDE DEF ps
  <2> QED
    BY <2>1, <2>2, Narrower
<1>6. \A i \in DOMAIN ps : Resolve(ps[i]) \in Read \cup {None}
  BY <1>2, <1>3, <1>4 DEF Read
<1>7. /\ Resolved(c) \in Seq(Read)
      /\ ToSet(Resolved(c)) = {Resolve(p) : p \in ToSet(ps)} \ {None}
      /\ Len(Resolved(c)) <= Len(ps)
      /\ Len(ps) >= 1 /\ Resolve(ps[1]) # None =>
           Len(Resolved(c)) >= 1 /\ Resolved(c)[1] = Resolve(ps[1])
  BY <1>5, <1>6, ResolveFacts DEF Resolved
<1>8. Len(ps) >= 1 => 1 \in DOMAIN ps
  BY <1>2
<1>9. {Resolve(p) : p \in ToSet(ps)} = {Survivor(p) : p \in ToSet(ps)}
  BY <1>2, <1>3
<1>10. Resolved(c) \in Seq(DOMAIN made)
  <2>1. ToSet(Resolved(c)) \subseteq DOMAIN made
    BY <1>2, <1>3, <1>7, <1>9
  <2>2. \A i \in DOMAIN Resolved(c) : Resolved(c)[i] \in DOMAIN made
    BY <2>1 DEF ToSet
  <2> QED
    BY <1>7, <2>2, Narrower
<1> QED
  BY <1>2, <1>3, <1>4, <1>7, <1>8, <1>9, <1>10

\* What survives below a commit is its resolved parents and what survives below them.
LEMMA BelowResolved ==
    ASSUME RewriteInv, NEW c \in Commits, Read = 1..(c - 1)
    PROVE  Old[c] \cap DOMAIN made = UNION {{q} \cup New[q] : q \in ToSet(Resolved(c))}
<1> DEFINE ps == ToSet(repo.parents[c])
           Alive(p) == ({p} \cup Old[p]) \cap DOMAIN made
<1>1. Rewriting /\ SurvivorStands
  BY DEF RewriteInv, StreamInv, TypeOK, Rewriting, WriteInv
<1>2. Old[c] = UNION {{p} \cup Old[p] : p \in ps}
  BY <1>1, OlderOld
<1>3. Old[c] \cap DOMAIN made = UNION {Alive(p) : p \in ps}
  BY <1>2
<1>4. \A p \in ps : Alive(p) = IF Survivor(p) = None THEN {} ELSE {Survivor(p)} \cup New[Survivor(p)]
  BY <1>1, ResolvedFacts DEF SurvivorStands
<1>5. ToSet(Resolved(c)) = {Survivor(p) : p \in ps} \ {None}
  BY ResolvedFacts
<1> HIDE DEF Alive, ps
<1>6. ASSUME NEW d PROVE d \in UNION {Alive(p) : p \in ps}
                         <=> d \in UNION {{q} \cup New[q] : q \in ToSet(Resolved(c))}
  <2>1. ASSUME NEW p \in ps, d \in Alive(p)
        PROVE  \E q \in ToSet(Resolved(c)) : d \in {q} \cup New[q]
    <3>1. Survivor(p) # None /\ d \in {Survivor(p)} \cup New[Survivor(p)]
      BY <1>4, <2>1
    <3> QED
      BY <1>5, <3>1
  <2>2. ASSUME NEW q \in ToSet(Resolved(c)), d \in {q} \cup New[q]
        PROVE  \E p \in ps : d \in Alive(p)
    <3>1. PICK p \in ps : q = Survivor(p) /\ q # None
      BY <1>5
    <3> QED
      BY <1>4, <2>2, <3>1
  <2> QED
    BY <2>1, <2>2
<1> QED
  BY <1>3, <1>6

-----------------------------------------------------------------------------
(* Trees.                                                                     *)

\* The tree the changes of a commit were taken from.
OldBase(c) == Base(repo.tree, repo.parents[c])

LEMMA TreeFacts ==
    ASSUME Rewriting, NEW c \in Commits
    PROVE  /\ repo.tree[c] \in Tree /\ OldBase(c) \in Tree
           /\ Apply(Filtered(OldBase(c)), FilterFiles(Changes(c))) = Filtered(repo.tree[c])
           /\ DOMAIN FilterFiles(Changes(c)) = {} => Filtered(repo.tree[c]) = Filtered(OldBase(c))
           /\ \A t \in Tree : Filtered(t) \in Tree
<1> DEFINE base == OldBase(c)
           tree == repo.tree[c]
<1>1. tree \in Tree /\ EmptyTree \in Tree
  BY RepoFacts DEF EmptyTree, Tree
<1>2. base \in Tree
  <2>1. CASE repo.parents[c] = <<>>
    BY <1>1, <2>1 DEF OldBase, Base
  <2>2. CASE repo.parents[c] # <<>>
    <3>1. repo.parents[c] \in Seq(Commits)
      BY RepoFacts
    <3>2. Head(repo.parents[c]) \in Commits
      BY <2>2, <3>1
    <3> QED
      BY <2>2, <3>2, RepoFacts DEF OldBase, Base
  <2> QED
    BY <2>1, <2>2
<1>3. Changes(c) = [p \in {q \in Paths : tree[q] # base[q]} |-> tree[p]]
  BY DEF Changes, FileChanges, OldBase
<1> DEFINE kept == {q \in Paths : tree[q] # base[q]} \cap filter.kept
<1>4. FilterFiles(Changes(c)) = [p \in kept |-> Redacted(tree[p])]
  BY <1>3 DEF FilterFiles
<1>5. filter.kept \subseteq Paths /\ filter.redact \in [Contents -> Contents] /\ Absent \notin Contents
  BY RepoFacts, FilterRepoAssumption
<1>6. \A x \in Contents \cup {Absent} : Redacted(x) \in Contents \cup {Absent}
  BY <1>5 DEF Redacted
<1>7. \A t \in Tree : Filtered(t) \in Tree
  BY <1>6 DEF Filtered, Tree
<1>8. Apply(Filtered(base), FilterFiles(Changes(c))) = Filtered(tree)
  <2>1. \A p \in Paths :
           (IF p \in kept THEN Redacted(tree[p]) ELSE Filtered(base)[p]) = Filtered(tree)[p]
    <3> SUFFICES ASSUME NEW p \in Paths
                 PROVE  (IF p \in kept THEN Redacted(tree[p]) ELSE Filtered(base)[p]) = Filtered(tree)[p]
      OBVIOUS
    <3>1. /\ Filtered(base)[p] = IF p \in filter.kept THEN Redacted(base[p]) ELSE Absent
          /\ Filtered(tree)[p] = IF p \in filter.kept THEN Redacted(tree[p]) ELSE Absent
      BY DEF Filtered
    <3>2. p \in kept <=> p \in filter.kept /\ tree[p] # base[p]
      OBVIOUS
    <3> HIDE DEF kept, base, tree
    <3> QED
      BY <3>1, <3>2
  <2>2. Apply(Filtered(base), FilterFiles(Changes(c)))
          = [p \in Paths |-> IF p \in kept THEN Redacted(tree[p]) ELSE Filtered(base)[p]]
    BY <1>4 DEF Apply
  <2>3. Filtered(tree) = [p \in Paths |-> Filtered(tree)[p]]
    BY DEF Filtered
  <2> HIDE DEF kept, base, tree
  <2> QED
    BY <2>1, <2>2, <2>3
<1>9. ASSUME DOMAIN FilterFiles(Changes(c)) = {} PROVE Filtered(tree) = Filtered(base)
  <2>1. kept = {}
    BY <1>4, <1>9
  <2>2. \A p \in filter.kept : tree[p] = base[p]
    BY <1>5, <2>1
  <2> HIDE DEF kept, base, tree
  <2> QED
    BY <2>2 DEF Filtered
<1> QED
  BY <1>1, <1>2, <1>7, <1>8, <1>9

LEMMA AppliedIsTree ==
    ASSUME Rewriting, NEW c \in Commits, NEW base \in Tree
    PROVE  Apply(base, FilterFiles(Changes(c))) \in Tree
<1> DEFINE changes == FilterFiles(Changes(c))
<1>1. repo.tree[c] \in Tree /\ filter.redact \in [Contents -> Contents]
  BY RepoFacts
<1>2. \A x \in Contents \cup {Absent} : Redacted(x) \in Contents \cup {Absent}
  BY <1>1 DEF Redacted
<1>3. DOMAIN changes \subseteq Paths /\ \A p \in DOMAIN changes : changes[p] = Redacted(repo.tree[c][p])
  BY DEF FilterFiles, Changes, FileChanges
<1>4. \A p \in Paths :
         /\ base[p] \in Contents \cup {Absent}
         /\ p \in DOMAIN changes => changes[p] \in Contents \cup {Absent}
  BY <1>1, <1>2, <1>3 DEF Tree
<1> HIDE DEF changes
<1>5. Apply(base, changes) \in Tree
  BY <1>4 DEF Apply, Tree
<1> QED
  BY <1>5 DEF changes

LEMMA StillFiltered ==
    ASSUME UNCHANGED <<repo, filter>>,
           \A d \in DOMAIN made' : Untouched(d)' => made'[d].tree = Filtered(repo.tree[d]),
           \A d \in DOMAIN pruned' : Untouched(d)' =>
              Filtered(repo.tree[d]) =
                 IF pruned'[d] = None THEN EmptyTree ELSE Filtered(repo.tree[pruned'[d]])
    PROVE  TreesAreFiltered'
<1>1. repo' = repo /\ filter' = filter
  OBVIOUS
<1>2. \A d \in DOMAIN made' : Untouched(d)' => (made[d].tree = Filtered(repo.tree[d]))'
  BY <1>1 DEF Filtered, Redacted
<1>3. \A d \in DOMAIN pruned' : Untouched(d)' =>
         (Filtered(repo.tree[d]) =
            IF pruned[d] = None THEN EmptyTree ELSE Filtered(repo.tree[pruned[d]]))'
  BY <1>1 DEF Filtered, Redacted
<1> QED
  BY <1>2, <1>3 DEF TreesAreFiltered

LEMMA FilteredEmpty ==
    Filtered(EmptyTree) = EmptyTree
  BY DEF Filtered, EmptyTree, Redacted

\* A commit whose ancestors lost no mainline is filtered from what its new parent holds.
LEMMA BaseFacts ==
    ASSUME RewriteInv, NEW c \in Commits, Read = 1..(c - 1), ~LosesMainline(c),
           \A p \in ToSet(repo.parents[c]) : Untouched(p)
    PROVE  Filtered(OldBase(c)) = Base(TreesMade, Resolved(c))
<1> DEFINE ps == repo.parents[c]
           rs == Resolved(c)
           p1 == ps[1]
<1>1. Rewriting /\ TypeOK /\ TreesAreFiltered /\ SurvivorStands /\ ReadInOrder
  BY DEF RewriteInv, StreamInv, TypeOK, Rewriting, WriteInv
<1>2. ps \in Seq(Commits) /\ rs \in Seq(DOMAIN made)
  BY <1>1, RepoFacts, ResolvedFacts
<1>3. CASE ps = <<>>
  <2>1. OldBase(c) = EmptyTree
    BY <1>3 DEF OldBase, Base
  <2>2. rs = <<>>
    <3>1. Len(ps) = 0 /\ Len(rs) <= Len(ps) /\ Len(rs) \in Nat
      BY <1>2, <1>3, ResolvedFacts
    <3>2. Len(rs) = 0
      BY <3>1
    <3> HIDE DEF rs
    <3> QED
      BY <1>2, <3>2
  <2> QED
    BY <2>1, <2>2, FilteredEmpty DEF Base
<1>4. CASE ps # <<>>
  <2>1. Len(ps) >= 1 /\ Head(ps) = p1 /\ Len(ps) \in Nat /\ DOMAIN ps = 1..Len(ps)
    BY <1>2, <1>4
  <2>2. p1 \in ToSet(ps) /\ p1 \in Read
    BY <2>1, ResolvedFacts
  <2>3. OldBase(c) = repo.tree[p1]
    BY <1>4, <2>1 DEF OldBase, Base
  <2>4. CASE Survivor(p1) = None
    <3>1. ToSet(rs) = {}
      <4>1. \A i \in DOMAIN ps : Survivor(ps[i]) = None
        <5>1. CASE Len(ps) > 1
          BY <2>4, <5>1 DEF LosesMainline
        <5>2. CASE ~(Len(ps) > 1)
          <6>1. DOMAIN ps = {1}
            BY <2>1, <5>2
          <6> QED
            BY <2>4, <6>1
        <5> QED
          BY <5>1, <5>2
      <4>2. \A p \in ToSet(ps) : Survivor(p) = None
        BY <4>1 DEF ToSet
      <4> QED
        BY <4>2, ResolvedFacts
    <3>2. rs = <<>>
      <4>1. DOMAIN rs = 1..Len(rs) /\ Len(rs) \in Nat
        BY <1>2
      <4>2. DOMAIN rs = {}
        BY <3>1 DEF ToSet
      <4>3. Len(rs) = 0
        BY <4>1, <4>2
      <4> HIDE DEF rs
      <4> QED
        BY <1>2, <4>3
    <3>3. p1 \in DOMAIN pruned /\ pruned[p1] = None
      <4>1. p1 \notin DOMAIN made
        <5>1. \A d \in DOMAIN made : d # None
          BY <1>1, RepoFacts, FilterRepoAssumption DEF TypeOK, Commits
        <5> QED
          BY <2>4, <5>1 DEF Survivor
      <4> QED
        BY <2>2, <2>4, <4>1 DEF Survivor, Read
    <3>4. Filtered(repo.tree[p1]) = EmptyTree
      BY <1>1, <2>2, <3>3 DEF TreesAreFiltered
    <3> QED
      BY <2>3, <3>2, <3>4 DEF Base
  <2>5. CASE Survivor(p1) # None
    <3>1. Len(rs) >= 1 /\ rs[1] = Survivor(p1)
      BY <2>1, <2>5, ResolvedFacts
    <3>2. rs # <<>> /\ Head(rs) = Survivor(p1)
      <4> HIDE DEF rs
      <4> QED
        BY <1>2, <3>1
    <3>3. Base(TreesMade, rs) = made[Survivor(p1)].tree
      <4>1. Survivor(p1) \in DOMAIN made
        BY <2>2, <2>5, ResolvedFacts
      <4> QED
        BY <3>2, <4>1 DEF Base, TreesMade
    <3>4. CASE p1 \in DOMAIN made
      <4>1. Survivor(p1) = p1
        BY <3>4 DEF Survivor
      <4> QED
        BY <1>1, <2>2, <2>3, <3>3, <3>4, <4>1 DEF TreesAreFiltered
    <3>5. CASE p1 \notin DOMAIN made
      <4> DEFINE s == Survivor(p1)
      <4>1. p1 \in DOMAIN pruned /\ s = pruned[p1] /\ s \in DOMAIN made
        BY <2>2, <2>5, <3>5, ResolvedFacts DEF Survivor, Read
      <4>2. Filtered(repo.tree[p1]) = Filtered(repo.tree[s])
        BY <1>1, <2>2, <2>5, <4>1 DEF TreesAreFiltered
      <4>3. s \in Old[p1]
        BY <1>1, <2>2, <2>5, <3>5, <4>1 DEF SurvivorStands
      <4>4. Untouched(s)
        <5>1. Old[s] \subseteq Old[p1]
          BY <1>1, <1>2, <2>2, <4>3, OlderOld, BelowTransitive DEF Old, Commits
        <5> QED
          BY <2>2, <4>3, <5>1 DEF Untouched, Old
      <4>5. made[s].tree = Filtered(repo.tree[s])
        BY <1>1, <4>1, <4>4 DEF TreesAreFiltered
      <4> QED
        BY <2>3, <3>3, <4>2, <4>5
    <3> QED
      BY <3>4, <3>5
  <2> QED
    BY <2>4, <2>5
<1> QED
  BY <1>3, <1>4

-----------------------------------------------------------------------------
(* What holds however a commit ends: the survivors of the others stay.        *)

LEMMA ReadingFacts ==
    ASSUME RewriteInv, NEW c, Reading(c)
    PROVE  /\ Rewriting /\ TypeOK /\ c \in Commits /\ c \in Nat /\ c # None
           /\ c \notin Read /\ c \notin DOMAIN made /\ c \notin DOMAIN pruned
           /\ repo.name[c] \in Refs \ DOMAIN repo.resets
           /\ Written(c) \in todo /\ Done \in todo
           /\ \A r \in Named : ~refs[r].new
           /\ \A d \in Commits : d \notin Read /\ d # c => d > c
           /\ \A d \in Commits : repo.parents[d] = <<>> /\ d > c => Bare(d) \in todo
           /\ \A d \in Read : d \in Commits /\ d < c
<1>1. Rewriting /\ TypeOK /\ c \in Commits /\ Read = 1..(c - 1)
  BY DEF RewriteInv, StreamInv, TypeOK, Rewriting, Reading
<1>2. c \in Nat /\ \A d \in Commits : d \in Nat /\ d >= 1
  BY <1>1, RepoFacts
<1>3. c \notin Read /\ c \notin DOMAIN made /\ c \notin DOMAIN pruned
  BY <1>1, <1>2 DEF Read
<1>4. Written(c) \in todo
  BY <1>1, <1>3 DEF RewriteInv, StreamInv, ReadInOrder
<1>5. Place(Written(c)) = 2 * c
  BY <1>1, PlaceFacts
<1>6. Done \in todo
  <2>1. Done.kind = "done" /\ Done \in Stream(repo) /\ Place(Done) \in Int
    BY <1>1, PlaceFacts DEF Done, Record
  <2>2. Place(Written(c)) < Place(Done)
    BY <1>1, <2>1, PlaceFacts
  <2>3. ~(Place(Done) <= Place(Written(c)))
    BY ONLY <1>2, <1>5, <2>1, <2>2
  <2> QED
    BY <1>4, <2>1, <2>3 DEF RewriteInv, StreamInv, Ordered
<1>7. \A r \in Named : ~refs[r].new
  BY <1>6 DEF RewriteInv, TipInv, Unmoved
<1>8. \A d \in Commits : d \notin Read /\ d # c => d > c
  BY <1>1, <1>2
<1>9. ASSUME NEW d \in Commits, repo.parents[d] = <<>>, d > c PROVE Bare(d) \in todo
  <2>1. Place(Bare(d)) = 2 * d - 1 /\ Bare(d) \in Stream(repo)
    BY <1>1, <1>9, PlaceFacts
  <2>2. d \in Nat
    BY <1>2
  <2>3. ~(2 * d - 1 <= 2 * c)
    BY ONLY <1>2, <1>9, <2>2
  <2> QED
    BY <1>4, <1>5, <2>1, <2>3 DEF RewriteInv, StreamInv, Ordered
<1>10. repo.name[c] \in Refs \ DOMAIN repo.resets
  BY <1>1, RepoFacts
<1>11. c # None
  BY <1>2, FilterRepoAssumption
<1>12. \A d \in Read : d \in Commits /\ d < c
  <2>1. Read \subseteq Commits
    BY <1>1 DEF TypeOK, Read, Commits
  <2> QED
    BY <1>1, <1>2, <2>1
<1> QED
  BY <1>1, <1>2, <1>3, <1>4, <1>6, <1>7, <1>8, <1>9, <1>10, <1>11, <1>12

LEMMA TouchedBefore ==
    ASSUME RewriteInv, NEW c, Reading(c), \A d \in Read : Survivor(d)' = Survivor(d)
    PROVE  /\ \A d \in Read \cup {c} : LosesMainline(d)' <=> LosesMainline(d)
           /\ \A d \in Read \cup {c} : Untouched(d)' <=> Untouched(d)
           /\ Untouched(c) => ~LosesMainline(c) /\ \A p \in ToSet(repo.parents[c]) : Untouched(p)
<1>1. Rewriting /\ UNCHANGED repo /\ Read = 1..(c - 1) /\ c \in Commits /\ c \in Nat
  BY ReadingFacts DEF Reading
<1>2. ASSUME NEW d \in Read \cup {c}
      PROVE  /\ d \in Commits /\ Old[d] \subseteq Read
             /\ \A i \in DOMAIN repo.parents[d] : repo.parents[d][i] \in Read
  <2>1. d \in Commits /\ d <= c /\ d \in Nat
    <3>1. \A e \in Commits : e \in Nat
      BY <1>1, RepoFacts
    <3> QED
      BY <1>1, <3>1, ReadingFacts
  <2>2. \A e \in Commits : e < d => e \in Read
    BY <1>1, <2>1, RepoFacts
  <2>3. Old[d] \subseteq Read
    BY <1>1, <2>1, <2>2, OlderOld
  <2>4. ToSet(repo.parents[d]) \subseteq 1..(d - 1)
    BY <1>1, <2>1, RepoFacts
  <2>5. \A p \in ToSet(repo.parents[d]) : p \in Read
    BY ONLY <1>1, <2>1, <2>4
  <2> QED
    BY <2>1, <2>3, <2>5 DEF ToSet
<1>3. ASSUME NEW d \in Read \cup {c} PROVE LosesMainline(d)' <=> LosesMainline(d)
  <2>1. \A i \in DOMAIN repo.parents[d] : Survivor(repo.parents[d][i])' = Survivor(repo.parents[d][i])
    BY <1>1, <1>2
  <2>2. Len(repo.parents[d]) > 1 => 1 \in DOMAIN repo.parents[d]
    <3>1. repo.parents[d] \in Seq(Commits)
      BY <1>1, <1>2, RepoFacts
    <3> QED
      BY <3>1
  <2> QED
    BY <1>1, <2>1, <2>2 DEF LosesMainline
<1>4. ASSUME NEW d \in Read \cup {c} PROVE Untouched(d)' <=> Untouched(d)
  <2>1. Old[d] \subseteq Read
    BY <1>2
  <2>2. \A e \in {d} \cup Old[d] : LosesMainline(e)' <=> LosesMainline(e)
    BY <1>3, <2>1
  <2> QED
    BY <1>1, <2>2 DEF Untouched, Old
<1>5. Untouched(c) => ~LosesMainline(c)
  BY DEF Untouched
<1>6. ASSUME Untouched(c), NEW p \in ToSet(repo.parents[c]) PROVE Untouched(p)
  <2>1. {p} \cup Old[p] \subseteq Old[c]
    BY <1>1, OlderOld
  <2> QED
    BY <1>6, <2>1 DEF Untouched, Old
<1> QED
  BY <1>3, <1>4, <1>5, <1>6

\* The stream after a commit was read, but for what was seen of its ref.
LEMMA ReadingKeeps ==
    ASSUME RewriteInv, NEW c, Reading(c), Read' = Read \cup {c}, import' = import,
           \A d \in DOMAIN made' : ToSet(made'[d].parents) \subseteq 1..(d - 1)
    PROVE  /\ todo' \subseteq Stream(repo)' /\ Ordered' /\ ReadInOrder' /\ Unmoved' /\ RefsFollow'
           /\ \A other : other.kind # "commit" => (other \in todo' <=> other \in todo)
<1>1. /\ Rewriting /\ TypeOK /\ UNCHANGED <<repo, filter, refs, result>>
      /\ todo' = todo \ {Written(c)} /\ Ordered' /\ import = "reading"
  BY ReadingFacts DEF Reading
<1>2. todo' \subseteq Stream(repo)'
  BY <1>1 DEF TypeOK
<1>3. \A d \in Commits : Written(d) \in todo' <=> Written(d) \in todo /\ d # c
  BY <1>1 DEF Written, Record
<1>4. \A d \in Commits : d \in Read <=> Written(d) \notin todo
  BY DEF RewriteInv, StreamInv, ReadInOrder
<1>5. \A d \in Commits : d \in Read' <=> Written(d) \notin todo'
  BY <1>3, <1>4
<1>6. ReadInOrder'
  BY <1>1, <1>5 DEF ReadInOrder, Written, Commits
<1>7. Unmoved' /\ RefsFollow'
  BY <1>1, ReadingFacts DEF Unmoved, RefsFollow, Named
<1>8. \A other : other.kind # "commit" => (other \in todo' <=> other \in todo)
  BY <1>1 DEF Written, Record
<1> QED
  BY <1>1, <1>2, <1>6, <1>7, <1>8

\* A commit that is not the last of its branch has a child there, still to be read.
LEMMA ChildToCome ==
    ASSUME RewriteInv, NEW c, Reading(c), Read' = Read \cup {c}
    PROVE  \/ c \in Tips(repo)'
           \/ \E e \in Commits' \ Read' : c \in ToSet(repo'.parents[e]) /\ repo'.name[e] = repo.name[c]
<1>1. Rewriting /\ UNCHANGED repo /\ c \in Commits /\ c \in Nat
  BY ReadingFacts DEF Reading
<1>2. ASSUME c \notin Tips(repo)
      PROVE  \E e \in Commits \ Read' : c \in ToSet(repo.parents[e]) /\ repo.name[e] = repo.name[c]
  <2>1. PICK e \in Commits : c \in ToSet(repo.parents[e]) /\ repo.name[e] = repo.name[c]
    BY <1>1, <1>2, RepoFacts
  <2>2. c \in 1..(e - 1) /\ e \in Nat
    BY <1>1, <2>1, RepoFacts
  <2>3. c < e
    BY ONLY <2>2
  <2>4. e \notin Read'
    BY <1>1, <2>2, <2>3, ReadingFacts
  <2> QED
    BY <2>1, <2>4
<1> QED
  BY <1>1, <1>2 DEF Commits

-----------------------------------------------------------------------------
(* A commit is pruned.                                                        *)

LEMMA PruneFacts ==
    ASSUME RewriteInv, NEW c, Reading(c), Empties(c)
    PROVE  /\ UNCHANGED <<latest, made, tips, import>>
           /\ DOMAIN pruned' = DOMAIN pruned \cup {c}
           /\ \A d \in DOMAIN pruned : pruned'[d] = pruned[d]
           /\ pruned'[c] \in DOMAIN made \cup {None}
           /\ ToSet(Resolved(c)) = IF pruned'[c] = None THEN {} ELSE {pruned'[c]}
           /\ Resolved(c) = <<>> <=> pruned'[c] = None
           /\ Resolved(c) # <<>> => pruned'[c] = Head(Resolved(c))
           /\ DOMAIN FilterFiles(Changes(c)) = {}
           /\ Read' = Read \cup {c}
           /\ \A d \in Read : Survivor(d)' = Survivor(d)
           /\ Survivor(c)' = pruned'[c]
<1> DEFINE rs == Resolved(c)
           s == IF rs = <<>> THEN None ELSE Head(rs)
<1>1. /\ pruned' = [d \in DOMAIN pruned \cup {c} |-> IF d # c THEN pruned[d] ELSE s]
      /\ UNCHANGED <<latest, made, tips, import>>
  BY DEF Reading, Prune
<1>2. Len(rs) < 2 /\ DOMAIN FilterFiles(Changes(c)) = {}
  BY DEF Empties, ShouldPrune
<1>3. rs \in Seq(DOMAIN made) /\ c \notin DOMAIN made /\ c \notin DOMAIN pruned /\ c \notin Read
  BY ReadingFacts, ResolvedFacts DEF Reading
<1>4. \A d \in DOMAIN made : d # None
  BY ReadingFacts, RepoFacts, FilterRepoAssumption DEF TypeOK, Commits
<1>5. ToSet(rs) = (IF rs = <<>> THEN {} ELSE {Head(rs)}) /\ (rs # <<>> => Head(rs) \in DOMAIN made)
  <2>1. CASE rs = <<>>
    <3>1. DOMAIN rs = {}
      BY <2>1
    <3> QED
      BY <2>1, <3>1 DEF ToSet
  <2>2. CASE rs # <<>>
    <3> HIDE DEF rs
    <3>1. Len(rs) \in Nat /\ DOMAIN rs = 1..Len(rs) /\ Len(rs) # 0 /\ Head(rs) = rs[1]
      BY <1>3, <2>2
    <3>2. Len(rs) = 1 /\ DOMAIN rs = {1}
      BY <1>2, <3>1
    <3>3. rs[1] \in DOMAIN made
      BY <1>3, <3>2
    <3> QED
      BY <2>2, <3>1, <3>2, <3>3 DEF ToSet
  <2> QED
    BY <2>1, <2>2
<1>6. pruned'[c] = s /\ DOMAIN pruned' = DOMAIN pruned \cup {c}
      /\ \A d \in DOMAIN pruned : pruned'[d] = pruned[d]
  BY <1>1, <1>3
<1> HIDE DEF rs
<1>7. /\ pruned'[c] \in DOMAIN made \cup {None} /\ (rs = <<>> <=> pruned'[c] = None)
      /\ rs # <<>> => pruned'[c] = Head(rs)
      /\ ToSet(rs) = IF pruned'[c] = None THEN {} ELSE {pruned'[c]}
  BY <1>4, <1>5, <1>6
<1>8. Read' = Read \cup {c}
  BY <1>1, <1>6 DEF Read
<1>9. \A d \in Read : Survivor(d)' = Survivor(d)
  BY <1>1, <1>6 DEF Read, Survivor
<1>10. Survivor(c)' = pruned'[c]
  BY <1>1, <1>3 DEF Survivor
<1> QED
  BY <1>1, <1>2, <1>6, <1>7, <1>8, <1>9, <1>10 DEF rs

LEMMA PruneStands ==
    ASSUME RewriteInv, NEW c, Reading(c), Empties(c)
    PROVE  SurvivorStands'
<1>1. Rewriting /\ SurvivorStands /\ UNCHANGED repo /\ c \in Commits /\ Read = 1..(c - 1)
  BY ReadingFacts DEF RewriteInv, WriteInv, Reading
<1>2. Old' = Old /\ New' = New /\ DOMAIN made' = DOMAIN made
  BY <1>1, PruneFacts DEF Old, New, ParentsMade
<1>3. \A d \in Read :
         ({d} \cup Old[d]) \cap DOMAIN made =
            IF Survivor(d)' = None THEN {} ELSE {Survivor(d)'} \cup New[Survivor(d)']
  BY <1>1, PruneFacts, ZenonT(40) DEF SurvivorStands
<1>4. ({c} \cup Old[c]) \cap DOMAIN made =
         IF Survivor(c)' = None THEN {} ELSE {Survivor(c)'} \cup New[Survivor(c)']
  <2>1. ({c} \cup Old[c]) \cap DOMAIN made = Old[c] \cap DOMAIN made
    BY ReadingFacts
  <2>2. Old[c] \cap DOMAIN made = UNION {{q} \cup New[q] : q \in ToSet(Resolved(c))}
    BY <1>1, BelowResolved
  <2>3. ToSet(Resolved(c)) = IF Survivor(c)' = None THEN {} ELSE {Survivor(c)'}
    BY PruneFacts
  <2> QED
    BY <2>1, <2>2, <2>3
<1>5. Read' = Read \cup {c}
  BY PruneFacts
<1>6. \A d \in Read' :
         ({d} \cup Old'[d]) \cap DOMAIN made' =
            IF Survivor(d)' = None THEN {} ELSE {Survivor(d)'} \cup New'[Survivor(d)']
  BY <1>2, <1>3, <1>4, <1>5
<1> QED
  BY <1>6 DEF SurvivorStands

LEMMA PruneFilters ==
    ASSUME RewriteInv, NEW c, Reading(c), Empties(c)
    PROVE  TreesAreFiltered'
<1>1. /\ Rewriting /\ TypeOK /\ UNCHANGED <<repo, filter>> /\ c \in Commits /\ Read = 1..(c - 1)
      /\ TreesAreFiltered /\ SurvivorStands
  BY ReadingFacts DEF RewriteInv, WriteInv, Reading
<1>2. /\ \A d \in Read \cup {c} : Untouched(d)' <=> Untouched(d)
      /\ Untouched(c) => ~LosesMainline(c) /\ \A p \in ToSet(repo.parents[c]) : Untouched(p)
  BY TouchedBefore, PruneFacts
<1>4. \A d \in DOMAIN made : Untouched(d)' => made[d].tree = Filtered(repo.tree[d])
  BY <1>1, <1>2 DEF TreesAreFiltered, Read
<1>5. ASSUME NEW d \in DOMAIN pruned, Untouched(d)'
      PROVE  Filtered(repo.tree[d]) =
                IF pruned'[d] = None THEN EmptyTree ELSE Filtered(repo.tree[pruned'[d]])
  BY <1>1, <1>2, <1>5, PruneFacts DEF TreesAreFiltered, Read
<1>6. ASSUME Untouched(c)'
      PROVE  Filtered(repo.tree[c]) =
                IF pruned'[c] = None THEN EmptyTree ELSE Filtered(repo.tree[pruned'[c]])
  <2>1. Untouched(c) /\ ~LosesMainline(c) /\ \A p \in ToSet(repo.parents[c]) : Untouched(p)
    BY <1>2, <1>6
  <2>2. Filtered(repo.tree[c]) = Filtered(OldBase(c))
    BY <1>1, PruneFacts, TreeFacts
  <2>3. Filtered(OldBase(c)) = Base(TreesMade, Resolved(c))
    BY <1>1, <2>1, BaseFacts
  <2>4. CASE pruned'[c] = None
    <3>1. Base(TreesMade, Resolved(c)) = EmptyTree
      BY <2>4, PruneFacts DEF Base
    <3> QED
      BY <2>2, <2>3, <2>4, <3>1
  <2>5. CASE pruned'[c] # None
    <3> DEFINE s == pruned'[c]
    <3>1. s \in DOMAIN made /\ Base(TreesMade, Resolved(c)) = made[s].tree /\ s \in ToSet(Resolved(c))
      BY <2>5, PruneFacts DEF Base, TreesMade
    <3>2. s \in Old[c]
      <4>1. Old[c] \cap DOMAIN made = UNION {{q} \cup New[q] : q \in ToSet(Resolved(c))}
        BY <1>1, BelowResolved
      <4> HIDE DEF s
      <4> QED
        BY <3>1, <4>1
    <3>3. Untouched(s)
      <4>1. Old[s] \subseteq Old[c]
        BY <1>1, <3>2, OlderOld, BelowTransitive DEF Old, Commits
      <4> QED
        BY <2>1, <3>2, <4>1 DEF Untouched, Old
    <3>4. made[s].tree = Filtered(repo.tree[s])
      BY <1>1, <3>1, <3>3 DEF TreesAreFiltered
    <3> QED
      BY <2>2, <2>3, <2>5, <3>1, <3>4
  <2> QED
    BY <2>4, <2>5
<1>7. \A d \in DOMAIN made' : Untouched(d)' => made'[d].tree = Filtered(repo.tree[d])
  BY <1>4, PruneFacts
<1>8. \A d \in DOMAIN pruned' : Untouched(d)' =>
         Filtered(repo.tree[d]) =
            IF pruned'[d] = None THEN EmptyTree ELSE Filtered(repo.tree[pruned'[d]])
  <2>1. \A d \in DOMAIN pruned' : d \in DOMAIN pruned \/ d = c
    <3>1. DOMAIN pruned' = DOMAIN pruned \cup {c}
      BY PruneFacts
    <3> QED
      BY ONLY <3>1
  <2> QED
    BY ONLY <1>5, <1>6, <2>1
<1> QED
  BY <1>1, <1>7, <1>8, StillFiltered

LEMMA PruneKeeps ==
    ASSUME RewriteInv, NEW c, Reading(c), Empties(c)
    PROVE  RewriteInv'
<1>1. /\ Rewriting /\ TypeOK /\ UNCHANGED <<repo, filter, refs, result, latest, made, tips, import>>
      /\ c \in Commits /\ Read = 1..(c - 1) /\ StreamInv /\ TipInv
  BY ReadingFacts, PruneFacts DEF RewriteInv, Reading
<1>2. /\ todo' \subseteq Stream(repo)' /\ Ordered' /\ ReadInOrder' /\ Unmoved' /\ RefsFollow'
      /\ \A other : other.kind # "commit" => (other \in todo' <=> other \in todo)
      /\ todo' \subseteq todo
  <2>1. \A d \in DOMAIN made' : ToSet(made'[d].parents) \subseteq 1..(d - 1)
    BY <1>1 DEF StreamInv, ReadInOrder
  <2>2. todo' \subseteq todo
    BY DEF Reading
  <2> QED
    BY <2>1, <2>2, ReadingKeeps, PruneFacts
<1>3. TypeOK'
  <2>1. /\ DOMAIN pruned' \subseteq DOMAIN repo.parents
        /\ DOMAIN made \subseteq DOMAIN repo.parents \ DOMAIN pruned'
        /\ \A d \in DOMAIN pruned' : pruned'[d] \in DOMAIN made \cup {None}
    <3>1. DOMAIN pruned' = DOMAIN pruned \cup {c} /\ c \notin DOMAIN made
      BY PruneFacts, ReadingFacts
    <3>2. \A d \in DOMAIN pruned : pruned'[d] \in DOMAIN made \cup {None}
      BY <1>1, PruneFacts DEF TypeOK
    <3>3. pruned'[c] \in DOMAIN made \cup {None}
      BY PruneFacts
    <3> QED
      BY <1>1, <3>1, <3>2, <3>3 DEF TypeOK, Commits
  <2>2. todo' \subseteq Stream(repo)'
    BY <1>2
  <2> QED
    BY <1>1, <2>1, <2>2 DEF TypeOK
<1>4. Forgotten'
  BY <1>1, <1>2 DEF StreamInv, Forgotten, Bare, Record, Written, Commits
<1>5. BranchTips'
  <2>1. \A d \in DOMAIN made' : tips'[repo'.name[d]] # None
    BY <1>1 DEF TipInv, BranchTips
  <2>2. ASSUME NEW r \in Refs \ DOMAIN repo.resets, tips[r] # None
        PROVE  \E d \in Read' : Trails(r, d)'
    <3>1. PICK d \in Read : Trails(r, d)
      BY <1>1, <2>2 DEF TipInv, BranchTips
    <3>2. d \in Read' /\ Survivor(d)' = tips'[r] /\ repo'.name[d] = r
      BY <1>1, <3>1, PruneFacts DEF Trails
    <3>3. CASE d \in Tips(repo)
      BY <1>1, <3>2, <3>3 DEF Trails
    <3>4. CASE \E e \in Commits \ Read : d \in ToSet(repo.parents[e]) /\ repo.name[e] = r
      <4>1. PICK e \in Commits \ Read : d \in ToSet(repo.parents[e]) /\ repo.name[e] = r
        BY <3>4
      <4>2. CASE e # c
        <5>1. e \in Commits' \ Read'
          <6>1. Commits' = Commits /\ Read' = Read \cup {c}
            BY <1>1, PruneFacts DEF Commits
          <6> QED
            BY <4>1, <4>2, <6>1
        <5> QED
          BY <1>1, <3>2, <4>1, <5>1 DEF Trails
      <4>3. CASE e = c
        <5>1. Survivor(d) = tips[r] /\ Survivor(d) \in ToSet(Resolved(c))
          BY <1>1, <2>2, <3>1, <4>1, <4>3, ResolvedFacts DEF Trails
        <5>2. Survivor(c)' = tips'[r]
          <6>1. tips'[r] \in IF pruned'[c] = None THEN {} ELSE {pruned'[c]}
            BY <1>1, <5>1, PruneFacts
          <6> QED
            BY <6>1, PruneFacts
        <5>3. c \in Read' /\ repo'.name[c] = r
          BY <1>1, <4>1, <4>3, PruneFacts
        <5>4. \/ c \in Tips(repo)'
              \/ \E x \in Commits' \ Read' :
                    c \in ToSet(repo'.parents[x]) /\ repo'.name[x] = repo.name[c]
          BY PruneFacts, ChildToCome
        <5> QED
          BY <1>1, <5>2, <5>3, <5>4 DEF Trails
      <4> QED
        BY <4>2, <4>3
    <3> QED
      BY <3>1, <3>3, <3>4 DEF Trails
  <2> QED
    BY <1>1, <2>1, <2>2 DEF BranchTips
<1>6. OtherTips'
  BY <1>1, <1>2 DEF TipInv, OtherTips, Placed, Record
<1> QED
  BY <1>2, <1>3, <1>4, <1>5, <1>6, PruneStands, PruneFilters
  DEF RewriteInv, StreamInv, WriteInv, TipInv

-----------------------------------------------------------------------------
(* A commit is kept.                                                          *)

LEMMA OlderMade ==
    ASSUME RewriteInv
    PROVE  /\ Older(ParentsMade) /\ DOMAIN ParentsMade = DOMAIN made
           /\ \A d \in DOMAIN made :
                /\ ParentsMade[d] = made[d].parents
                /\ ToSet(made[d].parents) \subseteq DOMAIN made
                /\ New[d] \subseteq {e \in DOMAIN made : e < d}
                /\ New[d] = UNION {{p} \cup New[p] : p \in ToSet(made[d].parents)}
<1>1. Rewriting /\ TypeOK /\ ReadInOrder
  BY DEF RewriteInv, StreamInv, TypeOK, Rewriting
<1>2. DOMAIN made \subseteq Nat
  BY <1>1, RepoFacts DEF TypeOK, Commits
<1>3. ASSUME NEW d \in DOMAIN made, NEW e \in ToSet(made[d].parents)
      PROVE  e \in DOMAIN made /\ e < d
  <2>1. made[d].parents \in Seq(DOMAIN made)
    BY <1>1 DEF TypeOK
  <2>2. e \in DOMAIN made /\ e \in 1..(d - 1) /\ d \in Nat
    BY <1>1, <1>2, <1>3, <2>1 DEF ToSet, ReadInOrder
  <2> QED
    BY <2>2
<1>4. DOMAIN ParentsMade = DOMAIN made /\ \A d \in DOMAIN made : ParentsMade[d] = made[d].parents
  BY DEF ParentsMade
<1>5. Older(ParentsMade)
  BY <1>2, <1>3, <1>4 DEF Older
<1>6. \A d \in DOMAIN made :
         /\ New[d] \subseteq {e \in DOMAIN made : e < d}
         /\ New[d] = UNION {{p} \cup New[p] : p \in ToSet(made[d].parents)}
  BY <1>4, <1>5, BelowFacts DEF New
<1> QED
  BY <1>3, <1>4, <1>5, <1>6

LEMMA KeepFacts ==
    ASSUME RewriteInv, NEW c, Reading(c), ~Empties(c)
    PROVE  /\ UNCHANGED <<pruned, import>>
           /\ DOMAIN made' = DOMAIN made \cup {c}
           /\ \A d \in DOMAIN made : made'[d] = made[d]
           /\ made'[c].parents = Resolved(c)
           /\ made'[c].tree = Apply(Base(TreesMade, Resolved(c)), FilterFiles(Changes(c)))
           /\ latest' = [latest EXCEPT ![repo.name[c]] = c]
           /\ tips' = [tips EXCEPT ![repo.name[c]] = c]
           /\ Read' = Read \cup {c}
           /\ \A d \in Read : Survivor(d)' = Survivor(d)
           /\ Survivor(c)' = c
           /\ Resolved(c) \in Seq(DOMAIN made) /\ ToSet(Resolved(c)) \subseteq DOMAIN made
           /\ \A d \in DOMAIN made' : ToSet(made'[d].parents) \subseteq 1..(d - 1)
<1> DEFINE rs == Resolved(c)
           changes == FilterFiles(Changes(c))
<1>1. /\ latest' = [latest EXCEPT ![repo.name[c]] = c]
      /\ ImportCommit(c, repo.name[c], rs, changes) /\ pruned' = pruned
  BY DEF Reading, Keep
<1>2. /\ rs \in Seq(DOMAIN made) /\ c \notin DOMAIN made /\ c \notin DOMAIN pruned /\ c \notin Read
      /\ Read = 1..(c - 1) /\ ReadInOrder
  BY ReadingFacts, ResolvedFacts DEF Reading, RewriteInv, StreamInv
<1>3. ToSet(rs) \subseteq DOMAIN made
  BY <1>2 DEF ToSet
<1>4. /\ made' = [d \in DOMAIN made \cup {c} |->
                     IF d # c THEN made[d]
                     ELSE [parents |-> rs, tree |-> Apply(Base(TreesMade, rs), changes)]]
      /\ tips' = [tips EXCEPT ![repo.name[c]] = c] /\ import' = import
  BY <1>1, <1>3 DEF ImportCommit
<1>5. /\ DOMAIN made' = DOMAIN made \cup {c} /\ \A d \in DOMAIN made : made'[d] = made[d]
      /\ made'[c] = [parents |-> rs, tree |-> Apply(Base(TreesMade, rs), changes)]
  BY <1>2, <1>4
<1>6. made'[c].parents = rs /\ made'[c].tree = Apply(Base(TreesMade, rs), changes)
  BY <1>5
<1>7. Read' = Read \cup {c}
  BY <1>1, <1>5 DEF Read
<1>8. /\ \A d \in Read : Survivor(d)' = Survivor(d)
      /\ Survivor(c)' = c
  BY <1>1, <1>2, <1>5 DEF Read, Survivor
<1>9. ASSUME NEW d \in DOMAIN made' PROVE ToSet(made'[d].parents) \subseteq 1..(d - 1)
  <2>1. CASE d = c
    BY <1>2, <1>3, <1>6, <2>1 DEF Read
  <2>2. CASE d # c
    <3>1. d \in DOMAIN made /\ made'[d] = made[d]
      BY <1>5, <2>2
    <3> QED
      BY <1>2, <3>1 DEF ReadInOrder
  <2> QED
    BY <2>1, <2>2
<1> QED
  BY <1>1, <1>2, <1>3, <1>4, <1>5, <1>6, <1>7, <1>8, <1>9

LEMMA KeepNew ==
    ASSUME RewriteInv, NEW c, Reading(c), ~Empties(c)
    PROVE  /\ New'[c] = UNION {{q} \cup New[q] : q \in ToSet(Resolved(c))}
           /\ \A d \in DOMAIN made : New'[d] = New[d]
<1> DEFINE P == [d \in DOMAIN made' |-> made'[d].parents]
           above == UNION {{q} \cup New[q] : q \in ToSet(Resolved(c))}
           g == [e \in DOMAIN P |-> IF e = c THEN above ELSE New[e]]
<1>1. /\ DOMAIN P = DOMAIN made \cup {c} /\ P[c] = Resolved(c)
      /\ \A d \in DOMAIN made : P[d] = made[d].parents
  BY KeepFacts
<1>2. c \in Nat /\ c \notin DOMAIN made /\ DOMAIN made \subseteq Nat
      /\ \A d \in DOMAIN made : d < c
  <2>1. DOMAIN made \subseteq Nat
    BY OlderMade DEF Older
  <2> QED
    BY <2>1, ReadingFacts DEF Read
<1>3. ToSet(Resolved(c)) \subseteq DOMAIN made
  BY KeepFacts
<1>4. \A d \in DOMAIN made :
         /\ ToSet(made[d].parents) \subseteq DOMAIN made
         /\ ToSet(made[d].parents) \subseteq {e \in DOMAIN made : e < d}
         /\ New[d] = UNION {{p} \cup New[p] : p \in ToSet(made[d].parents)}
  BY OlderMade DEF Older
<1> HIDE DEF P
<1>5. Older(P)
  BY <1>1, <1>2, <1>3, <1>4 DEF Older
<1>6. \A e \in DOMAIN made : g[e] = New[e]
  BY <1>1, <1>2
<1>7. g[c] = above
  BY <1>1
<1>8. \A e \in DOMAIN P : g[e] = UNION {{p} \cup g[p] : p \in ToSet(P[e])}
  <2> SUFFICES ASSUME NEW e \in DOMAIN P
               PROVE  g[e] = UNION {{p} \cup g[p] : p \in ToSet(P[e])}
    OBVIOUS
  <2> DEFINE ps == ToSet(P[e])
  <2>1. ps \subseteq DOMAIN made
    BY <1>1, <1>3, <1>4
  <2>2. {{p} \cup g[p] : p \in ps} = {{p} \cup New[p] : p \in ps}
    <3> HIDE DEF g, ps
    <3> QED
      BY <1>6, <2>1
  <2>3. g[e] = UNION {{p} \cup New[p] : p \in ps}
    <3>1. CASE e = c
      BY <1>1, <1>7, <3>1
    <3>2. CASE e # c
      BY <1>1, <1>4, <1>6, <3>2
    <3> QED
      BY <3>1, <3>2
  <2> QED
    BY <2>2, <2>3
<1>9. g = [e \in DOMAIN P |-> g[e]]
  OBVIOUS
<1>10. IsBelow(P, g)
  <2> HIDE DEF g
  <2> QED
    BY <1>8, <1>9 DEF IsBelow
<1>11. Below(P) = g
  BY <1>5, <1>10, BelowFacts
<1>12. New' = Below(P)
  BY DEF New, ParentsMade, P
<1> QED
  BY <1>6, <1>7, <1>11, <1>12

LEMMA KeepStands ==
    ASSUME RewriteInv, NEW c, Reading(c), ~Empties(c)
    PROVE  SurvivorStands'
<1>1. /\ Rewriting /\ SurvivorStands /\ UNCHANGED repo /\ c \in Commits /\ c \in Nat
      /\ Read = 1..(c - 1) /\ c \notin DOMAIN made /\ Old' = Old /\ c # None
  BY ReadingFacts DEF RewriteInv, WriteInv, Reading, Old
<1>2. DOMAIN made' = DOMAIN made \cup {c} /\ Read' = Read \cup {c}
  BY KeepFacts
<1>3. ASSUME NEW d \in Read
      PROVE  ({d} \cup Old[d]) \cap DOMAIN made' =
                IF Survivor(d)' = None THEN {} ELSE {Survivor(d)'} \cup New'[Survivor(d)']
  <2>1. c \notin {d} \cup Old[d]
    <3>1. d \in Commits /\ d < c /\ d \in Nat
      BY <1>1, ReadingFacts
    <3>2. Old[d] \subseteq {e \in Commits : e < d}
      BY <1>1, <3>1, OlderOld
    <3>3. ~(c < d) /\ c # d
      BY ONLY <1>1, <3>1
    <3> QED
      BY <3>2, <3>3
  <2>2. Survivor(d)' = Survivor(d) /\ Survivor(d) \in DOMAIN made \cup {None}
    BY <1>1, KeepFacts, ResolvedFacts
  <2>3. Survivor(d) # None => New'[Survivor(d)] = New[Survivor(d)]
    BY <2>2, KeepNew
  <2>4. ({d} \cup Old[d]) \cap DOMAIN made =
           IF Survivor(d) = None THEN {} ELSE {Survivor(d)} \cup New[Survivor(d)]
    BY <1>1 DEF SurvivorStands
  <2> QED
    BY <1>2, <2>1, <2>2, <2>3, <2>4
<1>4. ({c} \cup Old[c]) \cap DOMAIN made' =
         IF Survivor(c)' = None THEN {} ELSE {Survivor(c)'} \cup New'[Survivor(c)']
  <2>1. c \notin Old[c]
    BY <1>1, OlderOld
  <2>2. Old[c] \cap DOMAIN made = New'[c]
    BY <1>1, BelowResolved, KeepNew
  <2>3. Survivor(c)' = c
    BY KeepFacts
  <2> QED
    BY <1>1, <1>2, <2>1, <2>2, <2>3
<1>5. \A d \in Read' :
         ({d} \cup Old'[d]) \cap DOMAIN made' =
            IF Survivor(d)' = None THEN {} ELSE {Survivor(d)'} \cup New'[Survivor(d)']
  BY <1>1, <1>2, <1>3, <1>4
<1> QED
  BY <1>5 DEF SurvivorStands

LEMMA KeepFilters ==
    ASSUME RewriteInv, NEW c, Reading(c), ~Empties(c)
    PROVE  TreesAreFiltered'
<1>1. /\ Rewriting /\ TypeOK /\ UNCHANGED <<repo, filter>> /\ c \in Commits /\ Read = 1..(c - 1)
      /\ TreesAreFiltered
  BY ReadingFacts DEF RewriteInv, WriteInv, Reading
<1>2. /\ \A d \in Read \cup {c} : Untouched(d)' <=> Untouched(d)
      /\ Untouched(c) => ~LosesMainline(c) /\ \A p \in ToSet(repo.parents[c]) : Untouched(p)
  BY TouchedBefore, KeepFacts
<1>3. ASSUME NEW d \in DOMAIN made, Untouched(d)'
      PROVE  made'[d].tree = Filtered(repo.tree[d])
  BY <1>1, <1>2, <1>3, KeepFacts DEF TreesAreFiltered, Read
<1>4. ASSUME Untouched(c)' PROVE made'[c].tree = Filtered(repo.tree[c])
  <2>1. Filtered(OldBase(c)) = Base(TreesMade, Resolved(c))
    BY <1>1, <1>2, <1>4, BaseFacts
  <2> QED
    BY <1>1, <2>1, KeepFacts, TreeFacts
<1>5. \A d \in DOMAIN made' : Untouched(d)' => made'[d].tree = Filtered(repo.tree[d])
  <2>1. \A d \in DOMAIN made' : d \in DOMAIN made \/ d = c
    <3>1. DOMAIN made' = DOMAIN made \cup {c}
      BY KeepFacts
    <3> QED
      BY ONLY <3>1
  <2> QED
    BY ONLY <1>3, <1>4, <2>1
<1>6. \A d \in DOMAIN pruned' : Untouched(d)' =>
         Filtered(repo.tree[d]) =
            IF pruned'[d] = None THEN EmptyTree ELSE Filtered(repo.tree[pruned'[d]])
  BY <1>1, <1>2, KeepFacts DEF TreesAreFiltered, Read
<1> QED
  BY <1>1, <1>5, <1>6, StillFiltered

LEMMA KeepTypes ==
    ASSUME RewriteInv, NEW c, Reading(c), ~Empties(c)
    PROVE  TypeOK'
<1>1. /\ Rewriting /\ TypeOK /\ UNCHANGED <<repo, filter, refs, result, pruned, import>>
      /\ c \in Commits /\ Read = 1..(c - 1) /\ c \notin DOMAIN pruned
      /\ repo.name[c] \in Refs /\ repo.name[c] \in Named
  BY ReadingFacts, KeepFacts DEF RewriteInv, Reading, Named
<1>2. /\ DOMAIN made' = DOMAIN made \cup {c} /\ \A d \in DOMAIN made : made'[d] = made[d]
      /\ made'[c].parents = Resolved(c) /\ Resolved(c) \in Seq(DOMAIN made)
      /\ made'[c].tree = Apply(Base(TreesMade, Resolved(c)), FilterFiles(Changes(c)))
  BY KeepFacts
<1>3. todo' \subseteq Stream(repo)'
  BY ReadingKeeps, KeepFacts
<1>4. latest' \in [Refs -> Commits \cup {None}]
  <2>1. latest' = [latest EXCEPT ![repo.name[c]] = c]
    BY KeepFacts
  <2> QED
    BY <1>1, <2>1 DEF TypeOK, Commits
<1>5. tips' \in [Named -> DOMAIN made' \cup {None}]
  <2>1. tips' = [tips EXCEPT ![repo.name[c]] = c]
    BY KeepFacts
  <2>2. tips \in [Named -> DOMAIN made \cup {None}]
    BY <1>1 DEF TypeOK
  <2> QED
    BY <1>1, <1>2, <2>1, <2>2
<1>6. Base(TreesMade, Resolved(c)) \in Tree
  <2>1. CASE Resolved(c) = <<>>
    BY <2>1 DEF Base, EmptyTree, Tree
  <2>2. CASE Resolved(c) # <<>>
    <3>1. Head(Resolved(c)) \in DOMAIN made
      BY <1>2, <2>2
    <3> QED
      BY <1>1, <2>2, <3>1 DEF Base, TreesMade, TypeOK
  <2> QED
    BY <2>1, <2>2
<1>7. made'[c].tree \in Tree
  BY <1>1, <1>2, <1>6, AppliedIsTree
<1>8. \A d \in DOMAIN made' : made'[d].tree \in Tree /\ made'[d].parents \in Seq(DOMAIN made')
  <2>1. Resolved(c) \in Seq(DOMAIN made')
    <3>1. \A i \in DOMAIN Resolved(c) : Resolved(c)[i] \in DOMAIN made'
      BY <1>2
    <3> QED
      BY <1>2, <3>1, Narrower
  <2>2. ASSUME NEW d \in DOMAIN made
        PROVE  made'[d].tree \in Tree /\ made'[d].parents \in Seq(DOMAIN made')
    <3>1. made[d].tree \in Tree /\ made[d].parents \in Seq(DOMAIN made) /\ made'[d] = made[d]
      BY <1>1, <1>2 DEF TypeOK
    <3>2. \A i \in DOMAIN made[d].parents : made[d].parents[i] \in DOMAIN made'
      BY <1>2, <3>1
    <3>3. made[d].parents \in Seq(DOMAIN made')
      BY <3>1, <3>2, Narrower
    <3> QED
      BY <3>1, <3>3
  <2> QED
    BY <1>2, <1>7, <2>1, <2>2
<1>9. /\ DOMAIN pruned' \subseteq DOMAIN repo'.parents
      /\ DOMAIN made' \subseteq DOMAIN repo'.parents \ DOMAIN pruned'
      /\ \A d \in DOMAIN pruned' : pruned'[d] \in DOMAIN made' \cup {None}
  BY <1>1, <1>2 DEF TypeOK, Commits
<1> QED
  BY <1>1, <1>3, <1>4, <1>5, <1>8, <1>9 DEF TypeOK, Commits

LEMMA KeepKeeps ==
    ASSUME RewriteInv, NEW c, Reading(c), ~Empties(c)
    PROVE  RewriteInv'
<1> DEFINE name == repo.name[c]
<1>1. /\ Rewriting /\ TypeOK /\ UNCHANGED <<repo, filter, refs, result, pruned, import>>
      /\ c \in Commits /\ Read = 1..(c - 1) /\ StreamInv /\ TipInv /\ c # None
      /\ name \in Refs \ DOMAIN repo.resets
  BY ReadingFacts, KeepFacts DEF RewriteInv, Reading
<1>2. /\ todo' \subseteq Stream(repo)' /\ Ordered' /\ ReadInOrder' /\ Unmoved' /\ RefsFollow'
      /\ \A other : other.kind # "commit" => (other \in todo' <=> other \in todo)
      /\ todo' \subseteq todo
  <2>1. todo' \subseteq todo
    BY DEF Reading
  <2> QED
    BY <2>1, ReadingKeeps, KeepFacts
<1>3. Forgotten'
  <2> SUFFICES ASSUME NEW d \in Commits, repo.parents[d] = <<>>,
                      Written(d) \in todo', Bare(d) \notin todo'
               PROVE  FALSE
    BY <1>1 DEF Forgotten, Commits, Written, Bare, Record
  <2>1. Written(d) \in todo /\ d # c
    BY <1>1, <1>2 DEF Reading
  <2>2. d \notin Read
    BY <1>1, <2>1 DEF StreamInv, ReadInOrder
  <2>3. Bare(d) \in todo
    BY <2>1, <2>2, ReadingFacts
  <2> QED
    BY <1>2, <2>3 DEF Bare, Record
<1>4. /\ tips'[name] = c
      /\ \A r \in Named : r # name => tips'[r] = tips[r]
  <2>1. tips' = [tips EXCEPT ![name] = c]
    BY KeepFacts
  <2> QED
    BY <1>1, <2>1 DEF TypeOK, Named
<1>5. BranchTips'
  <2>1. \A d \in DOMAIN made' : tips'[repo'.name[d]] # None
    <3>1. ASSUME NEW d \in DOMAIN made PROVE tips'[repo.name[d]] # None
      <4>1. repo.name[d] \in Named /\ tips[repo.name[d]] # None
        BY <1>1, RepoFacts DEF TypeOK, TipInv, BranchTips, Commits, Named
      <4> QED
        BY <1>1, <1>4, <4>1
    <3>2. DOMAIN made' = DOMAIN made \cup {c}
      BY KeepFacts
    <3> QED
      BY <1>1, <1>4, <3>1, <3>2
  <2>2. ASSUME NEW r \in Refs \ DOMAIN repo.resets, tips'[r] # None
        PROVE  \E d \in Read' : Trails(r, d)'
    <3>1. CASE r = name
      <4>1. c \in Read' /\ Survivor(c)' = tips'[r] /\ repo'.name[c] = r
        BY <1>1, <1>4, <3>1, KeepFacts
      <4>2. \/ c \in Tips(repo)'
            \/ \E x \in Commits' \ Read' :
                  c \in ToSet(repo'.parents[x]) /\ repo'.name[x] = repo.name[c]
        BY KeepFacts, ChildToCome
      <4> QED
        BY <1>1, <4>1, <4>2 DEF Trails
    <3>2. CASE r # name
      <4>1. tips'[r] = tips[r]
        BY <1>4, <3>2 DEF Named
      <4>2. PICK d \in Read : Trails(r, d)
        BY <1>1, <2>2, <4>1 DEF TipInv, BranchTips
      <4>3. d \in Read' /\ Survivor(d)' = tips'[r] /\ repo'.name[d] = r
        BY <1>1, <4>1, <4>2, KeepFacts DEF Trails
      <4>4. CASE d \in Tips(repo)
        BY <1>1, <4>3, <4>4 DEF Trails
      <4>5. CASE \E e \in Commits \ Read : d \in ToSet(repo.parents[e]) /\ repo.name[e] = r
        <5>1. PICK e \in Commits \ Read : d \in ToSet(repo.parents[e]) /\ repo.name[e] = r
          BY <4>5
        <5>2. Commits' = Commits /\ Read' = Read \cup {c}
          BY <1>1, KeepFacts DEF Commits
        <5>3. e \in Commits' \ Read'
          BY <3>2, <5>1, <5>2
        <5> QED
          BY <1>1, <4>3, <5>1, <5>3 DEF Trails
      <4> QED
        BY <4>2, <4>4, <4>5 DEF Trails
    <3> QED
      BY <3>1, <3>2
  <2> QED
    BY <1>1, <2>1, <2>2 DEF BranchTips
<1>6. OtherTips'
  <2>1. DOMAIN repo.resets \subseteq Named \ {name} /\ Tags \subseteq Named \ {name}
        /\ DOMAIN repo.tags \subseteq Tags
    BY <1>1, RepoFacts, FilterRepoAssumption DEF Named
  <2>2. DOMAIN made \subseteq DOMAIN made'
    BY KeepFacts
  <2>3. /\ \A r \in DOMAIN repo.resets : tips'[r] = tips[r]
        /\ \A r \in Tags : tips'[r] = tips[r]
    BY <1>4, <2>1
  <2>4. Placed("reset", repo.resets)'
    BY <1>1, <1>2, <2>2, <2>3 DEF TipInv, OtherTips, Placed, Record
  <2>5. Placed("tag", repo.tags)'
    BY <1>1, <1>2, <2>1, <2>2, <2>3 DEF TipInv, OtherTips, Placed, Record
  <2> QED
    BY <1>1, <2>3, <2>4, <2>5 DEF TipInv, OtherTips
<1> QED
  BY <1>2, <1>3, <1>5, <1>6, KeepTypes, KeepStands, KeepFilters
  DEF RewriteInv, StreamInv, WriteInv, TipInv

LEMMA CommitKeeps ==
    ASSUME RewriteInv, ParseCommit
    PROVE  RewriteInv'
<1>1. PICK c \in Commits : Reading(c)
  BY CommitIsReading
<1>2. CASE Empties(c)
  BY <1>1, <1>2, PruneKeeps
<1>3. CASE ~Empties(c)
  BY <1>1, <1>3, KeepKeeps
<1> QED
  BY <1>2, <1>3

-----------------------------------------------------------------------------
(* The end of the stream, and what comes after it.                            *)

LEMMA HomeFacts ==
    ASSUME Rewriting
    PROVE  /\ \A r \in Named : Home(repo)[r] \in Commits \cup {None}
           /\ \A r \in DOMAIN repo.resets : Home(repo)[r] = repo.resets[r]
           /\ \A r \in DOMAIN repo.tags : Home(repo)[r] = repo.tags[r]
           /\ \A r \in Tags \ DOMAIN repo.tags : Home(repo)[r] = None
           /\ \A r \in Refs \ DOMAIN repo.resets :
                /\ \A d \in Tips(repo) : repo.name[d] = r => Home(repo)[r] = d
                /\ Home(repo)[r] # None => repo.name[Home(repo)[r]] = r
<1> DEFINE resets == repo.resets
           tags == repo.tags
           IsLast(r, d) == d \in Tips(repo) /\ repo.name[d] = r
<1>1. /\ DOMAIN resets \subseteq Refs /\ DOMAIN tags \subseteq Tags
      /\ \A r \in Refs : r \notin Tags
      /\ \A r \in DOMAIN resets : resets[r] \in Commits
      /\ \A r \in DOMAIN tags : tags[r] \in Commits
  BY RepoFacts, FilterRepoAssumption
<1>2. Tips(repo) \subseteq Commits /\ \A d \in Tips(repo) : repo.name[d] \in Refs /\ d \in Nat
  BY RepoFacts DEF Tips, Commits
<1>3. \A d, e \in Tips(repo) : repo.name[d] = repo.name[e] => d = e
  <2> SUFFICES ASSUME NEW d \in Tips(repo), NEW e \in Tips(repo), repo.name[d] = repo.name[e]
               PROVE  d = e
    OBVIOUS
  <2>1. d <= e /\ e <= d
    BY <1>2 DEF Tips, Commits
  <2> QED
    BY ONLY <1>2, <2>1
<1>4. ASSUME NEW r \in Named
      PROVE  Home(repo)[r] =
                CASE r \in DOMAIN resets -> resets[r]
                  [] r \in DOMAIN tags -> tags[r]
                  [] \E d \in Tips(repo) : repo.name[d] = r ->
                       CHOOSE d \in Tips(repo) : repo.name[d] = r
                  [] OTHER -> None
  BY DEF Home
<1>5. ASSUME NEW r \in Refs \ DOMAIN resets
      PROVE  /\ r \in Named
             /\ \A d \in Tips(repo) : repo.name[d] = r => Home(repo)[r] = d
             /\ (\A d \in Tips(repo) : repo.name[d] # r) => Home(repo)[r] = None
  <2>1. r \in Named /\ r \notin DOMAIN tags /\ r \notin DOMAIN resets
    BY <1>1 DEF Named
  <2>2. ASSUME NEW d \in Tips(repo), repo.name[d] = r PROVE Home(repo)[r] = d
    <3>1. Home(repo)[r] = CHOOSE e \in Tips(repo) : repo.name[e] = r
      BY <1>4, <2>1, <2>2
    <3>2. IsLast(r, CHOOSE e \in Tips(repo) : repo.name[e] = r)
      BY <2>2
    <3> QED
      BY <1>3, <2>2, <3>1, <3>2
  <2>3. ASSUME \A d \in Tips(repo) : repo.name[d] # r PROVE Home(repo)[r] = None
    BY <1>4, <2>1, <2>3
  <2> QED
    BY <2>1, <2>2, <2>3
<1>6. ASSUME NEW r \in DOMAIN resets PROVE Home(repo)[r] = resets[r]
  <2>1. r \in Named
    BY <1>1 DEF Named
  <2>2. \A d \in DOMAIN tags : d # r
    BY <1>1
  <2>3. ~ \E d \in Tips(repo) : repo.name[d] = r
    BY RepoFacts DEF Tips, Commits
  <2> HIDE DEF resets, tags
  <2> QED
    BY <1>4, <1>6, <2>1, <2>2, <2>3
<1>7. ASSUME NEW r \in DOMAIN tags PROVE Home(repo)[r] = tags[r]
  <2>1. r \in Named
    BY <1>1 DEF Named
  <2>2. r \notin DOMAIN resets
    BY <1>1
  <2>3. ~ \E d \in Tips(repo) : repo.name[d] = r
    BY <1>1, <1>2
  <2> HIDE DEF resets, tags
  <2> QED
    BY <1>4, <1>7, <2>1, <2>2, <2>3
<1>8. ASSUME NEW r \in Tags \ DOMAIN tags PROVE Home(repo)[r] = None
  <2>1. r \in Named /\ r \notin DOMAIN resets /\ \A d \in Tips(repo) : repo.name[d] # r
    BY <1>1, <1>2 DEF Named
  <2> QED
    BY <1>4, <1>8, <2>1
<1>9. ASSUME NEW r \in Refs \ DOMAIN resets
      PROVE  /\ Home(repo)[r] \in Commits \cup {None}
             /\ Home(repo)[r] # None => repo.name[Home(repo)[r]] = r
  <2>1. CASE \E d \in Tips(repo) : repo.name[d] = r
    BY <1>2, <1>5, <2>1
  <2>2. CASE \A d \in Tips(repo) : repo.name[d] # r
    BY <1>5, <2>2
  <2> QED
    BY <2>1, <2>2
<1>10. \A r \in Named : Home(repo)[r] \in Commits \cup {None}
  <2>1. Named = (Refs \ DOMAIN resets) \cup DOMAIN resets \cup DOMAIN tags \cup (Tags \ DOMAIN tags)
    BY <1>1 DEF Named
  <2> QED
    BY <1>1, <1>6, <1>7, <1>8, <1>9, <2>1
<1> QED
  BY <1>5, <1>6, <1>7, <1>8, <1>9, <1>10

\* When fast-import reads `done`, each ref it moves is at what survives of the commit that the
\* ref named, and it moves each ref whose commit survives.
LEMMA TipsFollow ==
    ASSUME RewriteInv, import # "died", todo \subseteq {Done}, Read = Commits
    PROVE  \A r \in Named :
              /\ tips[r] # None => Home(repo)[r] \in Read /\ tips[r] = Survivor(Home(repo)[r])
              /\ Home(repo)[r] \in DOMAIN made => tips[r] # None
<1>1. Rewriting /\ TypeOK /\ BranchTips /\ OtherTips
  BY DEF RewriteInv, StreamInv, TypeOK, Rewriting, TipInv
<1>2. None \notin DOMAIN made /\ DOMAIN made \subseteq Read
  BY <1>1, RepoFacts, FilterRepoAssumption DEF TypeOK, Commits, Read
<1>3. ASSUME NEW r \in DOMAIN repo.resets
      PROVE  tips[r] = repo.resets[r] /\ repo.resets[r] \in DOMAIN made /\ tips[r] # None
  <2>1. Record("reset", r, repo.resets[r]) \notin todo
    BY DEF Done, Record
  <2> QED
    BY <1>1, <2>1 DEF OtherTips, Placed
<1>4. ASSUME NEW r \in DOMAIN repo.tags
      PROVE  tips[r] = repo.tags[r] /\ repo.tags[r] \in DOMAIN made /\ tips[r] # None
  <2>1. Record("tag", r, repo.tags[r]) \notin todo
    BY DEF Done, Record
  <2> QED
    BY <1>1, <2>1 DEF OtherTips, Placed
<1>5. ASSUME NEW r \in Refs \ DOMAIN repo.resets
      PROVE  /\ tips[r] # None => Home(repo)[r] \in Read /\ tips[r] = Survivor(Home(repo)[r])
             /\ Home(repo)[r] \in DOMAIN made => tips[r] # None
  <2>1. ASSUME tips[r] # None
        PROVE  Home(repo)[r] \in Read /\ tips[r] = Survivor(Home(repo)[r])
    <3>1. PICK d \in Read : Trails(r, d)
      BY <1>1, <2>1 DEF BranchTips
    <3>2. d \in Tips(repo) /\ repo.name[d] = r /\ Survivor(d) = tips[r]
      BY <3>1 DEF Trails
    <3>3. Home(repo)[r] = d
      BY <1>1, <3>2, HomeFacts
    <3> QED
      BY <3>1, <3>2, <3>3
  <2>2. ASSUME Home(repo)[r] \in DOMAIN made PROVE tips[r] # None
    <3>1. repo.name[Home(repo)[r]] = r
      BY <1>1, <1>2, <2>2, HomeFacts
    <3> QED
      BY <1>1, <2>2, <3>1 DEF BranchTips
  <2> QED
    BY <2>1, <2>2
<1>6. \A r \in Tags \ DOMAIN repo.tags : tips[r] = None /\ Home(repo)[r] = None
  BY <1>1, HomeFacts DEF OtherTips
<1>7. \A d \in DOMAIN made : Survivor(d) = d
  BY DEF Survivor
<1>8. \A r \in DOMAIN repo.resets : Home(repo)[r] = repo.resets[r]
  BY <1>1, HomeFacts
<1>9. \A r \in DOMAIN repo.tags : Home(repo)[r] = repo.tags[r]
  BY <1>1, HomeFacts
<1> SUFFICES ASSUME NEW r \in Named
             PROVE  /\ tips[r] # None => Home(repo)[r] \in Read /\ tips[r] = Survivor(Home(repo)[r])
                    /\ Home(repo)[r] \in DOMAIN made => tips[r] # None
  OBVIOUS
<1>10. CASE r \in DOMAIN repo.resets
  BY <1>2, <1>3, <1>7, <1>8, <1>10
<1>11. CASE r \in DOMAIN repo.tags
  BY <1>2, <1>4, <1>7, <1>9, <1>11
<1>12. CASE r \in Refs \ DOMAIN repo.resets
  BY <1>5, <1>12
<1>13. CASE r \in Tags \ DOMAIN repo.tags
  BY <1>2, <1>6, <1>13
<1> QED
  BY <1>10, <1>11, <1>12, <1>13 DEF Named

LEMMA DoneKeeps ==
    ASSUME RewriteInv, ParseDone
    PROVE  RewriteInv'
<1>1. PICK rec \in todo : Reads("done", rec)
  BY DEF ParseDone
<1>2. PICK stuck \in SUBSET {r \in Named : tips[r] # None} :
         /\ refs' = [r \in Named |-> IF tips[r] = None \/ r \in stuck THEN refs[r]
                                     ELSE [new |-> TRUE, at |-> tips[r]]]
         /\ import' = IF stuck = {} THEN "done" ELSE "died"
  BY DEF ParseDone
<1>3. UNCHANGED <<repo, filter, pruned, latest, made, tips, result>>
  BY DEF ParseDone
<1>4. StreamInv /\ WriteInv /\ TipInv /\ TypeOK /\ Rewriting
  BY DEF RewriteInv, StreamInv, TypeOK, Rewriting
<1>5. /\ todo' = {} /\ todo' = todo \ {rec} /\ rec = Done /\ Ordered'
      /\ Read = Commits /\ import = "reading"
  BY <1>1, <1>3, <1>4, ReadsFacts
<1>6. Read' = Commits' /\ todo \subseteq {Done}
  BY <1>3, <1>5 DEF Read, Commits
<1>7. \A r \in Named :
         /\ tips[r] # None => Home(repo)[r] \in Read /\ tips[r] = Survivor(Home(repo)[r])
         /\ Home(repo)[r] \in DOMAIN made => tips[r] # None
  BY <1>5, <1>6, TipsFollow
<1>8. \A r \in Named : ~refs[r].new
  BY <1>4, <1>5 DEF TipInv, Unmoved
<1>9. TypeOK'
  <2>1. refs' \in [Named -> [new : BOOLEAN, at : DOMAIN repo.parents \cup {None}]]
    <3>1. \A r \in Named :
             /\ refs[r] \in [new : BOOLEAN, at : DOMAIN repo.parents \cup {None}]
             /\ tips[r] \in DOMAIN repo.parents \cup {None}
      BY <1>4 DEF TypeOK
    <3> QED
      BY <1>2, <3>1
  <2>2. import' \in {"reading", "died", "done"}
    BY <1>2
  <2> QED
    BY <1>3, <1>4, <1>5, <2>1, <2>2 DEF TypeOK
<1>10. ReadInOrder'
  <2>1. \A c \in Commits' : c \in Read' <=> Written(c)' \notin todo'
    BY <1>5, <1>6
  <2>2. \A c \in DOMAIN made' : ToSet(made'[c].parents) \subseteq 1..(c - 1)
    BY <1>3, <1>4 DEF StreamInv, ReadInOrder
  <2> QED
    BY <2>1, <2>2 DEF ReadInOrder
<1>11. Forgotten'
  BY <1>5 DEF Forgotten
<1>12. BranchTips'
  BY <1>3, <1>4 DEF TipInv, BranchTips, Trails, Read, Survivor, Commits
<1>13. OtherTips'
  <2>1. \A k, r, n : k # "done" => Record(k, r, n) \notin todo
    BY <1>6 DEF Done, Record
  <2> QED
    BY <1>3, <1>4, <1>5, <2>1 DEF TipInv, OtherTips, Placed
<1>14. Unmoved'
  BY <1>5 DEF Unmoved
<1>15. RefsFollow'
  <2>1. \A r \in Named :
           /\ refs'[r].new => tips[r] # None /\ r \notin stuck /\ refs'[r].at = tips[r]
           /\ tips[r] # None /\ r \notin stuck => refs'[r].new
    <3> SUFFICES ASSUME NEW r \in Named
                 PROVE  /\ refs'[r].new => tips[r] # None /\ r \notin stuck /\ refs'[r].at = tips[r]
                        /\ tips[r] # None /\ r \notin stuck => refs'[r].new
      OBVIOUS
    <3>1. refs'[r] = IF tips[r] = None \/ r \in stuck THEN refs[r]
                     ELSE [new |-> TRUE, at |-> tips[r]]
      BY <1>2
    <3>2. CASE tips[r] = None \/ r \in stuck
      <4>1. refs'[r] = refs[r]
        BY <3>1, <3>2
      <4>2. ~refs[r].new
        BY <1>8
      <4> QED
        BY <3>2, <4>1, <4>2
    <3>3. CASE ~(tips[r] = None \/ r \in stuck)
      BY <3>1, <3>3
    <3> QED
      BY <3>2, <3>3
  <2>2. import' = "done" => stuck = {}
    BY <1>2
  <2> QED
    BY <1>3, <1>7, <2>1, <2>2 DEF RefsFollow, Read, Survivor
<1> QED
  BY <1>3, <1>4, <1>5, <1>9, <1>10, <1>11, <1>12, <1>13, <1>14, <1>15, WritesNothing
  DEF RewriteInv, StreamInv, TipInv

LEMMA EndsKeep ==
    ASSUME RewriteInv, UNCHANGED <<repo, filter, todo, pruned, latest, made, tips, refs>>,
           import' \in {import, "died"}, result' \in {None, "imported", "ok", "failed"}
    PROVE  RewriteInv'
<1>1. StreamInv /\ WriteInv /\ TipInv /\ TypeOK
  BY DEF RewriteInv, StreamInv
<1>2. TypeOK'
  BY <1>1 DEF TypeOK
<1>3. Ordered' /\ ReadInOrder' /\ Forgotten'
  BY <1>1 DEF StreamInv, Ordered, Place, ReadInOrder, Forgotten, Read, Written, Bare, Commits
<1>4. BranchTips'
  BY <1>1 DEF TipInv, BranchTips, Trails, Read, Survivor, Commits
<1>5. OtherTips'
  BY <1>1 DEF TipInv, OtherTips, Placed
<1>6. Unmoved'
  BY <1>1 DEF TipInv, Unmoved, Done
<1>7. RefsFollow'
  BY <1>1, MovesNothing DEF TipInv
<1> QED
  BY <1>2, <1>3, <1>4, <1>5, <1>6, <1>7, WritesNothing DEF RewriteInv, StreamInv, TipInv

LEMMA InitHolds ==
    ASSUME Init
    PROVE  RewriteInv
<1>1. PICK w \in Rewrites : repo = w.repo /\ filter = w.filter
  BY DEF Init
<1>2. /\ todo = Stream(repo) /\ DOMAIN pruned = {} /\ DOMAIN made = {}
      /\ latest = [r \in Refs |-> None] /\ tips = [r \in Named |-> None]
      /\ import = "reading" /\ result = None
      /\ refs = [r \in Named |-> [new |-> FALSE, at |-> Home(repo)[r]]]
  BY DEF Init
<1>3. Rewriting
  <2>1. w = [repo |-> w.repo, filter |-> w.filter]
    BY FilterRepoAssumption
  <2> QED
    BY <1>1, <2>1 DEF Rewriting
<1>4. TypeOK
  <2>1. refs \in [Named -> [new : BOOLEAN, at : DOMAIN repo.parents \cup {None}]]
    <3>1. \A r \in Named : Home(repo)[r] \in DOMAIN repo.parents \cup {None}
      BY <1>3, HomeFacts DEF Commits
    <3> QED
      BY <1>2, <3>1
  <2> QED
    BY <1>2, <1>3, <2>1 DEF TypeOK, Rewriting
<1>5. Read = {}
  BY <1>2 DEF Read
<1>6. \A c \in Commits : Written(c) \in todo
  BY <1>2, <1>3, PlaceFacts
<1>7. \A c \in Commits : repo.parents[c] = <<>> => Bare(c) \in todo
  BY <1>2, <1>3, PlaceFacts
<1>8. StreamInv
  BY <1>2, <1>4, <1>5, <1>6, <1>7 DEF StreamInv, Ordered, ReadInOrder, Forgotten
<1>9. WriteInv
  BY <1>2, <1>5 DEF WriteInv, SurvivorStands, TreesAreFiltered
<1>10. \A r \in Named : tips[r] = None /\ ~refs[r].new
  BY <1>2
<1>11. BranchTips
  BY <1>2, <1>10 DEF BranchTips, Named
<1>12. Placed("reset", repo.resets) /\ Placed("tag", repo.tags)
  <2>1. /\ \A r \in DOMAIN repo.resets : r \in Named /\ Record("reset", r, repo.resets[r]) \in todo
        /\ \A r \in DOMAIN repo.tags : r \in Named /\ Record("tag", r, repo.tags[r]) \in todo
    BY <1>2, <1>3, RepoFacts DEF Stream, Named
  <2> QED
    BY <1>10, <2>1 DEF Placed
<1>13. TipInv
  BY <1>2, <1>10, <1>11, <1>12 DEF TipInv, OtherTips, Unmoved, RefsFollow, Named
<1> QED
  BY <1>8, <1>9, <1>13 DEF RewriteInv

-----------------------------------------------------------------------------
(* The theorems.                                                              *)

LEMMA RewriteNext ==
    ASSUME RewriteInv, [Next]_vars
    PROVE  RewriteInv'
<1>0. import \in {import, "died"} /\ result \in {None, "imported", "ok", "failed"}
  BY DEF RewriteInv, StreamInv, TypeOK
<1>1. CASE ParseBareReset
  BY <1>1, BareKeeps
<1>2. CASE ParseReset \/ ParseTag
  BY <1>2, ResetKeeps
<1>3. CASE ParseCommit
  BY <1>3, CommitKeeps
<1>4. CASE ParseDone
  BY <1>4, DoneKeeps
<1>5. CASE StreamBreaks
  BY <1>5, EndsKeep DEF StreamBreaks
<1>6. CASE Aggregate
  BY <1>6, EndsKeep DEF Aggregate
<1>7. CASE Cleanup
  BY <1>7, EndsKeep DEF Cleanup
<1>8. CASE UNCHANGED vars
  BY <1>0, <1>8, EndsKeep DEF vars
<1> QED
  BY <1>1, <1>2, <1>3, <1>4, <1>5, <1>6, <1>7, <1>8 DEF Next

LEMMA RewriteIsInvariant == Spec => []RewriteInv
<1>1. Init => RewriteInv
  BY InitHolds
<1>2. RewriteInv /\ [Next]_vars => RewriteInv'
  BY RewriteNext
<1> QED
  BY <1>1, <1>2, PTL DEF Spec

\* RewriteHolds for every history, whatever is kept and redacted: what run_filterrepo writes
\* is the old history, filtered, with its refs on top.
THEOREM RewriteSound == Spec => []RewriteHolds
<1>1. RewriteInv => RewriteHolds
  BY DEF RewriteInv, StreamInv, WriteInv, TipInv, RewriteHolds
<1> QED
  BY <1>1, RewriteIsInvariant, PTL

\* AncestryIsKept for every history: what resolve_parents answers keeps the ancestors of each
\* surviving commit, and adds none.
THEOREM AncestryKept == Spec => []AncestryIsKept
<1>1. RewriteInv => AncestryIsKept
  <2> SUFFICES ASSUME RewriteInv, NEW d \in DOMAIN made
               PROVE  New[d] = Old[d] \cap DOMAIN made
    BY DEF AncestryIsKept, New, Old
  <2>1. Rewriting /\ TypeOK /\ SurvivorStands
    BY DEF RewriteInv, StreamInv, TypeOK, Rewriting, WriteInv
  <2>2. d \in Commits /\ d \in Nat /\ d # None
    BY <2>1, RepoFacts, FilterRepoAssumption DEF TypeOK, Commits
  <2>3. ~(d < d)
    BY ONLY <2>2
  <2>4. d \notin Old[d] /\ d \notin New[d]
    BY <2>1, <2>2, <2>3, OlderOld, OlderMade
  <2>5. ({d} \cup Old[d]) \cap DOMAIN made = {d} \cup New[d]
    BY <2>1, <2>2 DEF SurvivorStands, Survivor, Read
  <2> QED
    BY <2>4, <2>5
<1> QED
  BY <1>1, RewriteIsInvariant, PTL

\* CommitsImport for every history: fast-import is never sent a parent that it has not made.
THEOREM ParentsAreMade == Spec => CommitsImport
<1>1. RewriteInv /\ [Next]_vars => (ParseCommit => import' # "died")
  <2> SUFFICES ASSUME RewriteInv, ParseCommit PROVE import' # "died"
    OBVIOUS
  <2>1. PICK c \in Commits : Reading(c)
    BY CommitIsReading
  <2>2. import' = import
    <3>1. CASE Empties(c)
      BY <2>1, <3>1, PruneFacts
    <3>2. CASE ~Empties(c)
      BY <2>1, <3>2, KeepFacts
    <3> QED
      BY <3>1, <3>2
  <2> QED
    BY <2>1, <2>2 DEF Reading
<1>2. Spec => [][Next]_vars
  BY PTL DEF Spec
<1> QED
  BY <1>1, <1>2, RewriteIsInvariant, PTL DEF CommitsImport
=============================================================================
