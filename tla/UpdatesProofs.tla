---------------------------- MODULE UpdatesProofs -----------------------------
(* What Updates guarantees for every set of commands, appliers and workers, any *)
(* number of releases, and any number of failing calls and deaths.              *)
EXTENDS Updates, TLAPS

\* What an applier brings from one step of the swap to the next.
Carries ==
    \A a \in Appliers :
        /\ pc[a] = "verify" => got[a] \in Binary
        /\ pc[a] = "write" => got[a] \in Binary /\ got[a].good
        /\ pc[a] \in {"clear_old", "aside", "install", "rollback"} =>
              tmp[a] \in Binary /\ tmp[a].good
        /\ pc[a] \in {"idle", "verify", "write", "remove_old"} => tmp[a] = Absent

\* One applier at a time is between its renames, whatever the others do: there
\* is nothing for them to move aside.  What it would put back is there.
Window ==
    /\ \A a, b \in InWindow : a = b
    /\ InWindow # {} => bin = Absent /\ (old # Absent \/ swept)

\* The files of the swap have their types.
FilesOK ==
    /\ bin \in Binary \cup {Absent} /\ old \in Binary \cup {Absent}
    /\ tmp \in [Appliers -> Binary \cup {Absent}] /\ got \in [Appliers -> Binary \cup {Absent}]
    /\ pc \in [Procs -> Labels] /\ faults \in 0..MaxFaults
    /\ faults = 0 => \A a \in Appliers : pc[a] = "ended" => tmp[a] = Absent

\* Everything else has.
RestOK ==
    /\ release \in Versions /\ due \in BOOLEAN /\ stale \in BOOLEAN /\ reclaimed \in BOOLEAN
    /\ swept \in BOOLEAN /\ left \in BOOLEAN
    /\ lock \in Commands \cup {Absent, Abandoned} /\ notice \in Versions \cup {Absent}
    /\ running \in [Workers -> Versions]
    /\ lock = Absent => ~stale

SwapInv == FilesOK /\ Carries /\ NeverUnverified /\ Window /\ ToolIsThere

LEMMA TypeIsBoth == TypeOK <=> FilesOK /\ RestOK
  BY DEF TypeOK, FilesOK, RestOK

-----------------------------------------------------------------------------
(* The swap.                                                                    *)

LEMMA SwapInit == Init => SwapInv
<1> SUFFICES ASSUME Init PROVE SwapInv
  OBVIOUS
<1>1. [version |-> 1, good |-> TRUE] \in Binary /\ Absent \notin Binary
  BY UpdatesAssumption DEF Binary
<1>2. /\ bin = [version |-> 1, good |-> TRUE] /\ old = Absent /\ faults = 0
      /\ tmp = [a \in Appliers |-> Absent] /\ got = [a \in Appliers |-> Absent]
      /\ pc = [p \in Procs |-> "idle"]
  BY DEF Init
<1>3. \A a \in Appliers : a \in Procs /\ pc[a] = "idle" /\ tmp[a] = Absent
  BY <1>2 DEF Procs
<1>4. FilesOK
  BY <1>1, <1>2, <1>3, UpdatesAssumption DEF FilesOK, Labels
<1>5. Carries
  BY <1>3 DEF Carries
<1>6. NeverUnverified
  BY <1>1, <1>2 DEF NeverUnverified
<1>7. Window /\ ToolIsThere
  BY <1>1, <1>2, <1>3 DEF Window, ToolIsThere, InWindow
<1> QED
  BY <1>4, <1>5, <1>6, <1>7 DEF SwapInv

\* A step that leaves the files and the appliers alone, and may count a fault.
LEMMA OthersKeepSwap ==
  ASSUME SwapInv,
         UNCHANGED <<bin, old, tmp, got, swept, left>>,
         pc' \in [Procs -> Labels], faults' \in 0..MaxFaults, faults <= faults',
         \A q \in Appliers : pc'[q] = pc[q]
  PROVE  SwapInv'
<1>1. InWindow' = InWindow
  BY DEF InWindow
<1>2. faults' = 0 => faults = 0
  BY DEF SwapInv, FilesOK
<1> QED
  BY <1>1, <1>2 DEF SwapInv, FilesOK, Carries, NeverUnverified, Window, ToolIsThere

LEMMA SwapNext == SwapInv /\ RestOK /\ [Next]_vars => SwapInv'
<1> SUFFICES ASSUME SwapInv, RestOK, [Next]_vars PROVE SwapInv'
  OBVIOUS
<1>a. /\ bin \in Binary \cup {Absent} /\ old \in Binary \cup {Absent}
      /\ tmp \in [Appliers -> Binary \cup {Absent}] /\ got \in [Appliers -> Binary \cup {Absent}]
      /\ pc \in [Procs -> Labels] /\ faults \in 0..MaxFaults
      /\ faults = 0 => \A a \in Appliers : pc[a] = "ended" => tmp[a] = Absent
  BY DEF SwapInv, FilesOK
<1>b. /\ Absent \notin Binary /\ MaxFaults \in Nat /\ Versions \subseteq Nat
      /\ \A p \in Commands : p \in Procs /\ p \notin Appliers /\ WorkerOf[p] \in Workers
      /\ \A p \in Workers : p \in Procs /\ p \notin Appliers /\ p \notin Commands
      /\ \A p \in Appliers : p \in Procs
  BY UpdatesAssumption DEF Procs
<1>c. Fault => faults' \in 0..MaxFaults /\ faults' # 0
  BY <1>a, <1>b DEF Fault
<1>1. ASSUME NEW p \in Commands, Start(p) PROVE SwapInv'
  <2>1. /\ pc' = [pc EXCEPT ![p] = "notice"] /\ UNCHANGED <<bin, tmp, got, left>>
        /\ \/ old' = Absent /\ swept' = (swept \/ (old # Absent /\ InWindow # {})) /\ faults' = faults
           \/ Fault /\ UNCHANGED <<old, swept>>
    BY <1>1 DEF Start, Goto
  <2>2. pc' \in [Procs -> Labels] /\ \A a \in Appliers : pc'[a] = pc[a]
    BY <1>a, <1>b, <2>1 DEF Labels
  <2>3. InWindow' = InWindow
    BY <2>2 DEF InWindow
  <2>4. Window' /\ ToolIsThere'
    BY <2>1, <2>3 DEF SwapInv, Window, ToolIsThere
  <2>5. NeverUnverified'
    BY <2>1 DEF SwapInv, NeverUnverified
  <2>6. FilesOK' /\ Carries'
    BY <1>a, <1>c, <2>1, <2>2 DEF SwapInv, FilesOK, Carries
  <2> QED
    BY <2>4, <2>5, <2>6 DEF SwapInv
<1>2. ASSUME NEW p \in Commands, Command(p), ~Start(p) PROVE SwapInv'
  <2>1. /\ UNCHANGED <<bin, old, tmp, got, swept, left>> /\ (faults' = faults \/ Fault)
        /\ \/ \E l \in Labels : pc' = [pc EXCEPT ![p] = l]
           \/ pc' = [pc EXCEPT ![p] = "release", ![WorkerOf[p]] = "check"]
    <3>1. CASE PrintNotice(p) \/ ClearNotice(p) \/ CheckDue(p) \/ StatLock(p) \/ ReclaimLock(p)
      BY <3>1 DEF PrintNotice, ClearNotice, CheckDue, StatLock, ReclaimLock, Goto, files, Labels
    <3>2. CASE CreateLock(p) \/ Stamp(p) \/ SpawnDetached(p) \/ Release(p)
      BY <3>2 DEF CreateLock, Stamp, SpawnDetached, Release, Goto, files, Labels
    <3> QED
      BY <1>2, <3>1, <3>2 DEF Command
  <2>2. pc' \in [Procs -> Labels] /\ \A a \in Appliers : pc'[a] = pc[a]
    BY <1>a, <1>b, <2>1 DEF Labels
  <2>3. faults' \in 0..MaxFaults /\ faults <= faults'
    BY <1>a, <1>b, <2>1 DEF Fault
  <2> QED
    BY <2>1, <2>2, <2>3, OthersKeepSwap
<1>3. ASSUME NEW w \in Workers, Check(w) PROVE SwapInv'
  <2>1. /\ UNCHANGED <<bin, old, tmp, got, swept, left>> /\ (faults' = faults \/ Fault)
        /\ pc' = [pc EXCEPT ![w] = "idle"]
    BY <1>3 DEF Check, Goto, files
  <2>2. pc' \in [Procs -> Labels] /\ \A a \in Appliers : pc'[a] = pc[a]
    BY <1>a, <1>b, <2>1 DEF Labels
  <2>3. faults' \in 0..MaxFaults /\ faults <= faults'
    BY <1>a, <1>b, <2>1 DEF Fault
  <2> QED
    BY <2>1, <2>2, <2>3, OthersKeepSwap
<1>4. ASSUME NEW a \in Appliers, Applier(a) PROVE SwapInv'
  <2>a. /\ pc[a] = "verify" => got[a] \in Binary
        /\ pc[a] = "write" => got[a] \in Binary /\ got[a].good
        /\ pc[a] \in {"clear_old", "aside", "install", "rollback"} => tmp[a] \in Binary /\ tmp[a].good
        /\ pc[a] \in {"idle", "verify", "write", "remove_old"} => tmp[a] = Absent
    BY DEF SwapInv, Carries
  <2>b. /\ bin # Absent => bin.good
        /\ old # Absent => old.good
    BY DEF SwapInv, NeverUnverified
  <2>c. ASSUME NEW l \in Labels, pc' = [pc EXCEPT ![a] = l]
        PROVE  /\ pc' \in [Procs -> Labels] /\ pc'[a] = l /\ \A b \in Appliers \ {a} : pc'[b] = pc[b]
               /\ InWindow' = IF l \in {"install", "rollback"} THEN InWindow \cup {a} ELSE InWindow \ {a}
    <3>1. pc' \in [Procs -> Labels] /\ pc'[a] = l /\ \A b \in Appliers \ {a} : pc'[b] = pc[b]
      BY <1>a, <1>b, <2>c
    <3> QED
      BY <3>1 DEF InWindow
  <2>1. CASE Query(a)
    <3>1. /\ pc[a] = "idle" /\ UNCHANGED <<bin, old, tmp, swept, left>>
          /\ \/ /\ pc' = [pc EXCEPT ![a] = "verify"] /\ faults' = faults
                /\ \E ok \in BOOLEAN : got' = [got EXCEPT ![a] = [version |-> release, good |-> ok]]
             \/ pc' = [pc EXCEPT ![a] = "ended"] /\ got' = got /\ (faults' = faults \/ Fault)
      BY <2>1 DEF Query, At, Goto, Fail
    <3>2. \A ok \in BOOLEAN : [version |-> release, good |-> ok] \in Binary
      BY DEF RestOK, Binary
    <3>3. /\ got' \in [Appliers -> Binary \cup {Absent}]
          /\ pc' = [pc EXCEPT ![a] = "verify"] => got'[a] \in Binary
          /\ \A b \in Appliers \ {a} : got'[b] = got[b]
      <4>1. CASE got' = got /\ pc' = [pc EXCEPT ![a] = "ended"]
        <5>1. a \in Procs => pc' # [pc EXCEPT ![a] = "verify"]
          BY <1>a, <4>1
        <5> QED
          BY <1>a, <1>b, <4>1, <5>1
      <4>2. CASE \E ok \in BOOLEAN : got' = [got EXCEPT ![a] = [version |-> release, good |-> ok]]
        <5>1. PICK b \in Binary : got' = [got EXCEPT ![a] = b]
          BY <3>2, <4>2
        <5> QED
          BY <1>a, <5>1
      <4> QED
        BY <3>1, <4>1, <4>2
    <3>4. /\ pc' \in [Procs -> Labels] /\ pc'[a] \in {"verify", "ended"}
          /\ pc'[a] = "verify" => got'[a] \in Binary
          /\ \A b \in Appliers \ {a} : pc'[b] = pc[b]
          /\ InWindow' = InWindow
      BY <2>c, <3>1, <3>3 DEF Labels, InWindow
    <3>5. FilesOK' /\ Carries'
      BY <1>a, <1>c, <2>a, <3>1, <3>3, <3>4 DEF SwapInv, FilesOK, Carries
    <3> QED
      BY <3>1, <3>4, <3>5 DEF SwapInv, NeverUnverified, Window, ToolIsThere
  <2>2. CASE Verify(a)
    <3>1. /\ pc[a] = "verify" /\ UNCHANGED <<bin, old, tmp, got, swept, left>>
          /\ \/ pc' = [pc EXCEPT ![a] = "write"] /\ got[a].good /\ faults' = faults
             \/ pc' = [pc EXCEPT ![a] = "ended"] /\ (faults' = faults \/ Fault)
      BY <2>2 DEF Verify, At, Goto, files
    <3>2. /\ pc' \in [Procs -> Labels] /\ pc'[a] \in {"write", "ended"}
          /\ pc'[a] = "write" => got[a].good
          /\ \A b \in Appliers \ {a} : pc'[b] = pc[b]
          /\ InWindow' = InWindow
      BY <2>c, <3>1 DEF Labels, InWindow
    <3>3. FilesOK' /\ Carries'
      BY <1>a, <1>c, <2>a, <3>1, <3>2 DEF SwapInv, FilesOK, Carries
    <3> QED
      BY <3>1, <3>2, <3>3 DEF SwapInv, NeverUnverified, Window, ToolIsThere
  <2>3. CASE WriteTemp(a)
    <3>1. /\ pc[a] = "write" /\ UNCHANGED <<bin, old, got, swept, left>>
          /\ \/ /\ pc' = [pc EXCEPT ![a] = "clear_old"] /\ tmp' = [tmp EXCEPT ![a] = got[a]]
                /\ faults' = faults
             \/ pc' = [pc EXCEPT ![a] = "ended"] /\ tmp' = tmp /\ Fault
      BY <2>3 DEF WriteTemp, At, Goto, Fail
    <3>2. /\ pc' \in [Procs -> Labels] /\ pc'[a] \in {"clear_old", "ended"}
          /\ tmp' \in [Appliers -> Binary \cup {Absent}]
          /\ pc'[a] = "clear_old" => tmp'[a] = got[a]
          /\ pc'[a] = "ended" => faults' # 0
          /\ \A b \in Appliers \ {a} : pc'[b] = pc[b] /\ tmp'[b] = tmp[b]
          /\ InWindow' = InWindow
      BY <1>a, <1>c, <2>a, <2>c, <3>1 DEF Labels, InWindow
    <3>3. FilesOK' /\ Carries'
      BY <1>a, <1>c, <2>a, <3>1, <3>2 DEF SwapInv, FilesOK, Carries
    <3> QED
      BY <3>1, <3>2, <3>3 DEF SwapInv, NeverUnverified, Window, ToolIsThere
  <2>4. CASE RemoveOld(a) \/ RemoveOldAfter(a)
    <3>1. /\ UNCHANGED <<bin, tmp, got, left>>
          /\ \/ pc[a] = "clear_old" /\ pc' = [pc EXCEPT ![a] = "aside"]
             \/ pc[a] = "remove_old" /\ pc' = [pc EXCEPT ![a] = "ended"]
          /\ \/ old' = Absent /\ swept' = (swept \/ (old # Absent /\ InWindow # {})) /\ faults' = faults
             \/ Fault /\ UNCHANGED <<old, swept>>
      BY <2>4 DEF RemoveOld, RemoveOldAfter, At, Goto
    <3>2. /\ pc' \in [Procs -> Labels] /\ pc'[a] \in {"aside", "ended"}
          /\ pc'[a] = "aside" => pc[a] = "clear_old"
          /\ pc'[a] = "ended" => pc[a] = "remove_old"
          /\ \A b \in Appliers \ {a} : pc'[b] = pc[b]
          /\ InWindow' = InWindow
      BY <2>c, <3>1 DEF Labels, InWindow
    <3>3. FilesOK' /\ Carries'
      <4>1. old' \in Binary \cup {Absent} /\ faults' \in 0..MaxFaults /\ (faults' = 0 => faults = 0)
        BY <1>a, <1>c, <3>1
      <4>2. FilesOK'
        BY <1>a, <2>a, <3>1, <3>2, <4>1 DEF FilesOK
      <4>3. Carries'
        BY <2>a, <3>1, <3>2 DEF SwapInv, Carries
      <4> QED
        BY <4>2, <4>3
    <3>4. Window' /\ ToolIsThere'
      <4>1. (swept => swept') /\ (old' # old /\ InWindow # {} => swept') /\ bin' = bin /\ left' = left
        <5>1. CASE old' = Absent /\ swept' = (swept \/ (old # Absent /\ InWindow # {}))
          BY <3>1, <5>1, Zenon
        <5>2. CASE UNCHANGED <<old, swept>>
          BY <3>1, <5>2
        <5> QED
          BY <3>1, <5>1, <5>2
      <4>2. InWindow' = InWindow
        BY <3>2
      <4> QED
        BY <4>1, <4>2 DEF SwapInv, Window, ToolIsThere
    <3>5. NeverUnverified'
      BY <3>1 DEF SwapInv, NeverUnverified
    <3> QED
      BY <3>3, <3>4, <3>5 DEF SwapInv
  <2>5. CASE MoveAside(a)
    <3>1. CASE bin # Absent /\ old' = bin /\ bin' = Absent /\ Goto(a, "install") /\ UNCHANGED <<tmp, faults>>
      <4>1. pc[a] = "aside" /\ UNCHANGED <<got, swept, left>> /\ InWindow = {}
        BY <2>5, <3>1 DEF MoveAside, At, SwapInv, Window
      <4>2. /\ pc' \in [Procs -> Labels] /\ pc'[a] = "install"
            /\ \A b \in Appliers \ {a} : pc'[b] = pc[b]
            /\ InWindow' = {a}
        BY <2>c, <3>1, <4>1 DEF Labels, Goto
      <4>3. FilesOK' /\ Carries'
        BY <1>a, <1>b, <2>a, <3>1, <4>1, <4>2 DEF SwapInv, FilesOK, Carries
      <4>4. Window' /\ ToolIsThere' /\ NeverUnverified'
        BY <2>b, <3>1, <4>2 DEF Window, ToolIsThere, NeverUnverified
      <4> QED
        BY <4>3, <4>4 DEF SwapInv
    <3>2. CASE /\ pc' = [pc EXCEPT ![a] = "ended"] /\ tmp' = [tmp EXCEPT ![a] = Absent]
               /\ UNCHANGED <<bin, old>> /\ (faults' = faults \/ Fault)
      <4>1. pc[a] = "aside" /\ UNCHANGED <<got, swept, left>>
        BY <2>5 DEF MoveAside, At
      <4>2. /\ pc' \in [Procs -> Labels] /\ pc'[a] = "ended"
            /\ tmp' \in [Appliers -> Binary \cup {Absent}] /\ tmp'[a] = Absent
            /\ \A b \in Appliers \ {a} : pc'[b] = pc[b] /\ tmp'[b] = tmp[b]
            /\ InWindow' = InWindow
        BY <1>a, <2>c, <3>2, <4>1 DEF Labels, InWindow
      <4>3. FilesOK' /\ Carries'
        BY <1>a, <1>c, <2>a, <3>2, <4>1, <4>2 DEF SwapInv, FilesOK, Carries
      <4> QED
        BY <3>2, <4>1, <4>2, <4>3 DEF SwapInv, NeverUnverified, Window, ToolIsThere
    <3> QED
      BY <2>5, <3>1, <3>2 DEF MoveAside, Goto
  <2>6. CASE InstallNew(a)
    <3>1. pc[a] = "install" /\ UNCHANGED <<old, got, swept, left>> /\ a \in InWindow
      BY <2>6 DEF InstallNew, At, InWindow
    <3>2. CASE /\ bin' = tmp[a] /\ tmp' = [tmp EXCEPT ![a] = Absent]
               /\ pc' = [pc EXCEPT ![a] = "remove_old"] /\ faults' = faults
      <4>1. /\ pc' \in [Procs -> Labels] /\ pc'[a] = "remove_old"
            /\ tmp' \in [Appliers -> Binary \cup {Absent}] /\ tmp'[a] = Absent
            /\ \A b \in Appliers \ {a} : pc'[b] = pc[b] /\ tmp'[b] = tmp[b]
            /\ InWindow' = {}
        BY <1>a, <2>c, <3>1, <3>2 DEF Labels, SwapInv, Window
      <4>2. FilesOK' /\ Carries'
        BY <1>a, <1>c, <2>a, <3>1, <3>2, <4>1 DEF SwapInv, FilesOK, Carries
      <4>3. Window' /\ ToolIsThere' /\ NeverUnverified'
        BY <1>b, <2>a, <2>b, <3>1, <3>2, <4>1 DEF Window, ToolIsThere, NeverUnverified
      <4> QED
        BY <4>2, <4>3 DEF SwapInv
    <3>3. CASE pc' = [pc EXCEPT ![a] = "rollback"] /\ Fault /\ UNCHANGED <<bin, tmp>>
      <4>1. /\ pc' \in [Procs -> Labels] /\ pc'[a] = "rollback"
            /\ \A b \in Appliers \ {a} : pc'[b] = pc[b]
            /\ InWindow' = InWindow
        <5>1. "rollback" \in Labels /\ InWindow \cup {a} = InWindow
          BY <3>1 DEF Labels
        <5> QED
          BY <2>c, <3>3, <5>1
      <4>2. FilesOK' /\ Carries'
        BY <1>a, <1>c, <2>a, <3>1, <3>3, <4>1 DEF SwapInv, FilesOK, Carries
      <4> QED
        BY <3>1, <3>3, <4>1, <4>2 DEF SwapInv, NeverUnverified, Window, ToolIsThere
    <3> QED
      BY <2>6, <3>2, <3>3 DEF InstallNew, Goto
  <2>7. CASE Rollback(a)
    <3>1. /\ pc[a] = "rollback" /\ pc' = [pc EXCEPT ![a] = "ended"]
          /\ tmp' = [tmp EXCEPT ![a] = Absent] /\ UNCHANGED <<got, swept>> /\ a \in InWindow
          /\ \/ /\ IF old # Absent THEN bin' = old /\ old' = Absent ELSE UNCHANGED <<bin, old>>
                /\ UNCHANGED <<faults, left>>
             \/ Fault /\ left' = TRUE /\ UNCHANGED <<bin, old>>
      BY <2>7 DEF Rollback, At, Goto, InWindow
    <3>2. /\ pc' \in [Procs -> Labels] /\ pc'[a] = "ended"
          /\ tmp' \in [Appliers -> Binary \cup {Absent}] /\ tmp'[a] = Absent
          /\ \A b \in Appliers \ {a} : pc'[b] = pc[b] /\ tmp'[b] = tmp[b]
          /\ InWindow' = {}
      BY <1>a, <2>c, <3>1 DEF Labels, SwapInv, Window
    <3>3. FilesOK' /\ Carries'
      BY <1>a, <1>c, <2>a, <3>1, <3>2 DEF SwapInv, FilesOK, Carries
    <3>4. NeverUnverified'
      BY <2>b, <3>1 DEF NeverUnverified
    <3>5. old # Absent \/ swept
      BY <3>1 DEF SwapInv, Window
    <3>6. Window' /\ ToolIsThere'
      BY <3>1, <3>2, <3>5 DEF Window, ToolIsThere
    <3> QED
      BY <3>3, <3>4, <3>6 DEF SwapInv
  <2> QED
    BY <1>4, <2>1, <2>2, <2>3, <2>4, <2>5, <2>6, <2>7 DEF Applier
<1>5. ASSUME NEW p \in Procs, Dies(p) PROVE SwapInv'
  <2>1. /\ UNCHANGED <<bin, old, tmp, got, swept>> /\ Fault
        /\ left' = (left \/ p \in InWindow)
        /\ pc' = [pc EXCEPT ![p] = IF p \in Appliers THEN "ended" ELSE "idle"]
    BY <1>5 DEF Dies, Goto, files
  <2>2. /\ pc' \in [Procs -> Labels] /\ \A b \in Appliers \ {p} : pc'[b] = pc[b]
        /\ p \in Appliers => pc'[p] = "ended"
    BY <1>a, <1>b, <2>1 DEF Labels
  <2>3. InWindow' = InWindow \ {p}
    BY <2>2 DEF InWindow
  <2>4. FilesOK' /\ Carries'
    BY <1>a, <1>c, <2>1, <2>2 DEF SwapInv, FilesOK, Carries
  <2>5. Window' /\ ToolIsThere' /\ NeverUnverified'
    BY <2>1, <2>3 DEF SwapInv, Window, ToolIsThere, NeverUnverified
  <2> QED
    BY <2>4, <2>5 DEF SwapInv
<1>6. ASSUME Publish \/ HourPasses \/ IntervalPasses \/ UNCHANGED vars PROVE SwapInv'
  <2>1. UNCHANGED <<bin, old, tmp, got, swept, left, pc, faults>>
    BY <1>6 DEF Publish, HourPasses, IntervalPasses, vars, files
  <2>2. pc' \in [Procs -> Labels] /\ faults' \in 0..MaxFaults /\ faults <= faults'
    BY <1>a, <2>1
  <2> QED
    BY <2>1, <2>2, OthersKeepSwap
<1> QED
  BY <1>1, <1>2, <1>3, <1>4, <1>5, <1>6 DEF Next

-----------------------------------------------------------------------------
(* The locks and the rest.                                                      *)

FlightInv == RestOK /\ SingleFlight

LEMMA FlightInit == Init => FlightInv
  BY UpdatesAssumption DEF Init, FlightInv, RestOK, SingleFlight, Held, Procs

\* A command's step changes where no other command is.
LEMMA FlightNext == FilesOK /\ FlightInv /\ [Next]_vars => FlightInv'
<1> SUFFICES ASSUME FilesOK, FlightInv, [Next]_vars PROVE FlightInv'
  OBVIOUS
<1>a. /\ release \in Versions /\ due \in BOOLEAN /\ stale \in BOOLEAN /\ reclaimed \in BOOLEAN
      /\ swept \in BOOLEAN /\ left \in BOOLEAN
      /\ lock \in Commands \cup {Absent, Abandoned} /\ notice \in Versions \cup {Absent}
      /\ running \in [Workers -> Versions]
      /\ lock = Absent => ~stale
  BY DEF FlightInv, RestOK
<1>b. pc \in [Procs -> Labels] /\ bin \in Binary \cup {Absent}
  BY DEF FilesOK
<1>c. /\ Absent \notin Procs /\ Abandoned \notin Procs /\ Absent # Abandoned
      /\ \A p \in Commands : p \in Procs /\ p \notin Appliers /\ WorkerOf[p] \in Workers
      /\ \A p \in Workers : p \in Procs /\ p \notin Appliers /\ p \notin Commands
      /\ \A p \in Appliers : p \in Procs /\ p \notin Commands
  BY UpdatesAssumption DEF Procs
<1>d. ~reclaimed => \A p \in Commands : pc[p] \in Held => lock = p
  BY DEF FlightInv, SingleFlight
<1>1. ASSUME NEW p \in Commands,
             Start(p) \/ PrintNotice(p) \/ ClearNotice(p) \/ CheckDue(p) \/ StatLock(p)
      PROVE  FlightInv'
  <2>1. /\ UNCHANGED <<release, due, lock, stale, reclaimed, running, left>>
        /\ notice' \in {notice, Absent} /\ swept' \in BOOLEAN
        /\ \E l \in Labels \ Held : pc' = [pc EXCEPT ![p] = l]
    BY <1>1, <1>a DEF Start, PrintNotice, ClearNotice, CheckDue, StatLock, Goto, locks, Labels, Held
  <2>2. \A q \in Commands : pc'[q] \in Held => pc[q] \in Held
    BY <1>b, <1>c, <2>1
  <2> QED
    BY <1>a, <1>d, <2>1, <2>2 DEF FlightInv, RestOK, SingleFlight
<1>2. ASSUME NEW p \in Commands, ReclaimLock(p) PROVE FlightInv'
  <2>1. /\ UNCHANGED <<release, due, notice, running, swept, left>>
        /\ pc' = [pc EXCEPT ![p] = "create"]
        /\ \/ lock' = Absent /\ stale' = FALSE /\ reclaimed' = TRUE
           \/ UNCHANGED <<lock, stale, reclaimed>>
    BY <1>2 DEF ReclaimLock, Goto, locks
  <2>2. \A q \in Commands : pc'[q] \in Held => pc[q] \in Held
    BY <1>b, <1>c, <2>1 DEF Held
  <2>3. RestOK'
    <3>1. CASE lock' = Absent /\ stale' = FALSE /\ reclaimed' = TRUE
      BY <1>a, <2>1, <3>1 DEF RestOK
    <3>2. CASE UNCHANGED <<lock, stale, reclaimed>>
      BY <1>a, <2>1, <3>2 DEF RestOK
    <3> QED
      BY <2>1, <3>1, <3>2
  <2>4. SingleFlight'
    BY <1>d, <2>1, <2>2 DEF SingleFlight
  <2> QED
    BY <2>3, <2>4 DEF FlightInv
<1>3. ASSUME NEW p \in Commands, CreateLock(p) PROVE FlightInv'
  <2>1. UNCHANGED <<release, due, reclaimed, notice, running, swept, left>>
    BY <1>3 DEF CreateLock
  <2>2. CASE lock = Absent /\ lock' = p /\ stale' = FALSE /\ Goto(p, "stamp")
    <3>1. ~reclaimed => \A q \in Commands : pc[q] \notin Held
      BY <1>c, <1>d, <2>2
    <3>2. \A q \in Commands : q # p => pc'[q] = pc[q]
      BY <1>b, <2>2 DEF Goto
    <3> QED
      BY <1>a, <1>c, <2>1, <2>2, <3>1, <3>2 DEF FlightInv, RestOK, SingleFlight
  <2>3. CASE Goto(p, "idle") /\ UNCHANGED <<lock, stale>>
    <3>1. \A q \in Commands : pc'[q] \in Held => pc[q] \in Held
      BY <1>b, <1>c, <2>3 DEF Held, Goto
    <3> QED
      BY <1>a, <1>d, <2>1, <2>3, <3>1 DEF FlightInv, RestOK, SingleFlight
  <2> QED
    BY <1>3, <2>2, <2>3 DEF CreateLock
<1>4. ASSUME NEW p \in Commands, Stamp(p) PROVE FlightInv'
  <2>1. /\ UNCHANGED <<release, lock, stale, reclaimed, notice, running, swept, left>>
        /\ due' \in {due, FALSE} /\ pc[p] = "stamp"
        /\ \E l \in Held : pc' = [pc EXCEPT ![p] = l]
    BY <1>4 DEF Stamp, At, Goto, locks, Held
  <2>2. \A q \in Commands : pc'[q] \in Held => pc[q] \in Held
    BY <1>b, <1>c, <2>1 DEF Held
  <2> QED
    BY <1>a, <1>d, <2>1, <2>2 DEF FlightInv, RestOK, SingleFlight
<1>5. ASSUME NEW p \in Commands, SpawnDetached(p) PROVE FlightInv'
  <2>1. /\ UNCHANGED <<release, due, lock, stale, reclaimed, notice, swept, left>>
        /\ pc[p] = "spawn"
        /\ \/ pc' = [pc EXCEPT ![p] = "release"]
           \/ pc' = [pc EXCEPT ![p] = "release", ![WorkerOf[p]] = "check"]
        /\ \/ running' = running
           \/ bin # Absent /\ running' = [running EXCEPT ![WorkerOf[p]] = bin.version]
    BY <1>5 DEF SpawnDetached, At, Goto, locks
  <2>2. \A q \in Commands : pc'[q] \in Held => pc[q] \in Held
    BY <1>b, <1>c, <2>1 DEF Held
  <2>3. running' \in [Workers -> Versions]
    BY <1>a, <1>b, <1>c, <2>1 DEF Binary
  <2> QED
    BY <1>a, <1>d, <2>1, <2>2, <2>3 DEF FlightInv, RestOK, SingleFlight
<1>6. ASSUME NEW p \in Commands, Release(p) PROVE FlightInv'
  <2>1. /\ UNCHANGED <<release, due, reclaimed, notice, running, swept, left>>
        /\ pc[p] = "release" /\ pc' = [pc EXCEPT ![p] = "idle"] /\ lock' = Absent /\ stale' = FALSE
    BY <1>6 DEF Release, At, Goto
  <2>2. ~reclaimed => \A q \in Commands : pc'[q] \notin Held
    BY <1>b, <1>c, <1>d, <2>1 DEF Held
  <2> QED
    BY <1>a, <2>1, <2>2 DEF FlightInv, RestOK, SingleFlight
<1>7. ASSUME NEW w \in Workers, Check(w) PROVE FlightInv'
  <2>1. /\ UNCHANGED <<release, due, lock, stale, reclaimed, running, swept, left>>
        /\ notice' \in {release, notice} /\ pc' = [pc EXCEPT ![w] = "idle"]
    BY <1>7 DEF Check, Goto, locks
  <2>2. \A q \in Commands : pc'[q] = pc[q]
    BY <1>b, <1>c, <2>1
  <2> QED
    BY <1>a, <1>d, <2>1, <2>2 DEF FlightInv, RestOK, SingleFlight
<1>8. ASSUME NEW a \in Appliers, Applier(a) PROVE FlightInv'
  <2>1. /\ UNCHANGED <<release, due, lock, stale, reclaimed, notice, running>>
        /\ swept' \in BOOLEAN /\ left' \in BOOLEAN
        /\ \E l \in Labels : pc' = [pc EXCEPT ![a] = l]
    <3>1. CASE Query(a) \/ Verify(a) \/ WriteTemp(a) \/ RemoveOld(a)
      BY <1>a, <3>1 DEF Query, Verify, WriteTemp, RemoveOld, Fail, Goto, locks, Labels
    <3>2. CASE MoveAside(a) \/ InstallNew(a) \/ Rollback(a) \/ RemoveOldAfter(a)
      BY <1>a, <3>2 DEF MoveAside, InstallNew, Rollback, RemoveOldAfter, Goto, locks, Labels
    <3> QED
      BY <1>8, <3>1, <3>2 DEF Applier
  <2>2. \A q \in Commands : pc'[q] = pc[q]
    BY <1>b, <1>c, <2>1
  <2> QED
    BY <1>a, <1>d, <2>1, <2>2 DEF FlightInv, RestOK, SingleFlight
<1>9. ASSUME NEW p \in Procs, Dies(p) PROVE FlightInv'
  <2>1. /\ UNCHANGED <<release, due, stale, reclaimed, notice, running, swept>>
        /\ lock' = IF lock = p THEN Abandoned ELSE lock
        /\ left' \in BOOLEAN
        /\ pc' = [pc EXCEPT ![p] = IF p \in Appliers THEN "ended" ELSE "idle"]
    BY <1>9, <1>a DEF Dies, Goto
  <2>2. \A q \in Commands : pc'[q] \in Held => pc[q] \in Held /\ q # p
    BY <1>b, <1>c, <2>1 DEF Held
  <2> QED
    BY <1>a, <1>c, <1>d, <2>1, <2>2 DEF FlightInv, RestOK, SingleFlight
<1>10. ASSUME Publish \/ HourPasses \/ IntervalPasses \/ UNCHANGED vars PROVE FlightInv'
  <2>1. /\ UNCHANGED <<lock, reclaimed, notice, pc, running, swept, left>>
        /\ release' \in Versions /\ due' \in BOOLEAN
        /\ \/ stale' = stale
           \/ lock # Absent /\ stale' = TRUE
    BY <1>10, <1>a DEF Publish, HourPasses, IntervalPasses, vars, files, locks
  <2>2. RestOK'
    <3>1. CASE stale' = stale
      BY <1>a, <2>1, <3>1 DEF RestOK
    <3>2. CASE lock # Absent /\ stale' = TRUE
      BY <1>a, <2>1, <3>2 DEF RestOK
    <3> QED
      BY <2>1, <3>1, <3>2
  <2>3. SingleFlight'
    BY <1>d, <2>1 DEF SingleFlight
  <2> QED
    BY <2>2, <2>3 DEF FlightInv
<1> QED
  BY <1>1, <1>2, <1>3, <1>4, <1>5, <1>6, <1>7, <1>8, <1>9, <1>10 DEF Next, Command

-----------------------------------------------------------------------------
\* There is an executable, and it is a verified one, except where the swap says
\* it cannot be: while one applier is between its renames, when one was killed
\* there or could not rename back, or had its .old swept.  No file that failed
\* its checks is ever installed or kept to be put back, and until a lockfile was
\* taken for abandoned one command at a time decides on a check (swap, verify,
\* clean_shim_backups, try_update_lock).
THEOREM ToolSound == Spec => []ToolIsSound
<1>1. SwapInv /\ FlightInv => ToolIsSound
  BY TypeIsBoth DEF SwapInv, FlightInv, ToolIsSound
<1>2. SwapInv /\ FlightInv /\ [Next]_vars => (SwapInv /\ FlightInv)'
  BY SwapNext, FlightNext DEF SwapInv, FlightInv
<1> QED
  BY <1>1, <1>2, SwapInit, FlightInit, PTL DEF Spec
==============================================================================
