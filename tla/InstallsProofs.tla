--------------------------- MODULE InstallsProofs ---------------------------
(* What Installs guarantees for any number of fetches, background updates    *)
(* and commands, whichever of them die.                                      *)
EXTENDS Installs, TLAPS

\* Who may be where, and who holds the lock.
Places ==
    \A p \in Procs :
        /\ pc[p] \in {"gc", "list", "sweep"} => p \in Updaters
        /\ pc[p] = "adopt" => p \in Commands
        /\ pc[p] = "persist" => flavorOf[p] # "latest"
        /\ lock = p <=> pc[p] \in {"list", "sweep"}
        /\ todo[p] # {} \/ doomed[p] # {} => pc[p] = "sweep"

\* An install nobody has activated is in the hands of its process alone: no
\* pointer names it and no collector counts on its being gone.
Fresh ==
    \A p \in Procs :
        /\ pc[p] = "idle" => disk[p] = "none" /\ \A q \in Procs : p \notin todo[q]
        /\ pc[p] \in {"idle"} \cup InFlightPCs =>
              p \notin Named /\ \A q \in Procs : p \notin doomed[q]
        /\ pc[p] \in {"extract", "activate"} => flavorOf[p] = "latest" \/ archive[p] = "good"
        /\ p \notin swept =>
              /\ pc[p] \in {"download", "verify", "extract"} => disk[p] # "none"
              /\ pc[p] = "activate" => disk[p] = "whole"

\* What a collector has left to look at is not named, though it was listed
\* long ago, and what it has looked at and should be gone is.
Sweeps ==
    \A p \in Procs :
        /\ \A i \in todo[p] : i \notin Named
        /\ \A i \in doomed[p] \ todo[p] : disk[i] = "none"

\* A command runs the active install, or after one demotion the previous one.
Uses ==
    \A c \in Commands :
        pc[c] = "running" /\ using[c] \in Installs =>
            /\ demotions[c] = 0 => using[c] = active
            /\ demotions[c] = 1 => using[c] = previous

Good ==
    /\ Places /\ Fresh /\ Sweeps /\ Uses
    /\ NamedOnDisk /\ OnlyVerifiedNamed /\ InUseSurvivesOneDemotion

LEMMA NamesFacts ==
    /\ Legacy \notin Installs /\ System \notin Installs /\ None \notin Installs
    /\ Legacy # None /\ None \notin Procs /\ Legacy \notin Procs /\ Base \notin Procs
    /\ \A p \in Procs : p \in Installs
    /\ \A c \in Commands : c \in Procs /\ c \notin Updaters
    /\ \A u \in Updaters : u \in Procs
  BY InstallsAssumption DEF Installs, Procs

LEMMA GoodInit == Init => TypeOK /\ Good
<1> SUFFICES ASSUME Init PROVE TypeOK /\ Good
  OBVIOUS
<1>1. /\ disk \in [Installs -> {"none", "partial", "half", "whole"}] /\ disk[Base] = "whole"
      /\ archive \in [Installs -> {"none", "good", "bad"}] /\ archive[Base] = "good"
      /\ \A p \in Procs : disk[p] = "none"
  BY NamesFacts DEF Init, Installs
<1>2. flavor \in {"minimal", "busybox", "full"} /\ flavorOf = [i \in Installs |-> flavor]
  BY InstallsAssumption DEF Init, DEFAULT_FLAVOR
<1>3. /\ active \in {None, Base} /\ previous = None /\ lock = None
      /\ legacy \in BOOLEAN /\ system \in BOOLEAN /\ swept = {}
      /\ pc = [p \in Procs |-> "idle"]
      /\ todo = [p \in Procs |-> {}] /\ doomed = [p \in Procs |-> {}]
      /\ using = [p \in Procs |-> None] /\ demotions = [p \in Procs |-> 0]
  BY DEF Init
<1>4. TypeOK
  BY <1>1, <1>2, <1>3 DEF TypeOK, PCs, Installs
<1>5. Named \cap Installs \subseteq {Base}
  BY <1>3, NamesFacts DEF Named
<1>6. Places /\ Fresh /\ Sweeps
  BY <1>1, <1>3, <1>5, NamesFacts DEF Places, Fresh, Sweeps
<1>7. Uses /\ InUseSurvivesOneDemotion
  BY <1>3, NamesFacts DEF Uses, InUseSurvivesOneDemotion, Intact
<1>8. NamedOnDisk /\ OnlyVerifiedNamed
  BY <1>1, <1>5 DEF NamedOnDisk, OnlyVerifiedNamed
<1> QED
  BY <1>4, <1>6, <1>7, <1>8 DEF Good

LEMMA UsedIsNamed ==
  ASSUME TypeOK, Uses, NEW c \in Commands,
         pc[c] = "running", using[c] \in Installs, demotions[c] <= 1
  PROVE  using[c] \in Named
<1>1. demotions[c] = 0 \/ demotions[c] = 1
  BY NamesFacts DEF TypeOK
<1> QED
  BY <1>1 DEF Uses, Named

-----------------------------------------------------------------------------
(* The kinds of step there are.                                              *)

\* A process begins an install (StartInstall).
LEMMA StartKeeps ==
  ASSUME TypeOK, Good, NEW p \in Procs, NEW f \in {"minimal", "busybox", "full", "latest"},
         pc[p] = "idle", StartInstall(p, f),
         UNCHANGED <<archive, settings, lock, world, gc, run, swept>>
  PROVE  TypeOK' /\ Good'
<1> USE NamesFacts
<1>1. /\ disk' = [disk EXCEPT ![p] = "partial"]
      /\ flavorOf' = [flavorOf EXCEPT ![p] = f]
      /\ pc' = [pc EXCEPT ![p] = "download"]
      /\ UNCHANGED <<archive, active, previous, flavor, lock, legacy, system, todo, doomed,
                     using, demotions, swept>>
  BY DEF StartInstall, Goto, settings, world, gc, run
<1>2. /\ pc' \in [Procs -> PCs] /\ pc'[p] = "download"
      /\ \A q \in Procs : q # p => pc'[q] = pc[q]
      /\ disk' \in [Installs -> {"none", "partial", "half", "whole"}] /\ disk'[p] = "partial"
      /\ flavorOf' \in [Installs -> {"minimal", "busybox", "full", "latest"}]
      /\ \A i \in Installs : i # p => disk'[i] = disk[i] /\ flavorOf'[i] = flavorOf[i]
  BY <1>1 DEF TypeOK, PCs, InFlightPCs
<1>3. p \notin Named /\ Named' = Named /\ \A q \in Procs : p \notin doomed[q]
  BY <1>1 DEF Good, Fresh, Named
<1>4. TypeOK'
  BY <1>1, <1>2 DEF TypeOK
<1>5. Places'
  BY <1>1, <1>2 DEF Good, Places
<1>6. Fresh'
  BY <1>1, <1>2, <1>3 DEF Good, Fresh, InFlightPCs
<1>7. Sweeps'
  BY <1>1, <1>2, <1>3 DEF TypeOK, Good, Sweeps
<1>8. Uses' /\ InUseSurvivesOneDemotion'
  <2>1. \A c \in Commands : pc'[c] = "running" <=> pc[c] = "running"
    BY <1>2
  <2>2. Uses'
    BY <1>1, <2>1 DEF Good, Uses
  <2>3. ASSUME NEW c \in Commands, pc[c] = "running", using[c] \in Installs, demotions[c] <= 1
        PROVE  Intact(using[c])'
    <3>1. using[c] # p
      BY <1>3, <2>3, UsedIsNamed DEF Good
    <3>2. Intact(using[c])
      BY <2>3 DEF Good, InUseSurvivesOneDemotion, Intact
    <3> QED
      BY <1>1, <1>2, <2>3, <3>1, <3>2 DEF Intact
  <2>4. InUseSurvivesOneDemotion'
    BY <1>1, <2>1, <2>3 DEF InUseSurvivesOneDemotion, Intact
  <2> QED
    BY <2>2, <2>4
<1>9. NamedOnDisk' /\ OnlyVerifiedNamed'
  BY <1>1, <1>2, <1>3 DEF Good, NamedOnDisk, OnlyVerifiedNamed
<1> QED
  BY <1>4, <1>5, <1>6, <1>7, <1>8, <1>9 DEF Good

\* A process goes on without touching an install or the pointer.
LEMMA MoveKeeps ==
  ASSUME TypeOK, Good, NEW p \in Procs, NEW l \in PCs \ {"idle", "running"},
         pc' = [pc EXCEPT ![p] = l], pc[p] \notin {"sweep", "running"},
         UNCHANGED <<disk, archive, flavorOf, active, previous, legacy, system, gc, run, swept>>,
         flavor' \in {"minimal", "busybox", "full"},
         l \in InFlightPCs => pc[p] \in InFlightPCs,
         l \in {"extract", "activate"} => flavorOf[p] = "latest" \/ archive[p] = "good",
         p \notin swept =>
            /\ l \in {"download", "verify", "extract"} => disk[p] # "none"
            /\ l = "activate" => disk[p] = "whole",
         l \in {"gc", "list", "sweep"} => p \in Updaters,
         l = "adopt" => p \in Commands,
         l = "persist" => flavorOf[p] # "latest",
         \/ lock' = lock /\ (pc[p] = "list" <=> l \in {"list", "sweep"})
         \/ lock = None /\ lock' = p /\ l = "list"
  PROVE  TypeOK' /\ Good'
<1> USE NamesFacts
<1>1. UNCHANGED <<disk, archive, flavorOf, active, previous, legacy, system, todo, doomed,
                  using, demotions, swept>>
  BY DEF gc, run
<1>2. /\ pc' \in [Procs -> PCs] /\ pc'[p] = l
      /\ \A q \in Procs : q # p => pc'[q] = pc[q]
  BY DEF TypeOK
<1>3. lock' \in Updaters \cup {None}
  BY DEF TypeOK
<1>4. \A q \in Procs : lock' = q <=> pc'[q] \in {"list", "sweep"}
  BY <1>2 DEF Good, Places
<1>5. Named' = Named
  BY <1>1 DEF Named
<1>6. TypeOK'
  BY <1>1, <1>2, <1>3 DEF TypeOK
<1>7. Places'
  BY <1>1, <1>2, <1>4 DEF Good, Places
<1>8. Fresh'
  BY <1>1, <1>2, <1>5 DEF Good, Fresh, InFlightPCs
<1>9. Sweeps' /\ NamedOnDisk' /\ OnlyVerifiedNamed'
  BY <1>1, <1>5 DEF Good, Sweeps, NamedOnDisk, OnlyVerifiedNamed
<1>10. \A c \in Commands : pc'[c] = "running" <=> pc[c] = "running"
  BY <1>2
<1>11. Uses' /\ InUseSurvivesOneDemotion'
  BY <1>1, <1>10 DEF Good, Uses, InUseSurvivesOneDemotion, Intact
<1> QED
  BY <1>6, <1>7, <1>8, <1>9, <1>11 DEF Good

\* A command starts its git: the active install, or one nobody manages here.
\* Adopting a legacy install may come with it.
LEMMA RunKeeps ==
  ASSUME TypeOK, Good, NEW p \in Commands, NEW git \in {active, Legacy, System},
         pc[p] \in {"idle", "retry", "adopt"}, Run(p, git),
         git \in Installs => Intact(git),
         git \in Installs => active' = active,
         \/ active' = active
         \/ lock = None /\ active = None /\ active' = Legacy,
         UNCHANGED <<disk, archive, flavorOf, previous, flavor, lock, world, gc, swept>>
  PROVE  TypeOK' /\ Good'
<1> USE NamesFacts
<1>1. /\ using' = [using EXCEPT ![p] = git] /\ demotions' = [demotions EXCEPT ![p] = 0]
      /\ pc' = [pc EXCEPT ![p] = "running"]
      /\ UNCHANGED <<disk, archive, flavorOf, previous, flavor, lock, legacy, system, todo, doomed,
                     swept>>
  BY DEF Run, Goto, world, gc
<1>2. /\ pc' \in [Procs -> PCs] /\ pc'[p] = "running"
      /\ \A q \in Procs : q # p => pc'[q] = pc[q]
      /\ using' \in [Procs -> Installs \cup {Legacy, System, None}] /\ using'[p] = git
      /\ demotions' \in [Procs -> Nat] /\ demotions'[p] = 0
      /\ \A q \in Procs : q # p => using'[q] = using[q] /\ demotions'[q] = demotions[q]
  BY <1>1 DEF TypeOK, PCs
<1>3. Named' \cap Installs = Named \cap Installs
  BY <1>1 DEF Named
<1>4. TypeOK'
  BY <1>1, <1>2 DEF TypeOK
<1>5. Places'
  BY <1>1, <1>2 DEF Good, Places
<1>6. Fresh'
  <2>1. \A q \in Procs : q \in Named' <=> q \in Named
    BY <1>3
  <2> QED
    BY <1>1, <1>2, <2>1 DEF Good, Fresh, InFlightPCs
<1>7. Sweeps'
  <2>1. \A q \in Procs : todo[q] \subseteq Installs
    BY DEF TypeOK
  <2> QED
    BY <1>1, <1>3, <2>1 DEF Good, Sweeps
<1>8. Uses' /\ InUseSurvivesOneDemotion'
  <2>1. ASSUME NEW c \in Commands, pc'[c] = "running", using'[c] \in Installs
        PROVE  /\ demotions'[c] = 0 => using'[c] = active'
               /\ demotions'[c] = 1 => using'[c] = previous'
               /\ demotions'[c] <= 1 => Intact(using[c])'
    <3>1. CASE c = p
      BY <1>1, <1>2, <2>1, <3>1 DEF Intact
    <3>2. CASE c # p
      <4>1. /\ pc[c] = "running" /\ using[c] \in Installs
            /\ using'[c] = using[c] /\ demotions'[c] = demotions[c]
        BY <1>2, <2>1, <3>2
      <4>2. /\ demotions[c] = 0 => using[c] = active
            /\ demotions[c] = 1 => using[c] = previous
            /\ demotions[c] <= 1 => Intact(using[c])
        BY <4>1 DEF Good, Uses, InUseSurvivesOneDemotion, Intact
      <4>3. demotions[c] = 0 => active' = active
        BY <4>1, <4>2
      <4> QED
        BY <1>1, <4>1, <4>2, <4>3 DEF Intact
    <3> QED
      BY <3>1, <3>2
  <2> QED
    BY <2>1 DEF Uses, InUseSurvivesOneDemotion, Intact
<1>9. NamedOnDisk' /\ OnlyVerifiedNamed'
  BY <1>1, <1>3 DEF Good, NamedOnDisk, OnlyVerifiedNamed
<1> QED
  BY <1>4, <1>5, <1>6, <1>7, <1>8, <1>9 DEF Good

\* A process ends, of itself or not: it lets go of the lock and of its git.
LEMMA LeaveKeeps ==
  ASSUME TypeOK, Good, NEW p \in Procs, pc' = [pc EXCEPT ![p] = "ended"],
         lock' = (IF lock = p THEN None ELSE lock),
         todo' = [todo EXCEPT ![p] = {}], doomed' = [doomed EXCEPT ![p] = {}],
         using' = [using EXCEPT ![p] = None], demotions' = [demotions EXCEPT ![p] = 0],
         UNCHANGED <<disk, archive, flavorOf, settings, world, swept>>
  PROVE  TypeOK' /\ Good'
<1> USE NamesFacts
<1>1. UNCHANGED <<disk, archive, flavorOf, active, previous, flavor, legacy, system, swept>>
  BY DEF settings, world
<1>2. /\ pc' \in [Procs -> PCs] /\ pc'[p] = "ended" /\ todo'[p] = {} /\ doomed'[p] = {}
      /\ \A q \in Procs : q # p => /\ pc'[q] = pc[q] /\ todo'[q] = todo[q] /\ doomed'[q] = doomed[q]
                                   /\ using'[q] = using[q] /\ demotions'[q] = demotions[q]
      /\ todo' \in [Procs -> SUBSET Installs] /\ doomed' \in [Procs -> SUBSET Installs]
      /\ using' \in [Procs -> Installs \cup {Legacy, System, None}] /\ demotions' \in [Procs -> Nat]
  BY DEF TypeOK, PCs
<1>3. Named' = Named
  BY <1>1 DEF Named
<1>4. TypeOK'
  BY <1>1, <1>2 DEF TypeOK
<1>5. Places'
  BY <1>1, <1>2 DEF Good, Places
<1>6. Fresh'
  BY <1>1, <1>2, <1>3 DEF Good, Fresh, InFlightPCs
<1>7. Sweeps' /\ NamedOnDisk' /\ OnlyVerifiedNamed'
  BY <1>1, <1>2, <1>3 DEF Good, Sweeps, NamedOnDisk, OnlyVerifiedNamed
<1>8. \A c \in Commands : pc'[c] = "running" => c # p /\ pc[c] = "running"
  BY <1>2
<1>9. Uses' /\ InUseSurvivesOneDemotion'
  BY <1>1, <1>2, <1>8 DEF Good, Uses, InUseSurvivesOneDemotion, Intact
<1> QED
  BY <1>4, <1>5, <1>6, <1>7, <1>9 DEF Good

-----------------------------------------------------------------------------
(* The steps that touch an install or the pointer.                           *)

LEMMA DownloadKeeps ==
  ASSUME TypeOK, Good, NEW p \in Procs, Download(p)
  PROVE  TypeOK' /\ Good'
<1> USE NamesFacts
<1>1. CASE GiveUp(p) /\ UNCHANGED archive
  <2>1. /\ pc[p] = "download" /\ pc' = [pc EXCEPT ![p] = IF p \in Updaters THEN "gc" ELSE "ended"]
        /\ UNCHANGED <<disk, archive, flavorOf, active, previous, flavor, lock, legacy, system, gc, run,
                       swept>>
    BY <1>1 DEF Download, GiveUp, Goto, settings, world
  <2>2. flavor' \in {"minimal", "busybox", "full"}
    BY <2>1 DEF TypeOK
  <2>3. {"gc", "ended"} \subseteq PCs \ {"idle", "running"} /\ {"gc", "ended"} \cap InFlightPCs = {}
    BY DEF PCs, InFlightPCs
  <2>4. PICK l \in {"gc", "ended"} :
           pc' = [pc EXCEPT ![p] = l] /\ (l = "gc" => p \in Updaters)
    BY <2>1
  <2> QED
    BY <2>1, <2>2, <2>3, <2>4, MoveKeeps
<1>2. CASE /\ disk[p] # "none"
           /\ \E content \in {"good", "bad"} : archive' = [archive EXCEPT ![p] = content]
           /\ Goto(p, "verify")
  <2>1. /\ pc[p] = "download" /\ pc' = [pc EXCEPT ![p] = "verify"]
        /\ UNCHANGED <<disk, flavorOf, active, previous, flavor, lock, legacy, system, todo, doomed,
                       using, demotions, swept>>
    BY <1>2 DEF Download, Goto, settings, world, gc, run
  <2>2. /\ pc' \in [Procs -> PCs] /\ pc'[p] = "verify"
        /\ \A q \in Procs : q # p => pc'[q] = pc[q]
        /\ archive' \in [Installs -> {"none", "good", "bad"}]
        /\ \A i \in Installs : i # p => archive'[i] = archive[i]
    BY <1>2, <2>1 DEF TypeOK, PCs, InFlightPCs
  <2>3. p \notin Named /\ Named' = Named /\ \A q \in Procs : p \notin doomed[q]
    BY <2>1 DEF Good, Fresh, InFlightPCs, Named
  <2>4. TypeOK'
    BY <2>1, <2>2 DEF TypeOK
  <2>5. Places'
    BY <2>1, <2>2 DEF Good, Places
  <2>6. Fresh'
    BY <1>2, <2>1, <2>2, <2>3 DEF Good, Fresh, InFlightPCs
  <2>7. Sweeps' /\ NamedOnDisk' /\ OnlyVerifiedNamed'
    BY <2>1, <2>2, <2>3 DEF Good, Sweeps, NamedOnDisk, OnlyVerifiedNamed
  <2>8. \A c \in Commands : pc'[c] = "running" <=> pc[c] = "running"
    BY <2>1, <2>2
  <2>9. Uses' /\ InUseSurvivesOneDemotion'
    BY <2>1, <2>8 DEF Good, Uses, InUseSurvivesOneDemotion, Intact
  <2> QED
    BY <2>4, <2>5, <2>6, <2>7, <2>9 DEF Good
<1> QED
  BY <1>1, <1>2 DEF Download

\* Only the process' own directory changes, which nothing names yet.
LEMMA ExtractKeeps ==
  ASSUME TypeOK, Good, NEW p \in Procs, Extract(p)
  PROVE  TypeOK' /\ Good'
<1> USE NamesFacts
<1>1. /\ pc[p] = "extract"
      /\ UNCHANGED <<archive, flavorOf, active, previous, flavor, lock, legacy, system, todo, doomed,
                     using, demotions, swept>>
  BY DEF Extract, settings, world, gc, run
<1>2. PICK d \in {"partial", "half", "whole"}, l \in {"activate", "gc", "ended"} :
         /\ disk' = [disk EXCEPT ![p] = d] /\ pc' = [pc EXCEPT ![p] = l]
         /\ l = "activate" => (p \notin swept => d = "whole")
         /\ l = "gc" => p \in Updaters
  <2>1. CASE /\ \E left \in IF p \in swept THEN {"half", "whole"} ELSE {"whole"} :
                   disk' = [disk EXCEPT ![p] = left]
             /\ Goto(p, "activate")
    BY <2>1 DEF Goto
  <2>2. CASE (\E left \in {"partial", "half"} : disk' = [disk EXCEPT ![p] = left]) /\ GiveUp(p)
    BY <2>2 DEF GiveUp, Goto
  <2> QED
    BY <2>1, <2>2 DEF Extract
<1>3. /\ pc' \in [Procs -> PCs] /\ pc'[p] = l
      /\ \A q \in Procs : q # p => pc'[q] = pc[q]
      /\ disk' \in [Installs -> {"none", "partial", "half", "whole"}] /\ disk'[p] = d
      /\ \A i \in Installs : i # p => disk'[i] = disk[i]
  BY <1>2 DEF TypeOK, PCs, InFlightPCs
<1>4. p \notin Named /\ Named' = Named /\ \A q \in Procs : p \notin doomed[q]
  BY <1>1 DEF Good, Fresh, InFlightPCs, Named
<1>5. TypeOK'
  BY <1>1, <1>3 DEF TypeOK
<1>6. Places'
  BY <1>1, <1>2, <1>3 DEF Good, Places
<1>7. Fresh'
  BY <1>1, <1>2, <1>3, <1>4 DEF Good, Fresh, InFlightPCs
<1>8. Sweeps'
  BY <1>1, <1>3, <1>4 DEF TypeOK, Good, Sweeps
<1>9. NamedOnDisk' /\ OnlyVerifiedNamed'
  BY <1>1, <1>3, <1>4 DEF Good, NamedOnDisk, OnlyVerifiedNamed
<1>10. \A c \in Commands : pc'[c] = "running" <=> pc[c] = "running"
  BY <1>1, <1>2, <1>3
<1>11. Uses'
  BY <1>1, <1>10 DEF Good, Uses
<1>12. ASSUME NEW c \in Commands, pc[c] = "running", using[c] \in Installs, demotions[c] <= 1
       PROVE  Intact(using[c])'
  <2>1. using[c] # p
    BY <1>4, <1>12, UsedIsNamed DEF Good
  <2>2. Intact(using[c])
    BY <1>12 DEF Good, InUseSurvivesOneDemotion
  <2> QED
    BY <1>1, <1>3, <1>12, <2>1, <2>2 DEF Intact
<1>13. InUseSurvivesOneDemotion'
  BY <1>1, <1>10, <1>12 DEF InUseSurvivesOneDemotion, Intact
<1> QED
  BY <1>5, <1>6, <1>7, <1>8, <1>9, <1>11, <1>13 DEF Good

\* No collector is listing or sweeping then: the lock is free.
LEMMA ActivateKeeps ==
  ASSUME TypeOK, Good, NEW p \in Procs, Activate(p)
  PROVE  TypeOK' /\ Good'
<1> USE NamesFacts
<1>1. /\ pc[p] = "activate" /\ lock = None
      /\ UNCHANGED <<disk, archive, flavorOf, flavor, lock, legacy, system, todo, doomed, using,
                     swept>>
  BY DEF Activate, world, gc
<1>2. PICK l \in {"gc", "retry", "ended", "persist"} :
         /\ pc' = [pc EXCEPT ![p] = l]
         /\ l = "gc" => p \in Updaters
         /\ l = "persist" => flavorOf[p] # "latest"
  BY InstallsAssumption DEF Activate, AfterActivate, Goto, Procs
<1>3. p \notin Named /\ p # None /\ p # Legacy
  BY <1>1 DEF Good, Fresh, InFlightPCs
<1>4. /\ previous' = active /\ active' = p
      /\ demotions' = [c \in Procs |-> IF pc[c] = "running" THEN demotions[c] + 1 ELSE demotions[c]]
  BY <1>3 DEF Activate, SetActive, Named
<1>5. /\ pc' \in [Procs -> PCs] /\ pc'[p] = l
      /\ \A q \in Procs : q # p => pc'[q] = pc[q]
  BY <1>2 DEF TypeOK, PCs
<1>6. \A q \in Procs : todo[q] = {} /\ doomed[q] = {} /\ pc[q] \notin {"list", "sweep"}
  BY <1>1 DEF Good, Places
<1>7. Named' \subseteq Named \cup {p}
  BY <1>4 DEF Named
<1>8. /\ demotions' \in [Procs -> Nat]
      /\ \A c \in Procs : pc[c] = "running" => demotions'[c] = demotions[c] + 1
  BY <1>4 DEF TypeOK
<1>9. TypeOK'
  BY <1>1, <1>4, <1>5, <1>8 DEF TypeOK
<1>10. Places'
  BY <1>1, <1>2, <1>5 DEF Good, Places
<1>11. Fresh'
  <2>1. \A q \in Procs : q # p /\ q \notin Named => q \notin Named'
    BY <1>7
  <2>2. l \notin {"idle"} \cup InFlightPCs
    BY DEF InFlightPCs
  <2> QED
    BY <1>1, <1>5, <2>1, <2>2 DEF Good, Fresh, InFlightPCs
<1>12. Sweeps'
  BY <1>1, <1>6 DEF Sweeps
<1>13. ASSUME NEW c \in Commands, pc'[c] = "running", using[c] \in Installs
       PROVE  /\ demotions'[c] # 0
              /\ demotions'[c] = 1 => using[c] = previous'
              /\ demotions'[c] <= 1 => Intact(using[c])
  <2>1. pc[c] = "running" /\ demotions'[c] = demotions[c] + 1 /\ demotions[c] \in Nat
    BY <1>2, <1>5, <1>8, <1>13 DEF TypeOK
  <2>2. demotions[c] = 0 => using[c] = active /\ Intact(using[c])
    BY <1>13, <2>1 DEF Good, Uses, InUseSurvivesOneDemotion, Intact
  <2> QED
    BY <1>4, <2>1, <2>2
<1>14. Uses' /\ InUseSurvivesOneDemotion'
  BY <1>1, <1>13 DEF Uses, InUseSurvivesOneDemotion, Intact
<1>15. NamedOnDisk'
  <2>1. \A i \in (Named \cup {p}) \cap Installs : i \notin swept => disk[i] = "whole"
    BY <1>1 DEF Good, Fresh, NamedOnDisk
  <2> QED
    BY <1>1, <1>7, <2>1 DEF NamedOnDisk
<1>16. OnlyVerifiedNamed'
  <2>1. flavorOf[p] = "latest" \/ archive[p] = "good"
    BY <1>1 DEF Good, Fresh
  <2> QED
    BY <1>1, <1>7, <2>1 DEF Good, OnlyVerifiedNamed
<1> QED
  BY <1>9, <1>10, <1>11, <1>12, <1>14, <1>15, <1>16 DEF Good

-----------------------------------------------------------------------------
(* The collector.                                                            *)

LEMMA ListKeeps ==
  ASSUME TypeOK, Good, NEW p \in Procs, GcList(p)
  PROVE  TypeOK' /\ Good'
<1> USE NamesFacts
<1>1. /\ pc[p] = "list" /\ pc' = [pc EXCEPT ![p] = "sweep"]
      /\ todo' = [todo EXCEPT ![p] = OnDisk \ Named]
      /\ doomed' = [doomed EXCEPT ![p] = {i \in OnDisk \ Named : ~InFlight(i)}]
      /\ UNCHANGED <<disk, archive, flavorOf, active, previous, flavor, lock, legacy, system,
                     using, demotions, swept>>
  BY DEF GcList, Goto, settings, world, run
<1>2. /\ pc' \in [Procs -> PCs] /\ pc'[p] = "sweep"
      /\ \A q \in Procs : q # p => pc'[q] = pc[q] /\ todo'[q] = todo[q] /\ doomed'[q] = doomed[q]
      /\ todo'[p] = OnDisk \ Named /\ doomed'[p] = {i \in OnDisk \ Named : ~InFlight(i)}
      /\ todo' \in [Procs -> SUBSET Installs] /\ doomed' \in [Procs -> SUBSET Installs]
  BY <1>1 DEF TypeOK, PCs, OnDisk
<1>3. Named' = Named
  BY <1>1 DEF Named
<1>4. TypeOK'
  BY <1>1, <1>2 DEF TypeOK
<1>5. Places'
  BY <1>1, <1>2 DEF Good, Places
<1>6. Fresh'
  <2>1. ASSUME NEW q \in Procs, pc[q] \in {"idle"} \cup InFlightPCs PROVE q \notin doomed'[p]
    BY <1>2, <2>1 DEF Good, Fresh, OnDisk, InFlight
  <2>5. ASSUME NEW q \in Procs, pc[q] = "idle", NEW r \in Procs PROVE q \notin todo'[r]
    BY <1>2, <2>5 DEF Good, Fresh, OnDisk
  <2>2. \A q \in Procs : pc'[q] \in {"idle"} \cup InFlightPCs => q # p
    BY <1>2 DEF InFlightPCs
  <2>3. ASSUME NEW q \in Procs, pc[q] \in {"idle"} \cup InFlightPCs, NEW r \in Procs
        PROVE  q \notin doomed'[r]
    BY <1>2, <2>1, <2>3 DEF Good, Fresh
  <2>4. \A q \in Procs : pc'[q] \in {"idle", "extract", "activate", "download", "verify"} => pc'[q] = pc[q]
    BY <1>2
  <2> QED
    BY <1>1, <1>3, <2>3, <2>4, <2>5 DEF Good, Fresh, InFlightPCs
<1>7. Sweeps'
  BY <1>1, <1>2, <1>3 DEF Good, Sweeps
<1>8. NamedOnDisk' /\ OnlyVerifiedNamed'
  BY <1>1, <1>3 DEF Good, NamedOnDisk, OnlyVerifiedNamed
<1>9. \A c \in Commands : pc'[c] = "running" <=> pc[c] = "running"
  BY <1>1, <1>2
<1>10. Uses' /\ InUseSurvivesOneDemotion'
  BY <1>1, <1>9 DEF Good, Uses, InUseSurvivesOneDemotion, Intact
<1> QED
  BY <1>4, <1>5, <1>6, <1>7, <1>8, <1>10 DEF Good

\* A directory goes that nothing has named since it was listed.
LEMMA SweepKeeps ==
  ASSUME TypeOK, Good, NEW p \in Procs, GcSweep(p)
  PROVE  TypeOK' /\ Good' /\ Named' = Named
         /\ \E i \in Installs \ Named : \A j \in Installs : j # i => disk'[j] = disk[j]
<1> USE NamesFacts
<1>1. PICK i \in todo[p] :
         /\ \/ /\ disk[i] # "none"
               /\ \E left \in {"partial", "half"} :
                     /\ left = "partial" => ~InUse(i)
                     /\ left = "half" => disk[i] # "partial"
                     /\ disk' = [disk EXCEPT ![i] = left]
               /\ UNCHANGED <<todo, doomed>>
            \/ /\ ~InUse(i)
               /\ disk' = [disk EXCEPT ![i] = "none"]
               /\ todo' = [todo EXCEPT ![p] = @ \ {i}]
               /\ UNCHANGED doomed
            \/ /\ InUse(i)
               /\ todo' = [todo EXCEPT ![p] = @ \ {i}]
               /\ doomed' = [doomed EXCEPT ![p] = @ \ {i}]
               /\ UNCHANGED disk
         /\ swept' = IF InFlight(i) THEN swept \cup {i} ELSE swept
  BY DEF GcSweep
<1>2. /\ pc[p] = "sweep"
      /\ UNCHANGED <<archive, flavorOf, active, previous, flavor, lock, legacy, system, pc, using, demotions>>
  BY DEF GcSweep, settings, world, run
<1>3. i \in Installs /\ i \notin Named /\ Named' = Named
  BY <1>1, <1>2 DEF TypeOK, Good, Sweeps, Named
<1>4. /\ disk' \in [Installs -> {"none", "partial", "half", "whole"}]
      /\ \A j \in Installs : j # i => disk'[j] = disk[j]
      /\ todo' \in [Procs -> SUBSET Installs] /\ doomed' \in [Procs -> SUBSET Installs]
      /\ \A q \in Procs : q # p => todo'[q] = todo[q] /\ doomed'[q] = doomed[q]
      /\ todo'[p] \subseteq todo[p] /\ todo[p] \ {i} \subseteq todo'[p]
      /\ doomed'[p] \subseteq doomed[p]
      /\ i \in todo'[p] \/ disk'[i] = "none" \/ i \notin doomed'[p]
  <2>1. CASE /\ \E left \in {"partial", "half"} : disk' = [disk EXCEPT ![i] = left]
             /\ UNCHANGED <<todo, doomed>>
    <3>1. PICK left \in {"partial", "half"} : disk' = [disk EXCEPT ![i] = left]
      BY <2>1
    <3> QED
      BY <1>1, <1>3, <2>1, <3>1 DEF TypeOK
  <2>2. CASE /\ disk' = [disk EXCEPT ![i] = "none"] /\ UNCHANGED doomed
             /\ todo' = [todo EXCEPT ![p] = @ \ {i}]
    <3>1. /\ todo' \in [Procs -> SUBSET Installs] /\ todo'[p] = todo[p] \ {i}
          /\ \A q \in Procs : q # p => todo'[q] = todo[q]
      BY <2>2 DEF TypeOK
    <3>2. /\ disk' \in [Installs -> {"none", "partial", "half", "whole"}] /\ disk'[i] = "none"
          /\ \A j \in Installs : j # i => disk'[j] = disk[j]
      BY <1>3, <2>2 DEF TypeOK
    <3> QED
      BY <2>2, <3>1, <3>2 DEF TypeOK
  <2>3. CASE /\ todo' = [todo EXCEPT ![p] = @ \ {i}] /\ UNCHANGED disk
             /\ doomed' = [doomed EXCEPT ![p] = @ \ {i}]
    <3>1. /\ todo' \in [Procs -> SUBSET Installs] /\ todo'[p] = todo[p] \ {i}
          /\ \A q \in Procs : q # p => todo'[q] = todo[q]
      BY <2>3 DEF TypeOK
    <3>2. /\ doomed' \in [Procs -> SUBSET Installs] /\ doomed'[p] = doomed[p] \ {i}
          /\ \A q \in Procs : q # p => doomed'[q] = doomed[q]
      BY <2>3 DEF TypeOK
    <3> QED
      BY <2>3, <3>1, <3>2 DEF TypeOK
  <2> QED
    BY <1>1, <2>1, <2>2, <2>3
<1>5. swept' \subseteq Procs /\ swept \subseteq swept' /\ (i \in swept' \/ ~InFlight(i))
  <2>1. CASE InFlight(i)
    BY <1>1, <2>1 DEF InFlight, TypeOK
  <2>2. CASE ~InFlight(i)
    BY <1>1, <2>2 DEF TypeOK
  <2> QED
    BY <2>1, <2>2
<1>6. TypeOK'
  BY <1>2, <1>4, <1>5 DEF TypeOK
<1>7. Places'
  <2>1. \A q \in Procs : (todo'[q] # {} => todo[q] # {}) /\ (doomed'[q] # {} => doomed[q] # {})
    BY <1>4
  <2> QED
    BY <1>2, <2>1 DEF Good, Places
<1>8. Fresh'
  <2> SUFFICES ASSUME NEW q \in Procs
               PROVE  /\ pc[q] = "idle" => disk'[q] = "none" /\ \A r \in Procs : q \notin todo'[r]
                      /\ pc[q] \in {"idle"} \cup InFlightPCs => \A r \in Procs : q \notin doomed'[r]
                      /\ pc[q] \in InFlightPCs /\ q \notin swept' => disk'[q] = disk[q] /\ q \notin swept
    BY <1>2, <1>3 DEF Good, Fresh, InFlightPCs
  <2>1. \A r \in Procs : todo'[r] \subseteq todo[r] /\ doomed'[r] \subseteq doomed[r]
    BY <1>4
  <2>2. pc[q] = "idle" => q # i /\ disk[q] = "none" /\ \A r \in Procs : q \notin todo[r]
    BY <1>1 DEF Good, Fresh
  <2>3. pc[q] \in {"idle"} \cup InFlightPCs => \A r \in Procs : q \notin doomed[r]
    BY DEF Good, Fresh
  <2>4. pc[q] \in InFlightPCs /\ q \notin swept' => q # i /\ q \notin swept
    BY <1>5 DEF InFlight
  <2> QED
    BY <1>4, <2>1, <2>2, <2>3, <2>4
<1>9. Sweeps'
  <2>1. \A q \in Procs : q # p => todo[q] = {} /\ doomed[q] = {}
    BY <1>2 DEF Good, Places
  <2>2. \A j \in doomed'[p] \ todo'[p] : disk'[j] = "none"
    BY <1>4 DEF TypeOK, Good, Sweeps
  <2> QED
    BY <1>3, <1>4, <2>1, <2>2 DEF Good, Sweeps
<1>10. NamedOnDisk' /\ OnlyVerifiedNamed'
  BY <1>2, <1>3, <1>4, <1>5 DEF Good, NamedOnDisk, OnlyVerifiedNamed
<1>11. Uses'
  BY <1>2 DEF Good, Uses
<1>12. InUseSurvivesOneDemotion'
  <2> SUFFICES ASSUME NEW c \in Commands, pc[c] = "running", using[c] \in Installs, demotions[c] <= 1
               PROVE  Intact(using[c])'
    BY <1>2 DEF InUseSurvivesOneDemotion, Intact
  <2>1. using[c] # i /\ Intact(using[c])
    BY <1>3, UsedIsNamed DEF Good, InUseSurvivesOneDemotion
  <2> QED
    BY <1>2, <1>4, <1>5, <2>1 DEF Intact
<1> QED
  BY <1>3, <1>4, <1>6, <1>7, <1>8, <1>9, <1>10, <1>11, <1>12 DEF Good

LEMMA EndKeeps ==
  ASSUME TypeOK, Good, NEW p \in Procs, GcEnd(p)
  PROVE  TypeOK' /\ Good'
<1> USE NamesFacts
<1>1. /\ pc[p] = "sweep" /\ todo[p] = {} /\ pc' = [pc EXCEPT ![p] = "ended"]
      /\ lock' = None /\ doomed' = [doomed EXCEPT ![p] = {}]
      /\ UNCHANGED <<disk, archive, flavorOf, active, previous, flavor, legacy, system, todo,
                     using, demotions, swept>>
  BY DEF GcEnd, Goto, settings, world, run
<1>2. /\ pc' \in [Procs -> PCs] /\ pc'[p] = "ended" /\ doomed'[p] = {}
      /\ \A q \in Procs : q # p => pc'[q] = pc[q] /\ doomed'[q] = doomed[q]
      /\ doomed' \in [Procs -> SUBSET Installs]
  BY <1>1 DEF TypeOK, PCs
<1>3. lock = p /\ Named' = Named
  BY <1>1 DEF Good, Places, Named
<1>4. TypeOK'
  BY <1>1, <1>2 DEF TypeOK
<1>5. Places'
  BY <1>1, <1>2, <1>3 DEF Good, Places
<1>6. Fresh'
  BY <1>1, <1>2, <1>3 DEF Good, Fresh, InFlightPCs
<1>7. Sweeps' /\ NamedOnDisk' /\ OnlyVerifiedNamed'
  BY <1>1, <1>2, <1>3 DEF Good, Sweeps, NamedOnDisk, OnlyVerifiedNamed
<1>8. \A c \in Commands : pc'[c] = "running" <=> pc[c] = "running"
  BY <1>1, <1>2
<1>9. Uses' /\ InUseSurvivesOneDemotion'
  BY <1>1, <1>8 DEF Good, Uses, InUseSurvivesOneDemotion, Intact
<1> QED
  BY <1>4, <1>5, <1>6, <1>7, <1>9 DEF Good

-----------------------------------------------------------------------------
(* Every step.                                                               *)

LEMMA GoodNext == TypeOK /\ Good /\ [Next]_vars => TypeOK' /\ Good'
<1> SUFFICES ASSUME TypeOK, Good, [Next]_vars PROVE TypeOK' /\ Good'
  OBVIOUS
<1> USE NamesFacts
<1>a. flavor \in {"minimal", "busybox", "full"} /\ pc \in [Procs -> PCs]
  BY DEF TypeOK
<1>b. /\ {"gc", "ended", "adopt", "extract", "retry", "persist", "list"} \subseteq PCs \ {"idle", "running"}
      /\ {"gc", "ended", "adopt", "retry", "persist", "list", "idle"} \cap InFlightPCs = {}
      /\ {"verify", "extract", "activate", "download"} \subseteq InFlightPCs
  BY DEF PCs, InFlightPCs
<1>1. ASSUME NEW p \in Procs, FetchGit(p) PROVE TypeOK' /\ Good'
  <2>1. PICK f \in Flavors \cup {flavor} : StartInstall(p, f)
    BY <1>1 DEF FetchGit
  <2>2. f \in {"minimal", "busybox", "full", "latest"}
    BY <1>a, InstallsAssumption
  <2> QED
    BY <1>1, <2>1, <2>2, StartKeeps DEF FetchGit
<1>2. ASSUME NEW p \in Procs, BackendUpdate(p) PROVE TypeOK' /\ Good'
  <2>1. /\ p \in Updaters /\ pc[p] = "idle"
        /\ UNCHANGED <<archive, settings, lock, world, gc, run, swept>>
    BY <1>2 DEF BackendUpdate
  <2>2. CASE Goto(p, "gc") /\ UNCHANGED <<disk, flavorOf>>
    <3>1. /\ pc' = [pc EXCEPT ![p] = "gc"]
          /\ UNCHANGED <<disk, archive, flavorOf, active, previous, legacy, system, gc, run,
                         swept, lock>>
          /\ flavor' \in {"minimal", "busybox", "full"}
      BY <1>a, <2>1, <2>2 DEF Goto, settings, world
    <3> QED
      BY <1>b, <2>1, <3>1, MoveKeeps
  <2>3. CASE StartInstall(p, "minimal")
    BY <2>1, <2>3, StartKeeps
  <2> QED
    BY <1>2, <2>2, <2>3 DEF BackendUpdate
<1>3. ASSUME NEW p \in Procs, Resolve(p) PROVE TypeOK' /\ Good'
  <2>1. /\ p \in Commands /\ pc[p] \in {"idle", "retry"}
        /\ UNCHANGED <<archive, settings, lock, world, gc, swept>>
    BY <1>3 DEF Resolve
  <2>2. CASE ActiveUsable /\ Run(p, active) /\ UNCHANGED <<disk, flavorOf>>
    <3>1. active \in Installs => Intact(active)
      BY <2>2 DEF ActiveUsable, Good, NamedOnDisk, Named, Intact
    <3>2. UNCHANGED <<disk, archive, flavorOf, previous, flavor, lock, world, gc, swept>> /\ active' = active
      BY <2>1, <2>2 DEF settings
    <3> QED
      BY <2>1, <2>2, <3>1, <3>2, RunKeeps
  <2>3. CASE system /\ Run(p, System) /\ UNCHANGED <<disk, flavorOf>>
    <3>1. UNCHANGED <<disk, archive, flavorOf, previous, flavor, lock, world, gc, swept>> /\ active' = active
      BY <2>1, <2>3 DEF settings
    <3> QED
      BY <2>1, <2>3, <3>1, RunKeeps
  <2>4. CASE /\ \E l \in {"adopt", "ended"} : Goto(p, l)
             /\ UNCHANGED <<disk, flavorOf, run>>
    <3>1. PICK l \in {"adopt", "ended"} : pc' = [pc EXCEPT ![p] = l]
      BY <2>4 DEF Goto
    <3>2. /\ UNCHANGED <<disk, archive, flavorOf, active, previous, legacy, system, gc, run,
                         swept, lock>>
          /\ flavor' \in {"minimal", "busybox", "full"}
      BY <1>a, <2>1, <2>4 DEF settings, world
    <3> QED
      BY <1>b, <2>1, <3>1, <3>2, MoveKeeps
  <2>5. CASE pc[p] = "idle" /\ StartInstall(p, flavor) /\ UNCHANGED run
    BY <1>a, <2>1, <2>5, StartKeeps
  <2> QED
    BY <1>3, <2>1, <2>2, <2>3, <2>4, <2>5 DEF Resolve
<1>4. ASSUME NEW p \in Procs, Verify(p) PROVE TypeOK' /\ Good'
  <2>1. /\ pc[p] = "verify"
        /\ UNCHANGED <<disk, archive, flavorOf, active, previous, legacy, system, gc, run, swept,
                       lock>>
        /\ flavor' \in {"minimal", "busybox", "full"}
    BY <1>4, <1>a DEF Verify, settings, world
  <2>2. PICK l \in {"extract", "gc", "ended"} :
           /\ pc' = [pc EXCEPT ![p] = l]
           /\ l = "extract" => disk[p] # "none" /\ (archive[p] = "good" \/ flavorOf[p] = "latest")
           /\ l = "gc" => p \in Updaters
    BY <1>4 DEF Verify, GiveUp, Goto
  <2> QED
    BY <1>b, <2>1, <2>2, MoveKeeps
<1>5. ASSUME NEW p \in Procs, ActivateFails(p) PROVE TypeOK' /\ Good'
  <2>1. /\ pc[p] = "activate"
        /\ UNCHANGED <<disk, archive, flavorOf, active, previous, legacy, system, gc, run, swept,
                       lock>>
        /\ flavor' \in {"minimal", "busybox", "full"}
    BY <1>5, <1>a DEF ActivateFails, settings, world
  <2>2. PICK l \in {"gc", "retry", "ended", "persist"} :
           /\ pc' = [pc EXCEPT ![p] = l]
           /\ l = "gc" => p \in Updaters
           /\ l = "persist" => flavorOf[p] # "latest"
    BY <1>5, InstallsAssumption DEF ActivateFails, AfterActivate, Goto, Procs
  <2> QED
    BY <1>b, <2>1, <2>2, MoveKeeps
<1>6. ASSUME NEW p \in Procs, PersistFlavor(p) PROVE TypeOK' /\ Good'
  <2>1. /\ pc[p] = "persist" /\ pc' = [pc EXCEPT ![p] = "ended"]
        /\ UNCHANGED <<disk, archive, flavorOf, active, previous, legacy, system, gc, run, swept,
                       lock>>
        /\ flavor' \in {flavor, flavorOf[p]}
    BY <1>6 DEF PersistFlavor, Goto, world
  <2>2. flavorOf[p] \in {"minimal", "busybox", "full"}
    BY <2>1 DEF TypeOK, Good, Places
  <2> QED
    BY <1>a, <1>b, <2>1, <2>2, MoveKeeps
<1>7. ASSUME NEW p \in Procs, Adopt(p) PROVE TypeOK' /\ Good'
  <2>1. /\ pc[p] = "adopt" /\ Run(p, Legacy)
        /\ active' = active \/ (lock = None /\ active = None /\ active' = Legacy)
        /\ UNCHANGED <<disk, archive, flavorOf, previous, flavor, lock, world, gc, swept>>
    BY <1>7 DEF Adopt
  <2>2. p \in Commands
    BY <2>1 DEF Good, Places
  <2> QED
    BY <2>1, <2>2, RunKeeps
<1>8. ASSUME NEW p \in Procs, CommandEnds(p) PROVE TypeOK' /\ Good'
  <2>1. pc[p] = "running"
    BY <1>8 DEF CommandEnds
  <2>2. lock # p /\ todo[p] = {} /\ doomed[p] = {}
    BY <2>1 DEF Good, Places
  <2>3. /\ todo' = [todo EXCEPT ![p] = {}] /\ doomed' = [doomed EXCEPT ![p] = {}]
        /\ lock' = (IF lock = p THEN None ELSE lock)
    BY <1>8, <2>2 DEF CommandEnds, gc, TypeOK
  <2> QED
    BY <1>8, <2>3, LeaveKeeps DEF CommandEnds, Goto
<1>9. ASSUME NEW p \in Procs, GcBegin(p) PROVE TypeOK' /\ Good'
  <2>1. /\ pc[p] = "gc"
        /\ UNCHANGED <<disk, archive, flavorOf, active, previous, legacy, system, gc, run, swept>>
        /\ flavor' \in {"minimal", "busybox", "full"}
    BY <1>9, <1>a DEF GcBegin, settings, world
  <2>2. p \in Updaters
    BY <2>1 DEF Good, Places
  <2>3. CASE lock = None /\ lock' = p /\ pc' = [pc EXCEPT ![p] = "list"]
    BY <1>b, <2>1, <2>2, <2>3, MoveKeeps
  <2>4. CASE pc' = [pc EXCEPT ![p] = "ended"] /\ UNCHANGED lock
    BY <1>b, <2>1, <2>4, MoveKeeps
  <2> QED
    BY <1>9, <2>3, <2>4 DEF GcBegin, Goto
<1>10. ASSUME NEW p \in Procs, Crash(p) PROVE TypeOK' /\ Good'
  BY <1>10, LeaveKeeps DEF Crash, Goto
<1>11. ASSUME UNCHANGED vars PROVE TypeOK' /\ Good'
  <2>1. UNCHANGED <<disk, archive, flavorOf, active, previous, flavor, lock, legacy, system,
                    pc, todo, doomed, using, demotions, swept>>
    BY <1>11 DEF vars
  <2>2. TypeOK' /\ Named' = Named
    BY <2>1 DEF TypeOK, Named
  <2>3. Places' /\ Fresh' /\ Sweeps' /\ Uses'
    BY <2>1, <2>2 DEF Good, Places, Fresh, Sweeps, Uses
  <2>4. NamedOnDisk' /\ OnlyVerifiedNamed' /\ InUseSurvivesOneDemotion'
    BY <2>1, <2>2 DEF Good, NamedOnDisk, OnlyVerifiedNamed, InUseSurvivesOneDemotion, Intact
  <2> QED
    BY <2>2, <2>3, <2>4 DEF Good
<1> QED
  BY <1>1, <1>2, <1>3, <1>4, <1>5, <1>6, <1>7, <1>8, <1>9, <1>10, <1>11,
     DownloadKeeps, ExtractKeeps, ActivateKeeps, ListKeeps, SweepKeeps, EndKeeps DEF Next, Finished

LEMMA GoodHolds == Spec => [](TypeOK /\ Good)
  BY GoodInit, GoodNext, PTL DEF Spec

\* Whatever downloads, activations, sweeps and deaths interleave, settings.json
\* names only installs whose archive was the right one, and which are whole,
\* unless a sweep found one in flight (activate, gc_installs, verify_sha256).
THEOREM NamedSound == Spec => []NamedIsSound
<1>1. TypeOK /\ Good => NamedIsSound
  BY DEF Good, NamedIsSound
<1> QED
  BY <1>1, GoodHolds, PTL

\* A sweep that ends leaves nothing that was superseded when it began, and the
\* git a command runs outlives one demotion (gc_sweep, active_keep_set).
THEOREM SweepExact == Spec => []SweepIsExact
<1>1. TypeOK /\ Good => SweepIsExact
  BY DEF Good, Sweeps, SweepIsExact, SweepIsComplete
<1> QED
  BY <1>1, GoodHolds, PTL

\* No step takes a named install off the disk, and an adoption never replaces
\* an install that was activated (gc_installs, resolve_managed_git).
THEOREM Stands == Spec => ActivationStands
<1> DEFINE Spares == \A i \in Installs : disk'[i] # disk[i] => i \notin Named
           Waits == active' = Legacy /\ active # Legacy => active = None
<1>1. TypeOK /\ Good /\ [Next]_vars => Spares
  <2> SUFFICES ASSUME TypeOK, Good, [Next]_vars PROVE Spares
    OBVIOUS
  <2> USE NamesFacts
  <2>1. ASSUME NEW p \in Procs, pc[p] \in {"idle", "extract"},
               \A i \in Installs : i # p => disk'[i] = disk[i]
        PROVE  Spares
    BY <2>1 DEF Good, Fresh, InFlightPCs
  <2>2. ASSUME NEW p \in Procs, NEW f, pc[p] = "idle", StartInstall(p, f) PROVE Spares
    <3>1. \A i \in Installs : i # p => disk'[i] = disk[i]
      BY <2>2 DEF StartInstall, TypeOK
    <3> QED
      BY <2>1, <2>2, <3>1
  <2>3. ASSUME NEW p \in Procs, Extract(p) PROVE Spares
    <3>1. pc[p] = "extract" /\ \A i \in Installs : i # p => disk'[i] = disk[i]
      BY <2>3 DEF Extract, TypeOK
    <3> QED
      BY <2>1, <3>1
  <2>4. ASSUME NEW p \in Procs, GcSweep(p) PROVE Spares
    BY <2>4, SweepKeeps
  <2>5. CASE UNCHANGED disk
    BY <2>5
  <2>6. ASSUME NEW p \in Procs, FetchGit(p) \/ BackendUpdate(p) \/ Resolve(p)
        PROVE  \/ UNCHANGED disk
               \/ pc[p] = "idle" /\ \E f \in Flavors \cup {flavor, "minimal"} : StartInstall(p, f)
    <3>1. CASE FetchGit(p)
      BY <3>1 DEF FetchGit
    <3>2. CASE BackendUpdate(p)
      <4>1. pc[p] = "idle" /\ (StartInstall(p, "minimal") \/ UNCHANGED disk)
        BY <3>2 DEF BackendUpdate
      <4> QED
        BY <4>1
    <3>3. CASE Resolve(p)
      <4>1. UNCHANGED disk \/ (pc[p] = "idle" /\ StartInstall(p, flavor))
        BY <3>3 DEF Resolve
      <4> QED
        BY <4>1
    <3> QED
      BY <2>6, <3>1, <3>2, <3>3
  <2>7. ASSUME NEW p \in Procs,
               \/ Download(p) \/ Verify(p) \/ Activate(p) \/ ActivateFails(p) \/ PersistFlavor(p)
               \/ Adopt(p) \/ CommandEnds(p) \/ GcBegin(p) \/ GcList(p) \/ GcEnd(p) \/ Crash(p)
        PROVE  UNCHANGED disk
    BY <2>7 DEF Download, Verify, Activate, ActivateFails, PersistFlavor, Adopt, CommandEnds,
       GcBegin, GcList, GcEnd, Crash
  <2> QED
    BY <2>2, <2>3, <2>4, <2>5, <2>6, <2>7 DEF Next, Finished, vars
<1>2. TypeOK /\ Good /\ [Next]_vars => Waits
  <2> SUFFICES ASSUME [Next]_vars PROVE Waits
    OBVIOUS
  <2>1. ASSUME NEW p \in Procs, Activate(p) PROVE Waits
    BY <2>1, NamesFacts DEF Activate, SetActive
  <2>2. ASSUME NEW p \in Procs, Adopt(p) PROVE Waits
    BY <2>2 DEF Adopt
  <2>3. CASE UNCHANGED settings
    BY <2>3 DEF settings
  <2>4. ASSUME NEW p \in Procs, PersistFlavor(p) PROVE Waits
    BY <2>4 DEF PersistFlavor
  <2>5. ASSUME NEW p \in Procs,
               \/ FetchGit(p) \/ BackendUpdate(p) \/ Resolve(p) \/ Download(p) \/ Verify(p) \/ Extract(p)
               \/ ActivateFails(p) \/ CommandEnds(p) \/ GcBegin(p) \/ GcList(p) \/ GcSweep(p)
               \/ GcEnd(p) \/ Crash(p)
        PROVE  UNCHANGED settings
    <3>1. CASE FetchGit(p) \/ Download(p) \/ Verify(p) \/ Extract(p) \/ ActivateFails(p)
      BY <3>1 DEF FetchGit, Download, Verify, Extract, ActivateFails
    <3>2. CASE BackendUpdate(p)
      BY <3>2 DEF BackendUpdate
    <3>3. CASE Resolve(p)
      BY <3>3 DEF Resolve
    <3>4. CASE CommandEnds(p) \/ GcBegin(p) \/ GcList(p) \/ GcSweep(p) \/ GcEnd(p) \/ Crash(p)
      BY <3>4 DEF CommandEnds, GcBegin, GcList, GcSweep, GcEnd, Crash
    <3> QED
      BY <2>5, <3>1, <3>2, <3>3, <3>4
  <2>6. UNCHANGED vars => UNCHANGED settings
    BY DEF vars, settings
  <2> QED
    BY <2>1, <2>2, <2>3, <2>4, <2>5, <2>6 DEF Next, Finished
<1>3. [][Spares]_vars /\ [][Waits]_vars => ActivationStands
  BY PTL DEF ActivationStands, SweepSparesNamed, AdoptionNeverWins
<1>4. Spec => [][Next]_vars
  BY PTL DEF Spec
<1> QED
  BY <1>1, <1>2, <1>3, <1>4, GoodHolds, PTL
=============================================================================
