------------------------------ MODULE Objects ------------------------------
(***************************************************************************)
(* Reading one git object beside a running `git gc`.                       *)
(*                                                                         *)
(* `gitobj` looks for a loose object first and then, through `gitpack`, in *)
(* the packs: it lists the index files, takes the first one that has the   *)
(* object, opens that pack and follows the chain of deltas to a whole      *)
(* object.  Whatever goes wrong on the way is a miss, never an error the   *)
(* callers act on.  Meanwhile gc writes a new pack, its index, removes the *)
(* loose objects it has packed, and the old packs.                         *)
(***************************************************************************)
EXTENDS Naturals, FiniteSets, FiniteSetsExt

CONSTANTS
  Oids,           \* object ids
  Kind,           \* the type of each object
  Big,            \* objects whose content is over the reader's max_bytes
  Packs,          \* pack names
  NewPack,        \* the pack that gc writes, which holds every object there is
  Entry,          \* Entry[p][o]: how pack p holds o
  LooseAtStart,   \* objects that are loose before gc
  Corrupt,        \* loose files that do not inflate
  MaxDeltaDepth,  \* MAX_DELTA_DEPTH
  NoPack          \* not a pack

Kinds == {"commit", "tree", "blob", "tag"}

\* The repository has o.
Stored(o) == o \in LooseAtStart \/ \E p \in Packs \ {NewPack} : o \in DOMAIN Entry[p]

ASSUME ObjectsAssumption ==
  /\ IsFiniteSet(Oids) /\ Oids # {}
  /\ Kind \in [Oids -> Kinds]
  /\ Big \subseteq Oids /\ LooseAtStart \subseteq Oids /\ Corrupt \subseteq Oids
  /\ NewPack \in Packs /\ NoPack \notin Packs
  /\ MaxDeltaDepth \in Nat
  /\ \A p \in Packs : \A o \in DOMAIN Entry[p] :
       /\ o \in Oids
       /\ Entry[p][o].how \in {"whole", "ofs", "ref"}
       /\ Entry[p][o].how # "whole" => Entry[p][o].base \in DOMAIN Entry[p]
  /\ {o \in Oids : Stored(o)} \subseteq DOMAIN Entry[NewPack]

VARIABLES
  loose,      \* objects with a loose file
  idxs,       \* packs whose .idx is there
  datas,      \* packs whose .pack is there
  read,       \* the read in progress
  disturbed   \* has a pack been removed since the read began?

store == <<loose, idxs, datas>>

Idle(o) == [at |-> "idle", oid |-> o, cur |-> o, todo |-> {}, pack |-> NoPack,
            depth |-> 0, found |-> FALSE]

ObjectsInit ==
  /\ loose = LooseAtStart
  /\ idxs = Packs \ {NewPack} /\ datas = idxs
  /\ read = Idle(CHOOSE o \in Oids : TRUE)
  /\ disturbed = FALSE

(***************************************************************************)
(* The reader.                                                             *)
(***************************************************************************)

StartRead(o) ==
  /\ read' = [Idle(o) EXCEPT !.at = "loose"]
  /\ disturbed' = FALSE

ReadEnds(found) == [read EXCEPT !.at = "done", !.found = found]

Quiet == UNCHANGED <<loose, idxs, datas, disturbed>>

\* A file that is not there, or is over the cap, sends the reader to the packs;
\* one that does not inflate is an error, and the packs are not tried.
ReadLoose ==
  /\ read.at = "loose"
  /\ read' = CASE read.oid \in loose \cap Corrupt -> ReadEnds(FALSE)
               [] read.oid \in loose \ (Big \cup Corrupt) -> ReadEnds(TRUE)
               [] OTHER -> [read EXCEPT !.at = "list"]
  /\ Quiet

\* read_dir of objects/pack.
ListPacks ==
  /\ read.at = "list"
  /\ read' = IF read.depth > MaxDeltaDepth THEN ReadEnds(FALSE)
             ELSE [read EXCEPT !.at = "lookup", !.todo = idxs]
  /\ Quiet

\* The indexes come in any order; one that is gone by now is passed over.
TryIdx(p) ==
  /\ read.at = "lookup" /\ p \in read.todo
  /\ read' = IF p \in idxs /\ read.cur \in DOMAIN Entry[p]
             THEN [read EXCEPT !.at = "open", !.pack = p, !.todo = {}]
             ELSE [read EXCEPT !.todo = @ \ {p}]
  /\ Quiet

InNoPack ==
  /\ read.at = "lookup" /\ read.todo = {}
  /\ read' = ReadEnds(FALSE)
  /\ Quiet

\* Each hop of a delta chain opens the pack anew; a base named by its id is
\* looked up in the packs again.  Everything inflated is capped.
OpenEntry ==
  /\ read.at = "open"
  /\ LET e == Entry[read.pack][read.cur]
         hop == [read EXCEPT !.cur = e.base, !.depth = @ + 1]
     IN read' = CASE \/ read.depth > MaxDeltaDepth
                     \/ read.pack \notin datas
                     \/ read.cur \in Big -> ReadEnds(FALSE)
                  [] OTHER -> CASE e.how = "whole" -> ReadEnds(TRUE)
                                [] e.how = "ofs" -> hop
                                [] e.how = "ref" -> [hop EXCEPT !.at = "list"]
  /\ Quiet

Reading == ReadLoose \/ ListPacks \/ InNoPack \/ OpenEntry \/ \E p \in Packs : TryIdx(p)

\* read_typed: the content is used only if the type is the one asked for.
ReadAs(kind) == read.found /\ Kind[read.oid] = kind

(***************************************************************************)
(* git gc: nothing is removed before the new pack and its index are there. *)
(***************************************************************************)

GcWritesPack ==
  /\ NewPack \notin datas
  /\ datas' = datas \cup {NewPack}
  /\ UNCHANGED <<loose, idxs, read, disturbed>>

GcWritesIdx ==
  /\ NewPack \in datas \ idxs
  /\ idxs' = idxs \cup {NewPack}
  /\ UNCHANGED <<loose, datas, read, disturbed>>

GcPrunes(o) ==
  /\ NewPack \in idxs /\ o \in loose \cap DOMAIN Entry[NewPack]
  /\ loose' = loose \ {o}
  /\ UNCHANGED <<idxs, datas, read, disturbed>>

GcRemovesIdx(p) ==
  /\ NewPack \in idxs /\ p \in idxs \ {NewPack}
  /\ idxs' = idxs \ {p}
  /\ disturbed' = TRUE
  /\ UNCHANGED <<loose, datas, read>>

GcRemovesPack(p) ==
  /\ p \in datas \ (idxs \cup {NewPack})
  /\ datas' = datas \ {p}
  /\ disturbed' = TRUE
  /\ UNCHANGED <<loose, idxs, read>>

GcStep ==
  \/ GcWritesPack \/ GcWritesIdx
  \/ \E o \in Oids : GcPrunes(o)
  \/ \E p \in Packs : GcRemovesIdx(p) \/ GcRemovesPack(p)

(***************************************************************************)
(* Properties.                                                             *)
(***************************************************************************)

ObjectsTypeOK ==
  /\ loose \subseteq LooseAtStart /\ idxs \subseteq Packs /\ datas \subseteq Packs
  /\ read \in [at : {"idle", "loose", "list", "lookup", "open", "done"},
               oid : Oids, cur : Oids, todo : SUBSET Packs, pack : Packs \cup {NoPack},
               depth : 0 .. MaxDeltaDepth + 1, found : BOOLEAN]
  /\ disturbed \in BOOLEAN

\* The objects that, begun in pack p, are whole after at most n hops, whatever pack
\* each base is taken from.
WholeWithin[n \in 0 .. MaxDeltaDepth] ==
  [p \in Packs |-> {o \in Oids :
     o \in DOMAIN Entry[p] =>
       /\ o \notin Big
       /\ Entry[p][o].how # "whole" =>
            n > 0 /\ \A q \in IF Entry[p][o].how = "ofs" THEN {p} ELSE Packs :
                       Entry[p][o].base \in WholeWithin[n - 1][q]}]

Readable == {o \in Oids : /\ Stored(o) /\ o \notin Corrupt \cup Big
                          /\ \A p \in Packs : o \in WholeWithin[MaxDeltaDepth][p]}

\* gitobj.rs:1-8, gitpack.rs:10-18: whatever gc is doing, a read misses an object
\* the repository has, and which is within the reader's limits, only if a pack was
\* removed during that very read.  Pruning loose objects hides nothing: they are in
\* a pack by then, and packs are looked at later.
MissesAreExplained ==
  (read.at = "done" /\ ~read.found) => (disturbed \/ read.oid \notin Readable)
=============================================================================
