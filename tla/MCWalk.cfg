SPECIFICATION WalkSpec
CHECK_DEADLOCK FALSE
CONSTANTS
  Oids <- MCOids
  Kind <- MCKind
  Big = {}
  Packs = {"P1", "PN"}
  NewPack = "PN"
  NoPack = NoPack
  Entry <- MCEntry
  LooseAtStart = {"c4", "t4"}
  Corrupt = {}
  MaxDeltaDepth = 2
  Parents <- MCParents
  Date <- MCDate
  OidOrder <- MCOidOrder
  RootTree <- MCRootTree
  Items <- MCItems
  Signed = {"c2", "c4", "g"}
  RefNames = {"main", "remote", "tag"}
  HeadRef = "main"
  Tags = {"tag"}
  RefsAtStart <- MCRefsAtStart
  MovesTo <- MCMovesTo
  Jobs <- MCJobs
  NoRef = NoRef
INVARIANTS WalkIsWhole IntroIsOldest
