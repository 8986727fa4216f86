SPECIFICATION Spec
CHECK_DEADLOCK FALSE
CONSTANTS
  None = None
  Void = None
  Urls <- GateUrls
  Overrides <- GateSets
  Rewrites = {"url.insteadof", "remote.url"}
  Remotes <- GateRemotes
  Takes <- GateTakes
  Flags <- GateFlags
  Cases <- CommandCases
  Documents <- DetectDocuments
  Missing = {}
  Alphabet <- DetectAlphabet
  Fragments <- DetectJobs
  MaxSets = 2
  Web <- ExprWeb
  Environment <- ExprEnvironment
  MaxResponseBody = 40
  Jobs <- ExprJobs
  Procs = {p, q}
  Requests <- ScanRequests
  MaxScans = 3
  Workers = {w1, w2}
  Paths = {"a", "b", "c", "d", "vendor"}
  Rules = {"aws", "jwt"}
  Oids <- ScanOids
  Content <- ScanContent
  Lists <- ScanLists
  HeadTip = "c3"
  Refs <- ScanRefs
  IndexFiles <- ScanIndex
  Dirs <- ScanDirs
  MaxWalkDepth = 1
  Skipped = {"vendor"}
  RulesOf <- ScanRulesOf
  Low = {"jwt"}
  Traced = "b"
  Ignored <- ScanIgnored
  UserHooks = {"A", "B"}
  MaxHookOps = 4
INVARIANTS  CommitIsClean LocationsAreTrue DetectionHolds MeaningIsKept EvaluationHolds
  ScansAgree LatestHookKept
CONSTRAINT Apart
SYMMETRY Alike
