------------------------------ MODULE Vetting -------------------------------
(* The two components that look at what is about to be committed: the gate *)
(* of the pipeline, in the detail of Gates, and `gitc scan` with its hook. *)
(* They share nothing; the initial state says which of them runs.          *)
EXTENDS Naturals

CONSTANTS Cases, Flags, Urls, Overrides, Rewrites, Remotes, Takes, \* of the gate
          Procs, Requests, MaxScans, Workers, Paths, Rules, Oids, Content, HeadTip, Refs,
          Lists, IndexFiles, Dirs, MaxWalkDepth, Skipped, RulesOf, Low, Traced, Ignored,
          UserHooks, MaxHookOps,                                   \* of the scans
          Void

VARIABLES line, pol, tree, upstream, step, refs, urls, finds, refused, unseen
VARIABLES cacheFile, baselineFile, scan, begun, hook

gate == <<line, pol, tree, upstream, step, refs, urls, finds, refused, unseen>>
scans == <<cacheFile, baselineFile, scan, begun, hook>>

CommitGate == INSTANCE Gates WITH
    argv <- line, pc <- step, found <- finds, blocked <- refused, None <- Void
Scanner == INSTANCE Scans WITH asked <- begun

ASSUME ScanInputs == Scanner!WellFormed

GateIdle ==
    /\ line = Void /\ pol = Void /\ tree = Void /\ upstream = Void /\ step = Void
    /\ refs = Void /\ urls = Void /\ finds = Void /\ refused = Void
    /\ unseen = Void
ScansIdle ==
    cacheFile = Void /\ baselineFile = Void /\ scan = Void /\ begun = Void /\ hook = Void

VettingInit ==
    \/ CommitGate!Init /\ ScansIdle
    \/ GateIdle /\ Scanner!Init
GateNext == line # Void /\ CommitGate!Next /\ UNCHANGED scans
ScansNext == scan # Void /\ Scanner!Next /\ UNCHANGED gate
VettingSpec == VettingInit /\ [][GateNext \/ ScansNext]_<<gate, scans>>

\* What a commit records has been scanned, wherever it lies when it is scanned, unless
\* git did not show it or it could not be read.
CommitIsClean == line # Void => CommitGate!CommitIsClean
\* A scan reports all there is, in order, with threads; with a cache too, but for the
\* entries it must mistake for its own.
ScansAgree == scan # Void => Scanner!ReportIsWhole /\ Scanner!CacheAgrees
\* No hook the user wrote is lost by installing, uninstalling, dying or failing, but by an
\* install that meets a managed hook it cannot read, or a hook that was cut short.
LatestHookKept == scan # Void => Scanner!LatestHookKept
=============================================================================
