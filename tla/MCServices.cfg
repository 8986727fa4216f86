SPECIFICATION Spec
CHECK_DEADLOCK FALSE
CONSTANTS
  None = None
  Workers = {"w1", "w2"}
  Second = 2
  LongestGap = 2
  Timeout = 2
  MaxAsked = 2
  MaxPause = 1
  Configs <- GovernorConfigs
  Urls <- GovernorUrls
  Findings <- GovernorFindings
  Procs = {"p", "q"}
  MaxCalls = 3
  MaxEdits = 1
  Calls <- LedgerCalls
  Cap <- LedgerCap
  Invocations <- RunnerInvocations
  MetaCommands <- RunnerMetaCommands
  FirstClass = {"scan", "audit"}
  Shortcuts <- RunnerShortcuts
  Blocked <- RunnerBlocked
  Secrets <- RunnerSecrets
  Statuses <- RunnerStatuses
  Heirs = FALSE
  Versions = {"v1", "v2"}
  Platforms = {"launchers", "copies", "unix"}
  Foreign = {"tools"}
  MaxOps = 2
INVARIANTS BudgetHolds LedgerHolds RowsAreTrue LaunchersHold
PROPERTIES RatesCompose EveryoneIsAnswered CommandEnds
