SPECIFICATION Spec
CONSTANTS
  MaxPort = 3
  Documents <- MCDocuments
  Edits <- MCEdits
  Uids = {0, 1000, 10001, 10002, 10009, 110002}
  Hooks = {"connect", "bind", "route", "getname"}
  Mandatory = {"connect", "bind"}
  MaxIfaces = 2
  MaxWords = 174
  LegacyUids = 2
  LegacyRules = 3
  MaxLoads = 2
CHECK_DEADLOCK FALSE
INVARIANTS
  SnapshotSupportsLookups
  KernelAcceptsTheController
  DecisionsFollowTheDocument
