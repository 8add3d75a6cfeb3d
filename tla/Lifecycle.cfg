SPECIFICATION Spec
CONSTANTS
  anna = anna
  bert = bert
  sid = sid
  Agents <- TwoAgents
  Spawned <- OneSession
  Topologies = {team}
  Registries = {cron}
  GLOBAL_SCOPE = GLOBAL_SCOPE
  NamesOnce = TRUE
  MaxHead = 4
  MaxQueued = 1
  MaxCrashes = 1
  MaxChanges = 2
INVARIANTS RosterFollowsLineage TopologiesFollowLineage NobodyDangles ConfigSurvivesTruncation
PROPERTY NothingLivingIsDeleted
CHECK_DEADLOCK FALSE
