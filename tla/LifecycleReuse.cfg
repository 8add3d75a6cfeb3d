SPECIFICATION Spec
CONSTANTS
  anna = anna
  bert = bert
  sid = sid
  Agents <- TwoAgents
  Spawned <- OneSession
  Topologies = {team}
  Registries = {cron}
  GLOBAL_SCOPE = GLOBAL_SCOPE
  NamesOnce = FALSE
  MaxHead = 4
  MaxQueued = 1
  MaxCrashes = 1
  MaxChanges = 2
PROPERTY NothingLivingIsDeleted
CHECK_DEADLOCK FALSE
