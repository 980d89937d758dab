CONSTANTS
  r1 = r1
  r2 = r2
  cli = cli
  k1 = k1
  k2 = k2
  kcli = kcli
  s1 = s1
  scli = scli
  Route = {r1, r2, cli}
  CliRoute = {cli}
  Conv = {k1, k2, kcli}
  Scope = {s1, scli}
  ConvOf <- RouteConv
  ScopeOf <- RouteScope
  Scenario <- Mixed
  MaxHistory = 3
  CompactKeep = 2
  KeepTools = 1
  MaxMessages = 3
SPECIFICATION Spec
INVARIANTS TypeOK EveryMessageOnce InFlightExact ReplyFollowsItsTurn
PROPERTIES SettledUnlessWakeupLost
CHECK_DEADLOCK FALSE
