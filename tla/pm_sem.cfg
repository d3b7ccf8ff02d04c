SPECIFICATION FairSpec
CONSTANTS
  MaxPid = 4
  MaxCount = 1
  Keys = {k1}
  Values = {0, 1}
  ExitCodes = {0}
  NoCode = NoCode
INVARIANTS
  TypeOK
  ReadyQueueExact
  SwitchTotal
  BlockedHasOneWaker
  NoUnitWhileWaiting
PROPERTIES
  ImplementsDijkstra
  ReadyRuns
  InitExitStops
