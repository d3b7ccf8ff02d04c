SPECIFICATION Spec
CONSTANTS
  MaxPid = 3
  MaxCount = 0
  Keys = {}
  Values = {}
  ExitCodes = {0}
  NoCode = NoCode
PROPERTIES
  SpawnFailureReturnsZero
