SPECIFICATION Spec
CONSTANTS
  MaxPid = 5
  MaxCount = 0
  Keys = {}
  Values = {}
  ExitCodes = {0, 7}
  NoCode = NoCode
INVARIANTS
  NoWaiterOnDead
  WaitReturnsExitCode
  CreateReturnsPid
PROPERTIES
  DeadStaysDead
  NoOvertaking
