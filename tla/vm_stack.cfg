SPECIFICATION Spec
CONSTANTS
  MaxProcs = 5
  MaxSlot = 9
  STACK_MAX_PAGES = 3
  HEAP_PAGES = 0
  PAGE_SIZE = 1
  BrkArgs = {}
  CodePages = 1
  Frames = 9
  FirstPid = 2
INVARIANTS TypeOK StacksApart StackAccounted FaultBelowStack StackKept
