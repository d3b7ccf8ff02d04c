SPECIFICATION Spec
CONSTANTS
  MaxProcs = 2
  MaxSlot = 3
  STACK_MAX_PAGES = 2
  HEAP_PAGES = 3
  PAGE_SIZE = 2
  BrkArgs = {0, 1, 2, 3, 4, 5, 6}
  CodePages = 2
  Frames = 6
  FirstPid = 2
INVARIANT HeapAligned
