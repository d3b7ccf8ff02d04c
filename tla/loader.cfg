\* Twenty frames, three processes: from the boot loader to the exit of the processes.
CONSTANTS
  FRAMES = 20
  Reserved = {9}
  PAGE = 2
  p = p
  q = q
  r = r
  Proc = {p, q, r}
  Image <- MCImage
  KernelImage <- MCKernelImage
  DEFAULT_CONFIG <- MCDefault
  ConfigFile <- MCConfigFile
  AppDir <- MCAppDir
  MAX_APPLIST_LEN = 2
  KERNEL_STACK = 20
  USER_HEAP_PAGE = 2
  STACK_PAGE = 10
  USER_HEAP = 30
SYMMETRY Symmetry
SPECIFICATION Spec
INVARIANTS FramesAccounted ImageLoaded ImageReturned
CHECK_DEADLOCK FALSE
