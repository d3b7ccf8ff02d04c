SPECIFICATION FairSpec
CONSTANTS
  BUF_SIZE = 2
  MaxTyped = 3
  Family = {p, q}
  File = {f}
  FD_LIMIT = 4
  MaxFrames = 1
INVARIANTS KeysInOrder SpinOnlyInCall DescriptorsKept
PROPERTIES StackFaultResolved
