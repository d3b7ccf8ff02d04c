SPECIFICATION FairSpec
CONSTANTS
  THREAD_COUNT = 4
  Thread = {0, 1, 2, 3}
  ROUNDS = 2
  COUNTERS = 3
INVARIANTS
  LinesFaithful
  RingKeepsMessages
  UnitsConserved
  MutualExclusion
  NeighboursApart
  WholeFish
PROPERTIES
  NoLostUpdate
  ProgramsEnd
  EveryoneEats
CHECK_DEADLOCK FALSE
