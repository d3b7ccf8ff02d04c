SPECIFICATION FairSpec
CONSTANTS
  BYTE = 4
  NIBBLE = 2
  WORDS = 2
  DRIVE_BLOCKS = 66
  U16 = 64
  U32 = 256
  BLOCK_SIZE = 12
  LEN = 6
  reserved_sector_count = 1
  fat_count = 2
  sectors_per_fat = 22
  root_entries_count = 4
  sectors_per_cluster = 2
  UNIT = 24
  BufLen = {10, 24, 100}
  Image <- MCImage
  Path <- MCPath
INVARIANTS BlockFromPartition LookupFaithful ReadFaithful
PROPERTIES CallsEnd
