------------------------------- MODULE Volume -------------------------------
(***************************************************************************)
(* The layout of a FAT16 volume: where the table, the root directory and   *)
(* the clusters lie, how the code follows a chain of clusters, and what it *)
(* makes of a directory entry and of a name.                               *)
(***************************************************************************)
EXTENDS Integers, Sequences

CONSTANTS
  U16, U32,                \* the number of values of a u16 and of a u32
  BLOCK_SIZE,              \* the number of bytes in a block
  LEN,                     \* the size of a directory entry, in bytes
  reserved_sector_count, fat_count, sectors_per_fat,
  root_entries_count, sectors_per_cluster   \* fields of the BPB

-----------------------------------------------------------------------------
(* The entries of the partition table that partitions returns: the active  *)
(* ones.  The kernel takes the first of them.                              *)
partitions(table) == {i \in DOMAIN table : table[i].active}

(* Fat16Impl::new *)
fat_start == reserved_sector_count
first_root_dir_sector == fat_start + fat_count * sectors_per_fat
root_dir_sector_num == (root_entries_count * LEN) \div BLOCK_SIZE
first_data_sector == first_root_dir_sector + root_dir_sector_num

(* The sectors of all clusters have 32-bit numbers, and so have the places *)
(* of their entries in the table.                                          *)
ASSUME VolumeAssumption ==
  /\ {U16, U32, BLOCK_SIZE, LEN, sectors_per_cluster} \subseteq Nat \ {0}
  /\ {reserved_sector_count, fat_count, sectors_per_fat, root_entries_count} \subseteq Nat
  /\ U16 * sectors_per_cluster + first_data_sector < U32
  /\ 2 * U16 <= U32

(* Cluster numbers with a meaning of their own. *)
EMPTY == 0
INVALID == U32 - 10
BAD == U32 - 9
ROOT_DIR == U32 - 4
END_OF_FILE == U32 - 1

cluster_to_first_sector(cluster) ==
  IF cluster = ROOT_DIR THEN first_root_dir_sector
  ELSE ((cluster - 2) * sectors_per_cluster + first_data_sector) % U32

(* The entries of the table that its first block holds: get_next_cluster   *)
(* reads that block, and panics for a cluster whose entry is in another.   *)
InFirstFatBlock(cluster) == ((2 * cluster) % U32) + 2 <= BLOCK_SIZE

(* The entry of the table it takes: the multiplication may wrap around. *)
FatIndex(cluster) == ((2 * cluster) % U32) \div 2

(* What get_next_cluster makes of the 16-bit entry of the table.  No such  *)
(* entry is BAD or an end of file mark, which have 32 bits.                *)
NextCluster(next) ==
  CASE next \in {EMPTY, BAD} -> next
    [] next \in 2 .. U16 - 11 -> next
    [] next >= U32 - 8 -> END_OF_FILE
    [] OTHER -> INVALID

(* The chain of n clusters after the first that the table holds, by the    *)
(* format, and the number of clusters after the first for a size in bytes. *)
Chain(fat, cluster, n) ==
  LET chain[k \in 0 .. n] == IF k = 0 THEN cluster ELSE fat[chain[k - 1]]
  IN chain

ClusterSize == sectors_per_cluster * BLOCK_SIZE
LastCluster(size) == (size - 1) \div ClusterSize

-----------------------------------------------------------------------------
(* Directory entries: a short name, attributes, first cluster and size.    *)
is_eod(entry) == entry.name = "eod"
is_unused(entry) == entry.name = "unused"
is_valid_unused(entry) == ~is_eod(entry)
is_valid(entry) == ~is_unused(entry) /\ ~is_eod(entry)
is_directory(entry) == "DIRECTORY" \in entry.attributes
is_displayable(entry) ==
  {"HIDDEN", "LFN"} \cap entry.attributes = {} /\ is_valid(entry)

(* The entries a traversal passes on from one block: those before the      *)
(* first one that is not valid.                                            *)
ValidPrefix(entries) ==
  LET bad == {i \in 1 .. Len(entries) : ~is_valid(entries[i])}
  IN IF bad = {} THEN entries
     ELSE SubSeq(entries, 1, (CHOOSE i \in bad : \A j \in bad : i <= j) - 1)

(* ShortFileName::parse.  A part of a path is the name it spells, whatever *)
(* its case, and a form that may make it unacceptable.  A wide part has    *)
(* characters of several bytes: it is short enough in bytes, but padded to *)
(* a number of characters it does not fit the array, and parse panics.     *)
ParseError(part) ==
  CASE part.form = "empty" -> "FilenameEmpty"
    [] part.form = "space" -> "MisplacedPeriod"
    [] part.form = "long" -> "NameTooLong"
    [] part.form = "control" -> "InvalidCharacter"
    [] part.form = "wide" -> "panic"
    [] OTHER -> "none"

(* parse_path: the parts between slashes, without the empty ones. *)
parse_path(path) == SelectSeq(path, LAMBDA part : part.form # "empty")

(* get_dir_entry_by_name: the last of the entries that match. *)
Matches(entries, part) == {i \in DOMAIN entries : entries[i].name = part.name}
=============================================================================
