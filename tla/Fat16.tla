-------------------------------- MODULE Fat16 -------------------------------
(***************************************************************************)
(* The calls of the FAT16 file system, block by block on the ATA driver:   *)
(* mounting, walking a path, listing a directory, and reading a file.  A   *)
(* call runs with interrupts disabled, so calls do not overlap.            *)
(***************************************************************************)
EXTENDS AtaBus, Volume, FiniteSetsExt

CONSTANTS
  Image,         \* the disks: table, trail, fat, tree and blocks
  Path,          \* the paths that are used
  BufLen,        \* the lengths of the buffers given to read
  UNIT           \* the size of the buffer of read_all (1024)

(* What parse makes of the bytes of a block: entries of a directory if it  *)
(* belongs to one, and otherwise whatever a file or the table spells.  The *)
(* blocks a disk does not list are zero.                                   *)
ZeroEntry == [name |-> "eod", attributes |-> {}, cluster |-> 0, size |-> 0]
EntriesOn(d) == {ZeroEntry} \cup UNION {Range(d.blocks[s]) : s \in DOMAIN d.blocks}

(* Partitions end where the addresses of the drive do, and no bytes spell  *)
(* an entry with the number that stands for the root directory.            *)
ASSUME Fat16Assumption ==
  /\ UNIT \in Nat /\ BufLen \subseteq Nat
  /\ \A d \in Image :
       /\ d.table \in Seq([active : BOOLEAN, begin : Nat, total : Nat])
       /\ \A i \in DOMAIN d.table :
            d.table[i].begin + d.table[i].total <= BYTE * BYTE * BYTE * NIBBLE
       /\ \A s \in DOMAIN d.blocks : d.blocks[s] \in Seq(EntriesOn(d))
       /\ \A e \in EntriesOn(d) :
            e.cluster \in Nat /\ e.cluster # ROOT_DIR /\ e.size \in Nat

VARIABLES
  disk,          \* the contents of the disk
  at,            \* what the kernel does, or waits for
  walk,          \* the walk along a path
  file,          \* the open file
  rd,            \* the read in progress
  ret            \* the result of the last call

fsVars == <<disk, at, walk, file, rd, ret>>
vars == <<busVars, fsVars>>

NoWalk == [op |-> "none"]
NoFile == [entry |-> "none"]
NoRead == [op |-> "none"]

Init ==
  /\ BusInit
  /\ disk \in Image
  /\ at = "off"
  /\ walk = NoWalk
  /\ file = NoFile
  /\ rd = NoRead
  /\ ret = <<"none">>

Part == disk.table[Min(partitions(disk.table))]

read_block_at_end(sector) ==
  IF sector > Part.total
  THEN reply' = "InvalidOffset" /\ UNCHANGED <<device, status, regs, cmd, pc, words, block>>
  ELSE write_command(sector + Part.begin, "ReadPio")

(* Partition::read_block *)
read_block(sector) ==
  IF sector >= Part.total
  THEN reply' = "InvalidOffset" /\ UNCHANGED <<device, status, regs, cmd, pc, words, block>>
  ELSE write_command(sector + Part.begin, "ReadPio")

(* The block asked for has arrived, or could not be read. *)
Arrived(place) == at = place /\ pc = "idle" /\ reply = "Ok"
Refused(place) == at = place /\ pc = "idle" /\ reply \notin {"none", "Ok"}

(* A panic of the kernel: the unwrap or expect of an error. *)
panic ==
  /\ at' = "panic"
  /\ UNCHANGED <<busVars, disk, walk, file, rd, ret>>

(* The end of a call on a path, or on the open file.  Its block goes with  *)
(* it.                                                                     *)
return(result) ==
  /\ at' = "ready"
  /\ ret' = result
  /\ walk' = NoWalk
  /\ block' = 0
  /\ reply' = "none"
  /\ UNCHANGED <<device, status, regs, cmd, pc, words, disk>>

-----------------------------------------------------------------------------
(* filesystem::init: identify the drive, read the partition table and      *)
(* mount the first active partition.                                       *)
open_drive ==
  /\ at = "off" /\ at' = "drive"
  /\ write_command(0, "IdentifyDevice")
  /\ UNCHANGED <<disk, walk, file, rd, ret>>

parse_mbr ==
  /\ Arrived("drive") /\ at' = "mbr"
  /\ write_command(0, "ReadPio")
  /\ UNCHANGED <<disk, walk, file, rd, ret>>

mount ==
  /\ Arrived("mbr")
  /\ IF partitions(disk.table) = {} THEN panic
     ELSE /\ read_block(0)
          /\ at' = "bpb"
          /\ UNCHANGED <<disk, walk, file, rd, ret>>

(* Fat16Bpb::new *)
new ==
  /\ Arrived("bpb")
  /\ IF ~disk.trail THEN panic
     ELSE at' = "ready" /\ UNCHANGED <<busVars, disk, walk, file, rd, ret>>

mount_failed ==
  /\ \E place \in {"drive", "mbr", "bpb"} : Refused(place)
  /\ panic

-----------------------------------------------------------------------------
(* traverse_dir_entries, from the beginning of the cluster. *)
traverse(cluster, w) ==
  LET first == cluster_to_first_sector(cluster)
  IN /\ read_block(first)
     /\ at' = "dir"
     /\ walk' = [w EXCEPT !.cluster = cluster, !.sector = first,
                          !.left = IF cluster = ROOT_DIR THEN root_entries_count
                                   ELSE (BLOCK_SIZE \div LEN) * sectors_per_cluster]
     /\ ret' = <<"none">>
     /\ UNCHANGED <<disk, file, rd>>

(* The loop over the parts of the path: look up the next part in the       *)
(* directory.  Only read_dir accepts the root directory.                   *)
lookup(w, cluster) ==
  CASE w.parts = <<>> /\ w.op # "read_dir" ->
         return(<<"Err", w.op, w.path, "FileNotFound">>) /\ UNCHANGED <<file, rd>>
    [] w.parts # <<>> /\ ParseError(Head(w.parts)) = "panic" -> panic
    [] w.parts # <<>> /\ ParseError(Head(w.parts)) \notin {"none", "panic"} ->
         return(<<"Err", w.op, w.path, ParseError(Head(w.parts))>>) /\ UNCHANGED <<file, rd>>
    [] OTHER -> traverse(cluster, [w EXCEPT !.seen = <<>>])

(* read_dir, open_file, metadata and exists, through the Mount at the      *)
(* root: the slashes it strips from the front of a path separate no names. *)
start(op, path) ==
  /\ at = "ready" /\ file = NoFile
  /\ lookup([op |-> op, parts |-> parse_path(path), path |-> path, cluster |-> ROOT_DIR,
             sector |-> 0, left |-> 0, seen |-> <<>>], ROOT_DIR)

(* File::new.  The fields after cluster are history: the bytes delivered,  *)
(* the reads that ended (0, 1 or 2 and more), whether one began after the  *)
(* file had left its first cluster, and whether one failed half way.       *)
NewFile(entry) ==
  [entry |-> entry, offset |-> 0, cluster |-> entry.cluster, out |-> <<>>,
   calls |-> 0, crossed |-> FALSE, failed |-> FALSE]

(* The end of a traversal that passed on the entries seen. *)
traversed(w) ==
  LET found == Matches(w.seen, Head(w.parts))
      entry == w.seen[Max(found)]
      last == Len(w.parts) = 1
      descend == lookup([w EXCEPT !.parts = Tail(@)], entry.cluster)
  IN CASE w.parts = <<>> ->
            /\ return(<<"Ok", w.op, w.path, SelectSeq(w.seen, is_displayable)>>)
            /\ UNCHANGED <<file, rd>>
       [] w.parts # <<>> /\ found = {} ->
            return(<<"Err", w.op, w.path, "FileNotFound">>) /\ UNCHANGED <<file, rd>>
       [] w.op = "read_dir" /\ w.parts # <<>> /\ found # {} ->
            IF is_directory(entry) THEN descend
            ELSE return(<<"Err", w.op, w.path, "NotADirectory">>) /\ UNCHANGED <<file, rd>>
       [] w.op = "open_file" /\ found # {} /\ last ->
            IF is_directory(entry)
            THEN return(<<"Err", w.op, w.path, "NotAFile">>) /\ UNCHANGED <<file, rd>>
            ELSE /\ return(<<"Ok", w.op, w.path, entry>>)
                 /\ file' = NewFile(entry)
                 /\ UNCHANGED rd
       [] w.op = "metadata" /\ found # {} /\ last ->
            return(<<"Ok", w.op, w.path, entry>>) /\ UNCHANGED <<file, rd>>
       [] w.op = "exists" /\ found # {} /\ last ->
            return(<<"Ok", w.op, w.path, TRUE>>) /\ UNCHANGED <<file, rd>>
       [] OTHER -> descend

(* The entries of a block of the volume.  No call checks that the block is *)
(* one of a directory: open_file, metadata and exists go on through a file *)
(* as through a directory, and the chain of a full directory ends at       *)
(* INVALID, which the code takes for a cluster.                            *)
Entries(sector) ==
  IF sector \in DOMAIN disk.blocks THEN disk.blocks[sector]
  ELSE [i \in 1 .. BLOCK_SIZE \div LEN |-> ZeroEntry]

(* A block of a directory has arrived. *)
dir_block ==
  /\ Arrived("dir")
  /\ LET all == Entries(block - Part.begin)
         entries == SubSeq(all, 1, Min({walk.left, Len(all)}))
         valid == ValidPrefix(entries)
         w == [walk EXCEPT !.seen = @ \o valid, !.left = @ - Len(entries),
                           !.sector = @ + 1]
     IN CASE valid # entries -> traversed(w)
          [] valid = entries /\ w.left > 0 ->
               /\ read_block(w.sector)
               /\ walk' = w
               /\ UNCHANGED <<disk, at, file, rd, ret>>
          [] valid = entries /\ w.left = 0 /\ w.cluster = ROOT_DIR -> traversed(w)
          [] OTHER ->
               /\ read_block(fat_start)
               /\ walk' = w
               /\ at' = "dir_fat"
               /\ UNCHANGED <<disk, file, rd, ret>>

(* The block of the table has arrived, to find the next cluster of the     *)
(* directory.                                                              *)
dir_next ==
  /\ Arrived("dir_fat")
  /\ IF ~InFirstFatBlock(walk.cluster) THEN panic
     ELSE LET next == NextCluster(disk.fat[FatIndex(walk.cluster)])
          IN IF next = END_OF_FILE THEN traversed(walk) ELSE traverse(next, walk)

dir_failed ==
  /\ Refused("dir") \/ Refused("dir_fat")
  /\ panic

-----------------------------------------------------------------------------
(* File::read with a buffer of the given length: the first block.  The     *)
(* sector is counted from the beginning of the file, and added to the      *)
(* current cluster.                                                        *)
begin_read(op, f, need, all) ==
  /\ rd' = [op |-> op, need |-> need, data |-> <<>>, all |-> all,
            sector_offset |-> f.offset \div BLOCK_SIZE,
            byte_offset |-> f.offset % BLOCK_SIZE]
  /\ file' = [f EXCEPT !.crossed = @ \/ f.cluster # f.entry.cluster]
  /\ read_block(cluster_to_first_sector(f.cluster) + f.offset \div BLOCK_SIZE)
  /\ at' = "file"
  /\ ret' = <<"none">>
  /\ UNCHANGED <<disk, walk>>

read(need) ==
  /\ at = "ready" /\ file # NoFile
  /\ begin_read("read", file, need, <<>>)

(* read_all of a file just opened: it reads until a read returns nothing. *)
read_all ==
  /\ at = "ready" /\ file # NoFile /\ file.calls = 0
  /\ begin_read("read_all", file, UNIT, <<>>)

(* The handle of the file is dropped. *)
close ==
  /\ at = "ready" /\ file # NoFile
  /\ file' = NoFile
  /\ UNCHANGED <<busVars, disk, at, walk, rd, ret>>

Pad(data) == data \o [i \in 1 .. UNIT - Len(data) |-> 0]

(* The end of a read that delivers the data; f is the file after it.       *)
(* read_all appends the whole buffer and reads again.                      *)
read_done(f, data) ==
  LET g == [f EXCEPT !.out = @ \o data, !.calls = Min({@ + 1, 2})]
  IN IF rd.op = "read_all" /\ data # <<>>
     THEN begin_read("read_all", g, UNIT, rd.all \o Pad(data))
     ELSE /\ file' = g
          /\ rd' = NoRead
          /\ return(<<"Ok", rd.op, <<>>,
                      IF rd.op = "read" THEN Len(data) ELSE rd.all \o Pad(data)>>)

NextSector_unreset(r) == [r EXCEPT !.sector_offset = @ + 1]

(* Going on to the next block: from its first byte. *)
NextSector(r) == [r EXCEPT !.byte_offset = 0, !.sector_offset = @ + 1]

(* A block of the file has arrived.  Byte i of block b of the disk is the  *)
(* number b * BLOCK_SIZE + i, which is never 0 for a byte of a file.       *)
file_block ==
  /\ Arrived("file")
  /\ LET n == Min({rd.need - Len(rd.data), BLOCK_SIZE - rd.byte_offset,
                   file.entry.size - file.offset})
         data == rd.data \o [i \in 1 .. n |-> block * BLOCK_SIZE + rd.byte_offset + i - 1]
         f == [file EXCEPT !.offset = @ + n]
         r == NextSector([rd EXCEPT !.data = data])
     IN CASE Len(data) = rd.need \/ f.offset = f.entry.size -> read_done(f, data)
          [] Len(data) # rd.need /\ f.offset # f.entry.size
               /\ r.sector_offset = sectors_per_cluster ->
               /\ file' = f
               /\ rd' = [r EXCEPT !.sector_offset = 0]
               /\ read_block(fat_start)
               /\ at' = "file_fat"
               /\ UNCHANGED <<disk, walk, ret>>
          [] OTHER ->
               /\ file' = f
               /\ rd' = r
               /\ read_block(cluster_to_first_sector(f.cluster) + r.sector_offset)
               /\ UNCHANGED <<disk, at, walk, ret>>

(* The block of the table has arrived, to find the next cluster of the     *)
(* file.                                                                   *)
file_next ==
  /\ Arrived("file_fat")
  /\ IF ~InFirstFatBlock(file.cluster) THEN panic
     ELSE LET next == NextCluster(disk.fat[FatIndex(file.cluster)])
          IN /\ file' = [file EXCEPT !.cluster = next]
             /\ read_block(cluster_to_first_sector(next))
             /\ at' = "file"
             /\ UNCHANGED <<disk, walk, rd, ret>>

(* A block of the file cannot be read: the call fails, and the bytes that  *)
(* it copied before are gone, though the offset has moved.                 *)
file_failed ==
  /\ Refused("file")
  /\ file' = [file EXCEPT !.calls = Min({@ + 1, 2}), !.failed = @ \/ rd.data # <<>>]
  /\ rd' = NoRead
  /\ return(<<"Err", rd.op, <<>>, IF rd.op = "read" THEN reply ELSE "FileNotFound">>)

file_fat_failed == Refused("file_fat") /\ panic

-----------------------------------------------------------------------------
Work ==
  \/ open_drive \/ parse_mbr \/ mount \/ new \/ mount_failed
  \/ dir_block \/ dir_next \/ dir_failed
  \/ file_block \/ file_next \/ file_failed \/ file_fat_failed

Call ==
  \/ \E op \in {"read_dir", "open_file", "metadata", "exists"}, path \in Path : start(op, path)
  \/ \E need \in BufLen : read(need)
  \/ read_all \/ close

Bus == (Driver \/ answer) /\ UNCHANGED fsVars

Stopped == at = "panic" /\ UNCHANGED vars

Next == Work \/ Call \/ Bus \/ Stopped

Spec == Init /\ [][Next]_vars

(* The kernel goes on with a call it has begun, and a drive answers.       *)
FairSpec == Spec /\ WF_vars(Work) /\ WF_vars(Bus)

-----------------------------------------------------------------------------
(* What the volume holds, by the format: the bytes of a file, and the      *)
(* entries of a directory in use.                                          *)
ChainOf(entry) == Chain(disk.fat, entry.cluster, LastCluster(entry.size))

(* The file has as many clusters of data as its size needs. *)
Allocated(entry) ==
  \A k \in 0 .. LastCluster(entry.size) : ChainOf(entry)[k] \in 2 .. U16 - 11

Content(entry) ==
  LET chain == ChainOf(entry)
  IN [i \in 1 .. entry.size |->
        (Part.begin + first_data_sector
           + (chain[(i - 1) \div ClusterSize] - 2) * sectors_per_cluster) * BLOCK_SIZE
        + ((i - 1) % ClusterSize)]

Contiguous(entry) ==
  \A k \in 0 .. LastCluster(entry.size) : ChainOf(entry)[k] = entry.cluster + k

DirEntries(cluster) ==
  LET per_block == BLOCK_SIZE \div LEN
  IN IF cluster = ROOT_DIR
     THEN [i \in 1 .. root_dir_sector_num * per_block |->
             disk.blocks[first_root_dir_sector + (i - 1) \div per_block][((i - 1) % per_block) + 1]]
     ELSE disk.tree[cluster]

(* The entries before the end mark; those in use among them. *)
Used(cluster) ==
  LET all == DirEntries(cluster)
  IN {i \in 1 .. Len(all) : \A j \in 1 .. i : ~is_eod(all[j])}

Live(cluster) == {DirEntries(cluster)[i] : i \in {j \in Used(cluster) :
                                             ~is_unused(DirEntries(cluster)[j])}}

(* A traversal stops inside a directory, and sees all of it, or part.      *)
Stops(cluster) ==
  \/ cluster = ROOT_DIR
  \/ Used(cluster) # 1 .. Len(DirEntries(cluster))
  \/ \E i \in Used(cluster) : is_unused(DirEntries(cluster)[i])

Compact(cluster) ==
  /\ \A i \in Used(cluster) : ~is_unused(DirEntries(cluster)[i])
  /\ Stops(cluster)

(* The directories along a path: the cluster of each, or -1. *)
Along(parts) ==
  LET dir[k \in 0 .. Len(parts)] ==
        IF k = 0 THEN ROOT_DIR
        ELSE IF dir[k - 1] = -1 THEN -1
        ELSE LET next == {e \in Live(dir[k - 1]) :
                            e.name = parts[k].name /\ is_directory(e)}
             IN IF next = {} THEN -1 ELSE (CHOOSE e \in next : TRUE).cluster
  IN dir

(* The entries that the first k parts of a path name.  A part before the   *)
(* last may name a file.                                                   *)
NamedBy(parts, k) ==
  LET dir == Along(parts)[k - 1]
  IN IF dir = -1 THEN {} ELSE {e \in Live(dir) : e.name = parts[k].name}

Named(parts) == NamedBy(parts, Len(parts))

ThroughFile(parts) ==
  \E k \in 1 .. Len(parts) - 1 : \E e \in NamedBy(parts, k) : ~is_directory(e)

-----------------------------------------------------------------------------
(* A block in the buffer is the one that was asked for, at its place on    *)
(* the disk, and lies in the partition: the offset of the partition, the   *)
(* bytes of the address and the polling of the drive together.             *)
BlockFromPartition ==
  /\ \E place \in {"bpb", "dir", "dir_fat", "file", "file_fat"} : Arrived(place)
  => /\ block \in Part.begin .. Part.begin + Part.total - 1
     /\ Arrived("dir") => block = Part.begin + walk.sector
     /\ Arrived("file") =>
          block = Part.begin + cluster_to_first_sector(file.cluster) + rd.sector_offset
     /\ Arrived("dir_fat") \/ Arrived("file_fat") => block = Part.begin + fat_start

(* The walk along a path finds what the volume holds.  What open_file and  *)
(* metadata return is an entry in use that the path names, and exists says *)
(* that there is one, unless the walk left the directories: through a file *)
(* that the path takes for one, or past the end of a full directory.  They *)
(* fail on a name that is there only if a traversal could not see all of a *)
(* directory on the way.  read_dir, which refuses files, lists entries of  *)
(* its directory, and all of them if the traversals saw all.               *)
LookupFaithful ==
  at = "ready" /\ ret[1] # "none" /\ ret[2] \notin {"read", "read_all"} =>
    LET parts == parse_path(ret[3])
        way == {Along(parts)[k] : k \in 0 .. Len(parts)} \ {-1}
        inside == \A c \in way : Stops(c)
        whole == \A c \in way : Compact(c)
        sound == \A i \in 1 .. Len(parts) : ParseError(parts[i]) = "none"
        listed == Along(parts)[Len(parts)]
        shown == {e \in Live(listed) : is_displayable(e)}
    IN CASE ret[1] = "Ok" /\ ret[2] = "read_dir" ->
              inside => /\ listed # -1
                        /\ Range(ret[4]) \subseteq shown
                        /\ whole => Range(ret[4]) = shown
         [] ret[1] = "Ok" /\ ret[2] \in {"open_file", "metadata"} ->
              inside /\ ~ThroughFile(parts) => ret[4] \in Named(parts)
         [] ret[1] = "Ok" /\ ret[2] = "exists" ->
              inside /\ ~ThroughFile(parts) => Named(parts) # {}
         [] OTHER ->
              whole /\ sound =>
                /\ ret[2] = "read_dir" => listed = -1
                /\ ret[2] # "read_dir" /\ parts # <<>> =>
                     \A e \in Named(parts) : ret[2] = "open_file" /\ is_directory(e)

(* Reads of a file that has the clusters it needs deliver its bytes in     *)
(* order, as long as the clusters are consecutive and no read begins after *)
(* one that went on into another cluster, or there is just one read; and   *)
(* no read failed in the middle.                                           *)
ReadFaithful ==
  /\ at = "ready" /\ file # NoFile
  /\ Allocated(file.entry)
  /\ ~file.failed /\ ~file.crossed
  /\ Contiguous(file.entry) \/ file.calls <= 1
  => file.out = SubSeq(Content(file.entry), 1, file.offset)

(* Every call of the file system ends: the loops on the status of the      *)
(* drive, over the blocks and clusters of a directory and over those of a  *)
(* file.                                                                   *)
CallsEnd == at # "off" ~> at \in {"ready", "panic"}

(* read_dir iterates over all direct children of the directory: all that a *)
(* listing shows.                                                          *)
ReadDirAll ==
  at = "ready" /\ ret[1] = "Ok" /\ ret[2] = "read_dir" =>
    LET dir == Along(parse_path(ret[3]))[Len(parse_path(ret[3]))]
    IN dir # -1 => {e \in Live(dir) : is_displayable(e)} \subseteq Range(ret[4])

(* read_all places the bytes of the file, all and nothing else, into the   *)
(* buffer.                                                                 *)
ReadAllExact ==
  /\ at = "ready" /\ ret[1] = "Ok" /\ ret[2] = "read_all" /\ file # NoFile
  /\ Allocated(file.entry)
  => ret[4] = Content(file.entry)
=============================================================================
