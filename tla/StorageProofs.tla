--------------------------- MODULE StorageProofs ----------------------------
(***************************************************************************)
(* The storage stack from the registers of the drive to the bytes of a     *)
(* file: a block that arrives is the one that was asked for, and reads     *)
(* deliver the bytes of the file in order.                                 *)
(***************************************************************************)
EXTENDS Fat16, SequenceTheorems, WellFoundedInduction, TLAPS

-----------------------------------------------------------------------------
(* Numbers.                                                                *)

(* A set of natural numbers that is not empty has a least element. *)
LEMMA LeastNatural ==
  ASSUME NEW T \in SUBSET Nat, T # {}
  PROVE  \E x \in T : \A y \in T : x <= y
<1>1. PICK x \in T : \A y \in T : ~(<<y, x>> \in OpToRel(<, Nat))
  BY WFMin, NatLessThanWellFounded, Zenon
<1>2. ASSUME NEW y \in T PROVE x <= y
  <2>1. <<y, x>> \in Nat \X Nat /\ ~(<<y, x>> \in OpToRel(<, Nat))
    BY Zenon, <1>1
  <2> QED
    BY <2>1 DEF OpToRel
<1> QED
  BY <1>2

(* A number is its quotient times the divisor, and the remainder. *)
LEMMA Division ==
  ASSUME NEW a \in Nat, NEW d \in Nat \ {0}
  PROVE  /\ a \div d \in Nat /\ a % d \in 0 .. d - 1
         /\ a = d * (a \div d) + (a % d)
<1>1. a \div d \in Nat /\ a % d \in 0 .. d - 1
  OBVIOUS
<1>2. a % d = a - d * (a \div d)
  OBVIOUS
<1> DEFINE q == a \div d
           r == a % d
<1>3. q \in Nat /\ r \in 0 .. d - 1 /\ r = a - d * q
  BY <1>1, <1>2
<1> HIDE DEF q, r
<1>4. a = d * q + r
  BY ONLY <1>3, a \in Nat, d \in Nat
<1>5. a = d * (a \div d) + (a % d)
  BY <1>4, Zenon DEF q, r
<1> QED BY <1>1, <1>5, Zenon

(* What a quotient is from a product and a rest. *)
LEMMA Quotient ==
  ASSUME NEW d \in Nat \ {0}, NEW q \in Int, NEW r \in 0 .. d - 1
  PROVE  (d * q + r) \div d = q /\ (d * q + r) % d = r
OBVIOUS

(* Dividing twice divides by the product. *)
LEMMA DivideTwice ==
  ASSUME NEW a \in Nat, NEW d \in Nat \ {0}, NEW e \in Nat \ {0}
  PROVE  a \div (d * e) = (a \div d) \div e
<1> DEFINE q == a \div d
           p == q \div e
           r == a % d
           s == q % e
<1>1. /\ q \in Nat /\ r \in 0 .. d - 1 /\ a = d * q + r
      /\ p \in Nat /\ s \in 0 .. e - 1 /\ q = e * p + s
  BY Zenon, Division
<1> HIDE DEF q, p, r, s
<1>2. a = (d * e) * p + (d * s + r)
  BY ONLY <1>1, d \in Nat, e \in Nat
<1>3. d * e \in Nat \ {0}
  BY ONLY d \in Nat \ {0}, e \in Nat \ {0}
<1>4. d * s <= d * (e - 1)
  BY ONLY <1>1, d \in Nat \ {0}, e \in Nat \ {0}
<1>5. d * s + r \in 0 .. d * e - 1
  BY ONLY <1>1, <1>4, d \in Nat \ {0}, e \in Nat \ {0}
<1>6. ((d * e) * p + (d * s + r)) \div (d * e) = p
  BY ONLY <1>1, <1>3, <1>5, Quotient
<1> QED BY <1>2, <1>6 DEF p, q

(* The least and the greatest number of a set. *)
LEMMA MinIsLeast ==
  ASSUME NEW T \in SUBSET Nat, T # {}
  PROVE  Min(T) \in T /\ \A y \in T : Min(T) <= y
<1> DEFINE P(x) == x \in T /\ \A y \in T : x <= y
<1>1. \E x : P(x)
  BY LeastNatural
<1>2. Min(T) = CHOOSE x : P(x)
  BY Zenon DEF Min
<1> HIDE DEF P
<1>3. P(CHOOSE x : P(x))
  BY <1>1, Zenon
<1> QED BY <1>2, <1>3 DEF P

(* The maximum of a set of numbers is one of them.                         *)
LEMMA MaxIsMember ==
  ASSUME NEW n \in Nat, NEW T \in SUBSET (1 .. n), T # {}
  PROVE  Max(T) \in T
<1> DEFINE P(x) == x \in T /\ \A y \in T : x >= y
           U == {n - x : x \in T}
<1>0. ASSUME NEW x \in T PROVE n - x \in U /\ n - x \in Nat /\ x \in Nat
  OBVIOUS
<1>1. PICK u \in U : \A y \in U : u <= y
  <2>1. U \subseteq Nat /\ U # {}
    BY Zenon, <1>0
  <2> QED BY Zenon, <2>1, LeastNatural
<1>2. PICK x \in T : u = n - x
  BY <1>1
<1>3. P(x)
  <2>1. ASSUME NEW y \in T PROVE x >= y
    <3>1. n - x <= n - y
      BY Zenon, <1>0, <1>1, <1>2
    <3> QED BY <3>1, <1>0
  <2> QED BY <2>1
<1>4. Max(T) = CHOOSE z : P(z)
  BY Zenon DEF Max
<1> HIDE DEF P
<1>5. P(CHOOSE z : P(z))
  BY <1>3, Zenon
<1> QED BY <1>4, <1>5 DEF P

-----------------------------------------------------------------------------
(* Chains.                                                                 *)

(* What makes a function the chain of a cluster. *)
IsChain(g, fat, cluster, n) ==
  g = [k \in 0 .. n |-> IF k = 0 THEN cluster ELSE fat[g[k - 1]]]

(* There is one, by induction over its length.                             *)
LEMMA ChainExists ==
  ASSUME NEW fat, NEW cluster, NEW n \in Nat
  PROVE  \E g : IsChain(g, fat, cluster, n)
<1> DEFINE T == {m \in Nat : ~\E g : IsChain(g, fat, cluster, m)}
<1>1. SUFFICES ASSUME T # {} PROVE FALSE
  OBVIOUS
<1>2. PICK m \in T : \A y \in T : m <= y
  BY Zenon, <1>1, LeastNatural
<1>3. CASE m = 0
  <2> DEFINE g == [k \in 0 .. 0 |-> cluster]
  <2>1. g = [k \in 0 .. 0 |-> IF k = 0 THEN cluster ELSE fat[g[k - 1]]]
    OBVIOUS
  <2> QED BY Zenon, <1>2, <1>3, <2>1 DEF IsChain
<1>4. CASE m # 0
  <2>1. m - 1 \in Nat /\ m - 1 \notin T
    BY <1>2, <1>4
  <2>2. PICK g : IsChain(g, fat, cluster, m - 1)
    BY <2>1
  <2> DEFINE h == [k \in 0 .. m |-> IF k = m THEN fat[g[m - 1]] ELSE g[k]]
  <2>3. \A k \in 0 .. m - 1 : g[k] = IF k = 0 THEN cluster ELSE fat[g[k - 1]]
    BY <2>2, <1>2 DEF IsChain
  <2>4. h = [k \in 0 .. m |-> IF k = 0 THEN cluster ELSE fat[h[k - 1]]]
    BY <2>3, <1>2, <1>4
  <2> QED BY Zenon, <2>4, <1>2 DEF IsChain
<1> QED BY <1>3, <1>4

(* Chain is that chain: each cluster after the first is what the table     *)
(* holds for the one before.                                               *)
LEMMA ChainSteps ==
  ASSUME NEW fat, NEW cluster, NEW n \in Nat
  PROVE  IsChain(Chain(fat, cluster, n), fat, cluster, n)
<1> DEFINE C(g) == IsChain(g, fat, cluster, n)
<1>1. \E g : C(g)
  BY ChainExists
<1>2. Chain(fat, cluster, n) = CHOOSE g : C(g)
  BY Zenon DEF Chain, IsChain
<1> HIDE DEF C
<1>3. C(CHOOSE g : C(g))
  BY <1>1, Zenon
<1> QED BY <1>2, <1>3, Zenon DEF C

-----------------------------------------------------------------------------
(* The invariant.                                                          *)

(* Where the kernel waits for a block of the partition, and for which.     *)
Places == {"bpb", "dir", "dir_fat", "file", "file_fat"}
Reading == at \in {"file", "file_fat"}

Sector ==
  IF at = "bpb" THEN 0
  ELSE IF at = "dir" THEN walk.sector
  ELSE IF at = "file" THEN cluster_to_first_sector(file.cluster) + rd.sector_offset
  ELSE fat_start

InPartition(sector) == sector \in 0 .. Part.total - 1

(* During a command the registers hold the address of the block that is    *)
(* wanted, and after it the buffer holds that block.                       *)
BusOK ==
  /\ pc # "idle" => /\ at \in Places \cup {"drive", "mbr"}
                    /\ at \in Places => InPartition(Sector) /\ Address = Part.begin + Sector
  /\ pc = "idle" /\ reply = "Ok" /\ at \in Places =>
       InPartition(Sector) /\ block = Part.begin + Sector

(* The shapes of the records, and what a walk has seen. *)
WalkOK(w) ==
  /\ w = [op |-> w.op, parts |-> w.parts, path |-> w.path, cluster |-> w.cluster,
          sector |-> w.sector, left |-> w.left, seen |-> w.seen]
  /\ w.cluster \in Int /\ w.sector \in Nat /\ w.left \in Nat
  /\ w.seen \in Seq(EntriesOn(disk))

FileOK(f) ==
  /\ f = [entry |-> f.entry, offset |-> f.offset, cluster |-> f.cluster, out |-> f.out,
          calls |-> f.calls, crossed |-> f.crossed, failed |-> f.failed]
  /\ f.entry \in EntriesOn(disk) /\ ~is_directory(f.entry)
  /\ f.offset \in 0 .. f.entry.size
  /\ f.cluster \in Int /\ f.out \in Seq(Int) /\ f.calls \in 0 .. 2
  /\ f.crossed \in BOOLEAN /\ f.failed \in BOOLEAN

RdOK(r) ==
  /\ r = [op |-> r.op, need |-> r.need, data |-> r.data, all |-> r.all,
          sector_offset |-> r.sector_offset, byte_offset |-> r.byte_offset]
  /\ r.need \in Nat /\ r.sector_offset \in Nat
  /\ r.byte_offset \in 0 .. BLOCK_SIZE - 1
  /\ r.data \in Seq(Int) /\ Len(r.data) <= r.need

FsOK ==
  /\ disk \in Image
  /\ at \in Places \cup {"ready"} => partitions(disk.table) # {}
  /\ at \in {"off", "drive", "mbr", "bpb", "dir", "dir_fat"} => file = NoFile
  /\ at \in {"dir", "dir_fat"} => WalkOK(walk)
  /\ file # NoFile => FileOK(file)
  /\ Reading => file # NoFile /\ RdOK(rd)
  /\ at = "file_fat" => rd.sector_offset = 0 /\ rd.byte_offset = 0

(* A sequence of bytes is the beginning of a file up to its offset.        *)
Prefix(f, bytes) ==
  /\ Len(bytes) = f.offset
  /\ \A i \in 1 .. f.offset : bytes[i] = Content(f.entry)[i]

(* The file has its clusters, no read went wrong, and at most n reads have *)
(* ended if the clusters are not consecutive.                              *)
Trusted(f, n) ==
  /\ Allocated(f.entry)
  /\ ~f.failed /\ ~f.crossed
  /\ Contiguous(f.entry) \/ f.calls <= n

(* Between two reads the bytes delivered are the beginning of the file.    *)
Kept(f) ==
  /\ Trusted(f, 1) => Prefix(f, f.out)
  /\ f.calls = 0 => f.offset = 0

(* The next byte of a file is where a read goes on: in cluster k of the    *)
(* chain, or in a sector counted from a first cluster that others follow.  *)
OnChain(f, r, k) ==
  /\ f.cluster = ChainOf(f.entry)[k]
  /\ r.sector_offset < sectors_per_cluster
  /\ f.offset = k * ClusterSize + r.sector_offset * BLOCK_SIZE + r.byte_offset

RunOn(f, r) ==
  /\ Contiguous(f.entry)
  /\ f.cluster = f.entry.cluster
  /\ r.sector_offset >= sectors_per_cluster
  /\ f.offset = r.sector_offset * BLOCK_SIZE + r.byte_offset

Position(f, r) ==
  f.offset < f.entry.size =>
    RunOn(f, r) \/ \E k \in 0 .. LastCluster(f.entry.size) : OnChain(f, r, k)

(* The last cluster has been read and the next one is looked up. *)
AtEnd(f) ==
  /\ f.offset < f.entry.size
  /\ \E k \in 0 .. LastCluster(f.entry.size) :
       f.cluster = ChainOf(f.entry)[k] /\ f.offset = (k + 1) * ClusterSize

ReadOK ==
  /\ at = "ready" /\ file # NoFile => Kept(file)
  /\ Reading /\ Trusted(file, 0) =>
       /\ Prefix(file, file.out \o rd.data)
       /\ at = "file" => Position(file, rd)
       /\ at = "file_fat" => AtEnd(file)

IndInv == FsOK /\ BusOK /\ ReadOK

-----------------------------------------------------------------------------
(* The drive.                                                              *)

(* The four registers hold every address of a block that the drive has.    *)
LEMMA AddressWritten ==
  ASSUME NEW lba \in 0 .. BYTE * BYTE * BYTE * NIBBLE - 1, NEW c, write_command(lba, c)
  PROVE  Address' = lba
<1> DEFINE q1 == lba \div BYTE
           q2 == q1 \div BYTE
           q3 == q2 \div BYTE
           r1 == lba % BYTE
           r2 == q1 % BYTE
           r3 == q2 % BYTE
<1>1. BYTE \in Nat \ {0} /\ NIBBLE \in Nat \ {0} /\ lba \in Nat
  BY AtaAssumption
<1>2. BYTE * BYTE \in Nat \ {0}
  BY ONLY <1>1
<1>3. lba \div (BYTE * BYTE) = q2
  BY Zenon, <1>1, DivideTwice
<1>4. lba \div (BYTE * BYTE * BYTE) = q3
  <2>1. lba \div ((BYTE * BYTE) * BYTE) = (lba \div (BYTE * BYTE)) \div BYTE
    BY <1>1, <1>2, DivideTwice, Zenon
  <2> QED BY <2>1, <1>3, Zenon
<1>5. /\ q1 \in Nat /\ r1 \in 0 .. BYTE - 1 /\ lba = BYTE * q1 + r1
      /\ q2 \in Nat /\ r2 \in 0 .. BYTE - 1 /\ q1 = BYTE * q2 + r2
      /\ q3 \in Nat /\ r3 \in 0 .. BYTE - 1 /\ q2 = BYTE * q3 + r3
  BY Zenon, <1>1, Division
<1>6. regs' = <<r1, r2, q2 % BYTE, q3 % NIBBLE>>
  BY <1>3, <1>4, Zenon DEF write_command
<1> HIDE DEF q1, q2, q3, r1, r2
<1>7. q3 < NIBBLE
  <2>1. lba = BYTE * BYTE * BYTE * q3 + (BYTE * BYTE * r3 + BYTE * r2 + r1)
    BY ONLY <1>1, <1>5
  <2>2. BYTE * BYTE * r3 + BYTE * r2 + r1 \in Nat
    BY ONLY <1>1, <1>5
  <2> DEFINE b == BYTE * BYTE * BYTE
  <2>3. b \in Nat \ {0}
    BY ONLY <1>1
  <2>4. b * q3 <= lba /\ lba < b * NIBBLE
    BY <2>1, <2>2, <1>1, <1>5
  <2> HIDE DEF b
  <2> QED BY ONLY <2>3, <2>4, <1>1, <1>5
<1>8. q3 % NIBBLE = q3
  BY <1>1, <1>5, <1>7
<1>9. regs'[1] = r1 /\ regs'[2] = r2 /\ regs'[3] = r3 /\ regs'[4] = q3
  BY <1>6, <1>8
<1> QED BY <1>1, <1>5, <1>9 DEF Address

(* The partition that is mounted is one of the table. *)
LEMMA PartFacts ==
  ASSUME disk \in Image, partitions(disk.table) # {}
  PROVE  /\ Part.begin \in Nat /\ Part.total \in Nat
         /\ Part.begin + Part.total <= BYTE * BYTE * BYTE * NIBBLE
<1> DEFINE T == partitions(disk.table)
<1>1. /\ disk.table \in Seq([active : BOOLEAN, begin : Nat, total : Nat])
      /\ \A i \in DOMAIN disk.table :
           disk.table[i].begin + disk.table[i].total <= BYTE * BYTE * BYTE * NIBBLE
  BY Fat16Assumption
<1>2. T \subseteq DOMAIN disk.table /\ DOMAIN disk.table = 1 .. Len(disk.table)
  BY <1>1, LenProperties DEF partitions
<1>3. T \in SUBSET Nat
  BY <1>1, <1>2, LenProperties
<1>4. Min(T) \in DOMAIN disk.table
  BY <1>2, <1>3, MinIsLeast
<1>5. disk.table[Min(T)] \in [active : BOOLEAN, begin : Nat, total : Nat]
  BY Zenon, <1>1, <1>2, <1>4, ElementOfSeq
<1> QED BY <1>1, <1>4, <1>5 DEF Part

(* A block of the partition is asked for, or the driver is left idle. *)
LEMMA Requested ==
  ASSUME disk \in Image, partitions(disk.table) # {}, disk' = disk, pc = "idle",
         NEW sector \in Nat, read_block(sector)
  PROVE  /\ Part' = Part
         /\ pc' # "idle" => InPartition(sector) /\ Address' = Part.begin + sector
         /\ pc' = "idle" => reply' # "Ok"
<1>1. Part' = Part
  BY DEF Part
<1>2. /\ Part.begin \in Nat /\ Part.total \in Nat
      /\ Part.begin + Part.total <= BYTE * BYTE * BYTE * NIBBLE
  BY PartFacts
<1>3. CASE sector >= Part.total
  BY <1>1, <1>3 DEF read_block
<1>4. CASE ~(sector >= Part.total)
  <2>1. write_command(sector + Part.begin, "ReadPio") /\ pc' = "sent"
    BY <1>4 DEF read_block, write_command
  <2>2. sector + Part.begin \in 0 .. BYTE * BYTE * BYTE * NIBBLE - 1
    <3>1. BYTE * BYTE * BYTE * NIBBLE \in Int
      BY AtaAssumption
    <3> QED BY <3>1, <1>2, <1>4
  <2>3. Address' = sector + Part.begin
    BY <2>1, <2>2, AddressWritten
  <2> QED BY <1>1, <1>2, <1>4, <2>1, <2>3 DEF InPartition
<1> QED BY <1>3, <1>4

(* That block is the one the kernel then waits for. *)
LEMMA BusRequested ==
  ASSUME disk \in Image, partitions(disk.table) # {}, disk' = disk, pc = "idle",
         at' \in Places, Sector' \in Nat, read_block(Sector')
  PROVE  BusOK'
BY Requested DEF BusOK, InPartition

(* The bus moves while the file system waits. *)
LEMMA BusSteps ==
  ASSUME IndInv, Bus
  PROVE  IndInv'
<1>1. UNCHANGED fsVars
  BY DEF Bus
<1>2. disk' = disk /\ at' = at /\ walk' = walk /\ file' = file /\ rd' = rd
  BY <1>1 DEF fsVars
<1>3. Sector' = Sector /\ Part' = Part
  BY <1>2 DEF Sector, Part, cluster_to_first_sector
<1>4. FsOK' /\ ReadOK'
  <2>1. FsOK'
    BY <1>2 DEF IndInv, FsOK, Reading, WalkOK, FileOK, RdOK
  <2>2. ReadOK'
    BY ZenonT(30), <1>2, <1>3 DEF IndInv, ReadOK, Reading, Trusted, Prefix, Position, AtEnd,
       Kept, OnChain, RunOn, Allocated, Contiguous, Content, ChainOf
  <2> QED BY <2>1, <2>2
<1>5. BusOK'
  <2>1. CASE pc' # "idle"
    <3>1. pc # "idle" /\ regs' = regs
      BY <2>1 DEF Bus, Driver, sent, poll_busy, check, poll_drq, not_pata, read_data, after,
         answer, Goto, End, Fail
    <3>2. Address' = Address
      BY <3>1 DEF Address
    <3> QED BY <2>1, <3>1, <3>2, <1>2, <1>3 DEF IndInv, BusOK, InPartition
  <2>2. CASE pc' = "idle"
    <3>1. CASE pc = "idle"
      <4>1. reply' = reply /\ block' = block
        BY <3>1, <2>2 DEF Bus, Driver, sent, poll_busy, check, poll_drq, not_pata, read_data,
           after, answer, Goto, End, Fail
      <4> QED BY <2>2, <3>1, <4>1, <1>2, <1>3 DEF IndInv, BusOK, InPartition
    <3>2. CASE pc # "idle"
      <4>1. reply' = "Ok" => block' = Address
        BY <3>2, <2>2 DEF Bus, Driver, sent, poll_busy, check, poll_drq, not_pata, read_data,
           after, answer, Goto, End, Fail
      <4> QED BY <2>2, <3>2, <4>1, <1>2, <1>3 DEF IndInv, BusOK, InPartition
    <3> QED BY <3>1, <3>2
  <2> QED BY <2>1, <2>2
<1> QED BY <1>4, <1>5 DEF IndInv

(* A panic. *)
LEMMA PanicStops ==
  ASSUME IndInv, pc = "idle", panic
  PROVE  IndInv'
<1>1. disk' = disk /\ at' = "panic" /\ file' = file /\ pc' = "idle"
  BY DEF panic, busVars
<1> QED
  BY <1>1 DEF IndInv, FsOK, BusOK, ReadOK, Reading, Places, FileOK

(* Mounting. *)
LEMMA MountSteps ==
  ASSUME IndInv, open_drive \/ parse_mbr \/ mount \/ new \/ mount_failed
  PROVE  IndInv'
<1>1. CASE open_drive
  BY <1>1 DEF open_drive, write_command, IndInv, FsOK, BusOK, ReadOK, Reading, Places
<1>2. CASE parse_mbr
  BY <1>2 DEF parse_mbr, Arrived, write_command, IndInv, FsOK, BusOK, ReadOK, Reading, Places
<1>3. CASE mount
  <2>1. CASE panic
    BY <1>3, <2>1, PanicStops DEF mount, Arrived
  <2>2. CASE ~panic
    <3>1. /\ partitions(disk.table) # {} /\ read_block(0) /\ at = "mbr" /\ pc = "idle"
          /\ at' = "bpb" /\ disk' = disk /\ file' = file
      BY <1>3, <2>2 DEF mount, Arrived
    <3>2. Sector' = 0
      BY <3>1 DEF Sector
    <3>3. BusOK'
      BY <3>1, <3>2, BusRequested DEF IndInv, FsOK, Places
    <3> QED BY <3>1, <3>3 DEF IndInv, FsOK, ReadOK, Reading, Places
  <2> QED BY <2>1, <2>2
<1>4. CASE new
  <2>1. CASE panic
    BY <1>4, <2>1, PanicStops DEF new, Arrived
  <2>2. CASE ~panic
    BY <1>4, <2>2 DEF new, Arrived, busVars, IndInv, FsOK, BusOK, ReadOK, Reading, Places
  <2> QED BY <2>1, <2>2
<1>5. CASE mount_failed
  BY <1>5, PanicStops DEF mount_failed, Refused
<1> QED BY <1>1, <1>2, <1>3, <1>4, <1>5

-----------------------------------------------------------------------------
(* Walking along a path.                                                   *)

(* A call of the file system may begin or go on: nothing is on its way. *)
Free == IndInv /\ pc = "idle" /\ partitions(disk.table) # {} /\ file = NoFile

(* The constants of the volume are numbers. *)
LEMMA Numbers ==
  /\ U16 \in Nat \ {0} /\ U32 \in Nat \ {0} /\ BLOCK_SIZE \in Nat \ {0}
  /\ LEN \in Nat \ {0} /\ sectors_per_cluster \in Nat \ {0}
  /\ root_entries_count \in Nat /\ fat_start \in Nat
  /\ first_root_dir_sector \in Nat /\ first_data_sector \in Nat
  /\ BLOCK_SIZE \div LEN \in Nat
<1>1. /\ U16 \in Nat \ {0} /\ U32 \in Nat \ {0} /\ BLOCK_SIZE \in Nat \ {0}
      /\ LEN \in Nat \ {0} /\ sectors_per_cluster \in Nat \ {0}
      /\ root_entries_count \in Nat /\ reserved_sector_count \in Nat
      /\ fat_count \in Nat /\ sectors_per_fat \in Nat
  BY VolumeAssumption
<1>2. fat_start \in Nat /\ first_root_dir_sector \in Nat
  BY <1>1 DEF fat_start, first_root_dir_sector
<1>3. root_dir_sector_num \in Nat
  <2>1. root_entries_count * LEN \in Nat
    BY <1>1
  <2> QED BY <1>1, <2>1, Division DEF root_dir_sector_num
<1>4. BLOCK_SIZE \div LEN \in Nat
  BY <1>1, Division
<1> QED BY <1>1, <1>2, <1>3, <1>4 DEF first_data_sector

(* A cluster begins at some sector. *)
LEMMA FirstSector ==
  ASSUME NEW cluster \in Int
  PROVE  cluster_to_first_sector(cluster) \in Nat
<1>1. (cluster - 2) * sectors_per_cluster + first_data_sector \in Int
  BY Numbers
<1>2. ASSUME NEW a \in Int PROVE a % U32 \in Nat
  BY Numbers
<1>3. first_root_dir_sector \in Nat
  BY Numbers
<1> QED BY <1>1, <1>2, <1>3 DEF cluster_to_first_sector

(* A call ends without a file. *)
LEMMA CallEnds ==
  ASSUME Free, NEW result, return(result), UNCHANGED <<file, rd>>
  PROVE  IndInv'
<1>1. disk' = disk /\ at' = "ready" /\ file' = NoFile /\ pc' = "idle"
  BY DEF return, Free
<1> QED
  BY <1>1 DEF Free, IndInv, FsOK, BusOK, ReadOK, Reading, Places

(* A traversal begins. *)
LEMMA TraversalBegins ==
  ASSUME Free, NEW cluster \in Int, NEW w, WalkOK(w), traverse(cluster, w)
  PROVE  IndInv'
<1> DEFINE first == cluster_to_first_sector(cluster)
           left == IF cluster = ROOT_DIR THEN root_entries_count
                   ELSE (BLOCK_SIZE \div LEN) * sectors_per_cluster
<1>1. first \in Nat /\ left \in Nat
  BY FirstSector, Numbers
<1>2. /\ read_block(first) /\ at' = "dir" /\ disk' = disk /\ file' = NoFile
      /\ walk' = [w EXCEPT !.cluster = cluster, !.sector = first, !.left = left]
  BY DEF traverse, Free
<1> HIDE DEF first, left
<1>3. WalkOK(walk)'
  BY Zenon, <1>1, <1>2 DEF WalkOK
<1>4. Sector' = first
  BY <1>2, <1>3 DEF Sector, WalkOK
<1>5. BusOK'
  BY <1>1, <1>2, <1>4, BusRequested DEF Free, IndInv, FsOK, Places
<1> QED
  BY <1>2, <1>3, <1>5 DEF Free, IndInv, FsOK, ReadOK, Reading, Places

(* The next part of a path is looked up. *)
LEMMA LookupBegins ==
  ASSUME Free, NEW cluster \in Int, NEW w, WalkOK(w), lookup(w, cluster)
  PROVE  IndInv'
<1>1. \/ \E result : return(result) /\ UNCHANGED <<file, rd>>
      \/ panic
      \/ traverse(cluster, [w EXCEPT !.seen = <<>>])
  BY Zenon DEF lookup
<1>2. WalkOK([w EXCEPT !.seen = <<>>])
  BY EmptySeq DEF WalkOK
<1>3. CASE panic
  BY <1>3, PanicStops DEF Free
<1> QED BY <1>1, <1>2, <1>3, CallEnds, TraversalBegins

(* An entry that was found is one of the disk. *)
LEMMA FoundEntry ==
  ASSUME Free, NEW w, WalkOK(w), NEW part, Matches(w.seen, part) # {}
  PROVE  w.seen[Max(Matches(w.seen, part))] \in EntriesOn(disk)
<1> DEFINE T == Matches(w.seen, part)
<1>1. w.seen \in Seq(EntriesOn(disk))
  BY DEF WalkOK
<1>2. Len(w.seen) \in Nat /\ T \subseteq 1 .. Len(w.seen)
  BY <1>1, LenProperties DEF Matches
<1>3. Max(T) \in 1 .. Len(w.seen)
  BY Zenon, <1>2, MaxIsMember
<1> QED BY <1>1, <1>3, ElementOfSeq

(* A traversal ends: the call returns, goes down into a directory that was *)
(* found, or opens a file that was found.                                  *)
LEMMA TraversalEnds ==
  ASSUME Free, NEW w, WalkOK(w), traversed(w)
  PROVE  IndInv'
<1> DEFINE found == Matches(w.seen, Head(w.parts))
           entry == w.seen[Max(found)]
<1>1. \/ \E result : return(result) /\ UNCHANGED <<file, rd>>
      \/ found # {} /\ lookup([w EXCEPT !.parts = Tail(@)], entry.cluster)
      \/ /\ found # {} /\ ~is_directory(entry)
         /\ \E result : return(result)
         /\ file' = NewFile(entry) /\ UNCHANGED rd
  BY Zenon DEF traversed
<1>5. found # {} => /\ entry \in EntriesOn(disk)
                    /\ entry.cluster \in Nat /\ entry.size \in Nat
  <2>1. disk \in Image
    BY DEF Free, IndInv, FsOK
  <2>2. found # {} => entry \in EntriesOn(disk)
    BY FoundEntry, Zenon
  <2> HIDE DEF entry, found
  <2>3. \A e \in EntriesOn(disk) : e.cluster \in Nat /\ e.size \in Nat
    BY <2>1, Fat16Assumption
  <2> QED BY <2>2, <2>3
<1>2. CASE \E result : return(result) /\ UNCHANGED <<file, rd>>
  BY <1>2, CallEnds
<1>3. CASE found # {} /\ lookup([w EXCEPT !.parts = Tail(@)], entry.cluster)
  <2>1. entry.cluster \in Int
    BY <1>3, <1>5
  <2>2. ASSUME NEW t PROVE WalkOK([w EXCEPT !.parts = t])
    BY DEF WalkOK
  <2> QED BY Zenon, <1>3, <2>1, <2>2, LookupBegins
<1>4. CASE /\ found # {} /\ ~is_directory(entry)
           /\ \E result : return(result)
           /\ file' = NewFile(entry) /\ UNCHANGED rd
  <2>1. /\ entry \in EntriesOn(disk) /\ entry.cluster \in Nat /\ entry.size \in Nat
    BY <1>4, <1>5
  <2>2. disk' = disk /\ at' = "ready" /\ file' = NewFile(entry) /\ pc' = "idle"
    BY <1>4 DEF return, Free
  <2>3. /\ file'.entry = entry /\ file'.offset = 0 /\ file'.out = <<>>
        /\ file'.calls = 0 /\ file'.cluster = entry.cluster
        /\ file'.crossed = FALSE /\ file'.failed = FALSE
    BY <2>2 DEF NewFile
  <2> HIDE DEF entry, found
  <2>4. <<>> \in Seq(Int) /\ Len(<<>>) = 0
    BY EmptySeq
  <2>5. FileOK(file)'
    BY <1>4, <2>1, <2>2, <2>3, <2>4 DEF FileOK, NewFile
  <2>6. ReadOK'
    BY <2>2, <2>3, <2>4 DEF ReadOK, Reading, Kept, Prefix
  <2> QED BY <2>2, <2>5, <2>6 DEF Free, IndInv, FsOK, BusOK, Reading, Places
<1> QED BY <1>1, <1>2, <1>3, <1>4

(* What the directory blocks hold are entries of the disk. *)
LEMMA BlockEntries ==
  ASSUME disk \in Image, NEW sector
  PROVE  Entries(sector) \in Seq(EntriesOn(disk))
<1>1. CASE sector \in DOMAIN disk.blocks
  BY <1>1, Fat16Assumption DEF Entries
<1>2. CASE sector \notin DOMAIN disk.blocks
  <2> DEFINE n == BLOCK_SIZE \div LEN
  <2>1. n \in Nat /\ ZeroEntry \in EntriesOn(disk)
    BY Numbers DEF EntriesOn
  <2> HIDE DEF n
  <2>2. [i \in 1 .. n |-> ZeroEntry] \in Seq(EntriesOn(disk))
    BY <2>1, SeqDef
  <2> QED BY <1>2, <2>2 DEF Entries, n
<1> QED BY <1>1, <1>2

(* The beginning of a sequence. *)
LEMMA Beginning ==
  ASSUME NEW S, NEW q \in Seq(S), NEW n \in 0 .. Len(q)
  PROVE  SubSeq(q, 1, n) \in Seq(S) /\ Len(SubSeq(q, 1, n)) = n
<1>1. Len(q) \in Nat
  BY LenProperties
<1>2. 1 \in 1 .. Len(q) + 1 /\ n \in 1 - 1 .. Len(q)
  BY <1>1
<1> QED BY <1>1, <1>2, SubSeqProperties

(* The entries passed on from a block are some of those it holds. *)
LEMMA PrefixEntries ==
  ASSUME NEW S, NEW q \in Seq(S)
  PROVE  ValidPrefix(q) \in Seq(S)
<1> DEFINE bad == {i \in 1 .. Len(q) : ~is_valid(q[i])}
           P(i) == i \in bad /\ \A j \in bad : i <= j
<1>1. CASE bad = {}
  BY <1>1 DEF ValidPrefix
<1>2. CASE bad # {}
  <2>1. Len(q) \in Nat /\ bad \subseteq 1 .. Len(q) /\ bad \in SUBSET Nat
    BY LenProperties
  <2>2. \E i : P(i)
    BY Zenon, <1>2, <2>1, LeastNatural
  <2>3. ValidPrefix(q) = SubSeq(q, 1, (CHOOSE i : P(i)) - 1)
    BY <1>2, Zenon DEF ValidPrefix
  <2> HIDE DEF P
  <2>4. P(CHOOSE i : P(i))
    BY <2>2, Zenon
  <2>5. (CHOOSE i : P(i)) \in 1 .. Len(q)
    BY <2>1, <2>4 DEF P
  <2>6. (CHOOSE i : P(i)) - 1 \in 0 .. Len(q)
    BY <2>1, <2>5
  <2> QED BY Zenon, <2>3, <2>6, Beginning
<1> QED BY <1>1, <1>2

(* A walk goes on with what it has seen and what is left. *)
LEMMA WalkGoesOn ==
  ASSUME NEW w, WalkOK(w), NEW seen \in Seq(EntriesOn(disk)), NEW left \in Nat,
         NEW sector \in Nat, NEW v,
         v = [w EXCEPT !.seen = seen, !.left = left, !.sector = sector]
  PROVE  WalkOK(v) /\ v.sector \in Nat
BY Zenon DEF WalkOK

(* A block of a directory arrives. *)
LEMMA DirBlock ==
  ASSUME IndInv, dir_block
  PROVE  IndInv'
<1> DEFINE all == Entries(block - Part.begin)
           entries == SubSeq(all, 1, Min({walk.left, Len(all)}))
           valid == ValidPrefix(entries)
           w == [walk EXCEPT !.seen = @ \o valid, !.left = @ - Len(entries),
                             !.sector = @ + 1]
<1>1. at = "dir" /\ pc = "idle"
  BY DEF dir_block, Arrived
<1>2. Free /\ WalkOK(walk) /\ disk \in Image
  BY <1>1 DEF Free, IndInv, FsOK, Places
<1>3. all \in Seq(EntriesOn(disk)) /\ Len(all) \in Nat
  BY <1>2, BlockEntries, LenProperties
<1>4. Min({walk.left, Len(all)}) \in 0 .. Len(all) /\ Min({walk.left, Len(all)}) <= walk.left
  <2>1. walk.left \in Nat
    BY <1>2 DEF WalkOK
  <2> HIDE DEF all
  <2>2. {walk.left, Len(all)} \in SUBSET Nat /\ {walk.left, Len(all)} # {}
    BY <2>1, <1>3
  <2>3. /\ Min({walk.left, Len(all)}) \in {walk.left, Len(all)}
        /\ \A y \in {walk.left, Len(all)} : Min({walk.left, Len(all)}) <= y
    BY Zenon, <2>2, MinIsLeast
  <2> QED BY <2>1, <2>3, <1>3
<1>5. entries \in Seq(EntriesOn(disk)) /\ Len(entries) \in Nat /\ Len(entries) <= walk.left
  <2> HIDE DEF all
  <2>1. entries \in Seq(EntriesOn(disk)) /\ Len(entries) = Min({walk.left, Len(all)})
    BY Zenon, <1>3, <1>4, Beginning
  <2> HIDE DEF entries
  <2> QED BY <2>1, <1>3, <1>4
<1>6. valid \in Seq(EntriesOn(disk))
  BY Zenon, <1>5, PrefixEntries
<1>7. \/ traversed(w)
      \/ /\ read_block(w.sector) /\ walk' = w
         /\ UNCHANGED <<disk, at, file, rd, ret>>
      \/ /\ read_block(fat_start) /\ walk' = w /\ at' = "dir_fat"
         /\ UNCHANGED <<disk, file, rd, ret>>
  BY Zenon DEF dir_block
<1> HIDE DEF all, entries, valid
<1>8. WalkOK(w) /\ w.sector \in Nat
  <2>1. walk.seen \o valid \in Seq(EntriesOn(disk))
    BY <1>2, <1>6, ConcatProperties DEF WalkOK
  <2>2. walk.left - Len(entries) \in Nat /\ walk.sector + 1 \in Nat
    BY <1>2, <1>5 DEF WalkOK
  <2> QED BY Zenon, <2>1, <2>2, <1>2, WalkGoesOn
<1> HIDE DEF w
<1>9. CASE traversed(w)
  BY <1>2, <1>8, <1>9, TraversalEnds
<1>10. CASE /\ read_block(w.sector) /\ walk' = w
            /\ UNCHANGED <<disk, at, file, rd, ret>>
  <2>1. Sector' = w.sector
    BY <1>1, <1>10 DEF Sector
  <2>2. BusOK'
    BY <1>1, <1>2, <1>8, <1>10, <2>1, BusRequested DEF Free, Places
  <2>3. WalkOK(walk)'
    BY <1>8, <1>10 DEF WalkOK
  <2> QED
    BY <1>1, <1>2, <1>10, <2>2, <2>3 DEF Free, IndInv, FsOK, ReadOK, Reading, Places
<1>11. CASE /\ read_block(fat_start) /\ walk' = w /\ at' = "dir_fat"
            /\ UNCHANGED <<disk, file, rd, ret>>
  <2>1. Sector' = fat_start /\ fat_start \in Nat
    BY <1>11, Numbers DEF Sector
  <2>2. BusOK'
    BY <1>1, <1>2, <1>11, <2>1, BusRequested DEF Free, Places
  <2>3. WalkOK(walk)'
    BY <1>8, <1>11 DEF WalkOK
  <2> QED
    BY <1>1, <1>2, <1>11, <2>2, <2>3 DEF Free, IndInv, FsOK, ReadOK, Reading, Places
<1> QED BY <1>7, <1>9, <1>10, <1>11

(* What get_next_cluster returns is a number, and the next cluster if the  *)
(* table holds one.                                                        *)
LEMMA NextOfChain ==
  ASSUME NEW next
  PROVE  /\ NextCluster(next) \in Int
         /\ next \in 2 .. U16 - 11 => NextCluster(next) = next
<1>1. U16 \in Nat /\ U32 \in Nat /\ U16 < U32
  <2>1. U16 <= U16 * sectors_per_cluster
    BY Numbers
  <2>2. U16 * sectors_per_cluster \in Nat
    BY Numbers
  <2> QED BY <2>1, <2>2, Numbers, VolumeAssumption
<1>2. EMPTY \in Int /\ BAD \in Int /\ END_OF_FILE \in Int /\ INVALID \in Int
  BY <1>1 DEF EMPTY, BAD, END_OF_FILE, INVALID
<1>3. next \in 2 .. U16 - 11 => next \in Int /\ next \notin {EMPTY, BAD} /\ ~(next >= U32 - 8)
  BY <1>1 DEF EMPTY, BAD
<1>4. next \in {EMPTY, BAD} => next \in Int
  BY <1>2
<1>5. NextCluster(next) \in Int
  BY <1>2, <1>3, <1>4, Zenon DEF NextCluster
<1>6. next \in 2 .. U16 - 11 => NextCluster(next) = next
  BY <1>3, Zenon DEF NextCluster
<1> QED BY <1>5, <1>6

(* The place of a cluster of data in the table is its number. *)
LEMMA IndexOfCluster ==
  ASSUME NEW c \in 2 .. U16 - 11
  PROVE  FatIndex(c) = c
<1> DEFINE d == 2 * c
<1>1. c \in Nat /\ d \in 0 .. U32 - 1
  BY Numbers, VolumeAssumption
<1>2. ASSUME NEW a \in 0 .. U32 - 1 PROVE a % U32 = a
  BY Numbers
<1>3. d % U32 = d
  BY <1>1, <1>2
<1>4. d \div 2 = c
  BY <1>1
<1> QED BY <1>3, <1>4 DEF FatIndex

(* The block of the table arrives for a directory, or a block of a         *)
(* directory does not.                                                     *)
LEMMA DirNext ==
  ASSUME IndInv, dir_next \/ dir_failed
  PROVE  IndInv'
<1>1. CASE panic
  BY <1>1, PanicStops DEF dir_next, dir_failed, Arrived, Refused
<1>2. CASE ~panic
  <2> DEFINE next == NextCluster(disk.fat[FatIndex(walk.cluster)])
  <2>1. at = "dir_fat" /\ pc = "idle" /\ (traversed(walk) \/ traverse(next, walk))
    BY <1>2 DEF dir_next, dir_failed, Arrived
  <2>2. Free /\ WalkOK(walk)
    BY <2>1 DEF Free, IndInv, FsOK, Places
  <2>3. next \in Int
    BY NextOfChain
  <2> QED BY <2>1, <2>2, <2>3, TraversalEnds, TraversalBegins
<1> QED BY <1>1, <1>2

(* A call on a path begins. *)
LEMMA CallBegins ==
  ASSUME IndInv, NEW op, NEW path, start(op, path)
  PROVE  IndInv'
<1> DEFINE w == [op |-> op, parts |-> parse_path(path), path |-> path,
                 cluster |-> ROOT_DIR, sector |-> 0, left |-> 0, seen |-> <<>>]
<1>1. at = "ready" /\ file = NoFile /\ lookup(w, ROOT_DIR)
  BY DEF start
<1>2. Free
  BY <1>1 DEF Free, IndInv, FsOK, BusOK, Places
<1>3. ROOT_DIR \in Int
  BY Numbers DEF ROOT_DIR
<1>4. WalkOK(w)
  BY <1>3, EmptySeq DEF WalkOK
<1> QED BY <1>1, <1>2, <1>3, <1>4, LookupBegins

-----------------------------------------------------------------------------
(* The bytes of a file.                                                    *)

(* The clusters of a file that has as many as its size needs: they lie     *)
(* among the data, and each leads to the next.                             *)
LEMMA FileChain ==
  ASSUME disk \in Image, NEW f, FileOK(f), Allocated(f.entry), f.entry.size > 0
  PROVE  LET e == f.entry
         IN /\ e.size \in Nat /\ e.cluster \in Nat /\ LastCluster(e.size) \in Nat
            /\ ChainOf(e)[0] = e.cluster
            /\ \A k \in 0 .. LastCluster(e.size) :
                 /\ ChainOf(e)[k] \in 2 .. U16 - 11
                 /\ k > 0 => ChainOf(e)[k] = disk.fat[ChainOf(e)[k - 1]]
<1> DEFINE e == f.entry
           n == LastCluster(e.size)
           c == ChainOf(e)
<1>1. e \in EntriesOn(disk)
  BY DEF FileOK
<1>2. e.cluster \in Nat /\ e.size \in Nat
  BY Zenon, <1>1, Fat16Assumption
<1>10. \A k \in 0 .. n : c[k] \in 2 .. U16 - 11
  BY Zenon DEF Allocated
<1>3. ClusterSize \in Nat \ {0}
  BY Numbers DEF ClusterSize
<1>4. n \in Nat
  <2>1. e.size - 1 \in Nat
    BY <1>2
  <2> QED BY Zenon, <1>3, <2>1, Division DEF LastCluster
<1>5. c = Chain(disk.fat, e.cluster, n)
  BY DEF ChainOf
<1> HIDE DEF e, n, c
<1>6. c = [k \in 0 .. n |-> IF k = 0 THEN e.cluster ELSE disk.fat[c[k - 1]]]
  <2>1. IsChain(Chain(disk.fat, e.cluster, n), disk.fat, e.cluster, n)
    BY <1>4, ChainSteps
  <2> QED BY Zenon, <1>5, <2>1 DEF IsChain
<1>7. \A k \in 0 .. n : c[k] = IF k = 0 THEN e.cluster ELSE disk.fat[c[k - 1]]
  BY Zenon, <1>6
<1>8. c[0] = e.cluster
  BY <1>4, <1>7
<1>9. \A k \in 0 .. n : /\ c[k] \in 2 .. U16 - 11
                        /\ k > 0 => c[k] = disk.fat[c[k - 1]]
  BY <1>4, <1>7, <1>10
<1> QED BY <1>2, <1>4, <1>8, <1>9, Zenon DEF e, n, c

(* Where a cluster of a file begins. *)
LEMMA ClusterSector ==
  ASSUME NEW c \in 2 .. U16 - 11
  PROVE  /\ cluster_to_first_sector(c) = (c - 2) * sectors_per_cluster + first_data_sector
         /\ cluster_to_first_sector(c) \in Nat
<1> DEFINE m == (c - 2) * sectors_per_cluster
<1>1. c - 2 \in Nat /\ c \in Nat /\ c - 2 <= U16 /\ U16 \in Nat
  BY Numbers
<1>2. m \in Nat /\ m <= U16 * sectors_per_cluster /\ U16 * sectors_per_cluster \in Nat
  <2> DEFINE d == c - 2
  <2>1. d \in Nat /\ d <= U16 /\ sectors_per_cluster \in Nat /\ U16 \in Nat
    BY <1>1, Numbers
  <2> HIDE DEF d
  <2>2. d * sectors_per_cluster \in Nat /\ d * sectors_per_cluster <= U16 * sectors_per_cluster
    BY ONLY <2>1
  <2>3. U16 * sectors_per_cluster \in Nat
    BY ONLY <2>1
  <2> QED BY <2>2, <2>3 DEF d
<1>3. m + first_data_sector \in 0 .. U32 - 1
  <2> HIDE DEF m
  <2> QED BY <1>2, Numbers, VolumeAssumption
<1>4. c # ROOT_DIR
  <2>1. U16 <= U16 * sectors_per_cluster
    BY Numbers
  <2> QED BY <2>1, <1>1, <1>2, Numbers, VolumeAssumption DEF ROOT_DIR
<1>5. ASSUME NEW a \in 0 .. U32 - 1 PROVE a % U32 = a
  BY Numbers
<1>6. cluster_to_first_sector(c) = m + first_data_sector
  BY <1>3, <1>4, <1>5 DEF cluster_to_first_sector
<1> HIDE DEF m
<1>7. cluster_to_first_sector(c) \in Nat
  BY <1>2, <1>6, Numbers
<1> QED BY <1>6, <1>7 DEF m

(* A cluster in which a byte of a file lies is one of its chain. *)
LEMMA ClusterOfByte ==
  ASSUME NEW size \in Nat, NEW k \in Nat, k * ClusterSize < size
  PROVE  k \in 0 .. LastCluster(size)
<1> DEFINE q == (size - 1) \div ClusterSize
           r == (size - 1) % ClusterSize
<1>1. ClusterSize \in Nat \ {0}
  BY Numbers DEF ClusterSize
<1>2. k * ClusterSize \in Nat
  BY <1>1
<1>3. size - 1 \in Nat /\ k * ClusterSize <= size - 1
  BY <1>2
<1>4. q \in Nat /\ r \in 0 .. ClusterSize - 1 /\ size - 1 = ClusterSize * q + r
  BY Zenon, <1>1, <1>3, Division
<1> HIDE DEF q, r
<1>5. k * ClusterSize < ClusterSize * (q + 1)
  BY ONLY <1>1, <1>2, <1>3, <1>4, size \in Nat
<1>6. k < q + 1
  BY ONLY <1>1, <1>4, <1>5, k \in Nat
<1> QED BY <1>4, <1>6 DEF q, LastCluster

(* The sizes of a cluster. *)
LEMMA ClusterNumbers ==
  /\ ClusterSize \in Nat \ {0} /\ ClusterSize = sectors_per_cluster * BLOCK_SIZE
  /\ ClusterSize >= BLOCK_SIZE
BY Numbers DEF ClusterSize

(* A byte of a file, by the format. *)
LEMMA ByteOfFile ==
  ASSUME NEW e, e.size \in Nat, NEW o \in Nat, o < e.size, NEW q \in Nat,
         NEW r \in 0 .. ClusterSize - 1, o = ClusterSize * q + r
  PROVE  Content(e)[o + 1]
           = (Part.begin + first_data_sector
                + (ChainOf(e)[q] - 2) * sectors_per_cluster) * BLOCK_SIZE + r
<1> DEFINE c == ChainOf(e)
<1>1. o \div ClusterSize = q /\ o % ClusterSize = r
  BY SMTT(30), ClusterNumbers, Quotient
<1>2. Content(e) = [i \in 1 .. e.size |->
                      (Part.begin + first_data_sector
                        + (c[(i - 1) \div ClusterSize] - 2) * sectors_per_cluster) * BLOCK_SIZE
                      + ((i - 1) % ClusterSize)]
  BY Zenon DEF Content
<1> HIDE DEF c
<1>3. o + 1 \in 1 .. e.size /\ (o + 1) - 1 = o
  OBVIOUS
<1>4. Content(e)[o + 1]
        = (Part.begin + first_data_sector
             + (c[o \div ClusterSize] - 2) * sectors_per_cluster) * BLOCK_SIZE
          + (o % ClusterSize)
  BY <1>2, <1>3
<1> QED BY <1>1, <1>4, Zenon DEF c

(* A byte of the block that has arrived is the byte of the file. *)
LEMMA ByteOfBlock ==
  ASSUME disk \in Image, partitions(disk.table) # {},
         NEW f, FileOK(f), Allocated(f.entry), NEW r, RdOK(r), Position(f, r),
         f.offset < f.entry.size,
         NEW b, b = Part.begin + (cluster_to_first_sector(f.cluster) + r.sector_offset),
         NEW j \in Nat, r.byte_offset + j < BLOCK_SIZE, f.offset + j < f.entry.size
  PROVE  b * BLOCK_SIZE + r.byte_offset + j = Content(f.entry)[f.offset + j + 1]
<1> DEFINE e == f.entry
           o == f.offset + j
           so == r.sector_offset
           bo == r.byte_offset
           pb == Part.begin
           c == ChainOf(e)
<1>1. /\ e.size \in Nat /\ f.offset \in Nat /\ o \in Nat /\ o < e.size
      /\ so \in Nat /\ bo \in Nat /\ bo + j < BLOCK_SIZE
      /\ pb \in Nat /\ b = pb + (cluster_to_first_sector(f.cluster) + so)
      /\ BLOCK_SIZE \in Nat \ {0} /\ sectors_per_cluster \in Nat \ {0}
      /\ first_data_sector \in Nat
      /\ ClusterSize \in Nat \ {0} /\ ClusterSize = sectors_per_cluster * BLOCK_SIZE
  <2>1. e.size \in Nat
    BY Fat16Assumption DEF FileOK
  <2>2. f.offset \in Nat
    BY <2>1 DEF FileOK
  <2>3. so \in Nat /\ bo \in Nat
    BY Numbers DEF RdOK
  <2> QED BY <2>1, <2>2, <2>3, Numbers, ClusterNumbers, PartFacts
<1>2. /\ LastCluster(e.size) \in Nat /\ c[0] = e.cluster
      /\ \A k \in 0 .. LastCluster(e.size) : c[k] \in 2 .. U16 - 11
  <2>1. e.size > 0
    BY <1>1
  <2> QED BY <2>1, FileChain
<1>3. CASE RunOn(f, r)
  <2> DEFINE q == o \div ClusterSize
             m == o % ClusterSize
  <2>1. q \in Nat /\ m \in 0 .. ClusterSize - 1 /\ o = ClusterSize * q + m
    BY Zenon, <1>1, Division
  <2> HIDE DEF q, m
  <2>2. q * ClusterSize < e.size
    <3>1. q * ClusterSize = ClusterSize * q /\ ClusterSize * q \in Nat
      BY ONLY <2>1, <1>1
    <3> QED BY <3>1, <2>1, <1>1
  <2>3. q \in 0 .. LastCluster(e.size)
    BY <2>1, <2>2, <1>1, ClusterOfByte
  <2>4. c[q] = e.cluster + q /\ e.cluster \in 2 .. U16 - 11 /\ f.cluster = e.cluster
    BY SMTT(30), <1>2, <1>3, <2>3 DEF RunOn, Contiguous
  <2>5. b = pb + ((e.cluster - 2) * sectors_per_cluster + first_data_sector + so)
    BY SMTT(30), <1>1, <2>4, ClusterSector
  <2>6. o = so * BLOCK_SIZE + bo + j
    BY SMTT(30), <1>1, <1>3 DEF RunOn
  <2>7. Content(e)[o + 1]
          = (pb + first_data_sector + (c[q] - 2) * sectors_per_cluster) * BLOCK_SIZE + m
    BY <1>1, <2>1, ByteOfFile
  <2> DEFINE ec == e.cluster
             C == Content(e)[o + 1]
  <2>8. /\ ec \in Nat /\ b = pb + ((ec - 2) * sectors_per_cluster + first_data_sector + so)
        /\ C = (pb + first_data_sector + ((ec + q) - 2) * sectors_per_cluster) * BLOCK_SIZE + m
    <3>1. ec \in Nat
      BY <2>4, Numbers
    <3> QED BY ZenonT(30), <3>1, <2>4, <2>5, <2>7
  <2> HIDE DEF ec, C, e, o, so, bo, pb, c
  <2>9. C = (pb + first_data_sector + (ec - 2) * sectors_per_cluster) * BLOCK_SIZE
              + (sectors_per_cluster * BLOCK_SIZE) * q + m
    BY ONLY <2>1, <2>8, <1>1
  <2>10. C = (pb + first_data_sector + (ec - 2) * sectors_per_cluster) * BLOCK_SIZE + o
    BY ONLY <2>1, <2>8, <2>9, <1>1
  <2>11. b * BLOCK_SIZE + bo + j
           = (pb + first_data_sector + (ec - 2) * sectors_per_cluster) * BLOCK_SIZE
               + (so * BLOCK_SIZE + bo + j)
    BY ONLY <2>8, <1>1, j \in Nat
  <2>12. b * BLOCK_SIZE + bo + j = C
    BY ONLY <2>6, <2>10, <2>11
  <2> QED BY <2>12 DEF C, e, o, bo
<1>4. ASSUME NEW k \in 0 .. LastCluster(e.size), OnChain(f, r, k)
      PROVE  b * BLOCK_SIZE + bo + j = Content(e)[o + 1]
  <2> DEFINE m == so * BLOCK_SIZE + bo + j
             ck == c[k]
             C == Content(e)[o + 1]
  <2>1. k \in Nat /\ ck \in 2 .. U16 - 11 /\ f.cluster = ck
    BY <1>2, <1>4 DEF OnChain
  <2>2. o = ClusterSize * k + m /\ so + 1 <= sectors_per_cluster
    <3>1. /\ f.offset = k * ClusterSize + so * BLOCK_SIZE + bo
          /\ so < sectors_per_cluster
      BY <1>4 DEF OnChain
    <3> DEFINE fo == f.offset
    <3>2. fo = k * ClusterSize + so * BLOCK_SIZE + bo /\ o = fo + j /\ fo \in Nat
      BY <3>1, <1>1
    <3> HIDE DEF fo, o, so, bo
    <3>3. o = ClusterSize * k + (so * BLOCK_SIZE + bo + j)
      BY ONLY <3>2, <1>1, <2>1, j \in Nat
    <3> QED BY <3>1, <3>3, <1>1 DEF so
  <2> HIDE DEF e, o, so, bo, pb, c, ck
  <2>3. m \in 0 .. ClusterSize - 1
    <3>1. (so + 1) * BLOCK_SIZE <= sectors_per_cluster * BLOCK_SIZE
      BY ONLY <1>1, <2>2
    <3>2. (so + 1) * BLOCK_SIZE = so * BLOCK_SIZE + BLOCK_SIZE /\ so * BLOCK_SIZE \in Nat
      BY ONLY <1>1
    <3>3. sectors_per_cluster * BLOCK_SIZE \in Nat
      BY ONLY <1>1
    <3> QED BY <3>1, <3>2, <3>3, <1>1
  <2> HIDE DEF m
  <2>4. C = (pb + first_data_sector + (ck - 2) * sectors_per_cluster) * BLOCK_SIZE + m
    BY <1>1, <2>1, <2>2, <2>3, ByteOfFile DEF C, pb, ck, c
  <2>5. b = pb + ((ck - 2) * sectors_per_cluster + first_data_sector + so)
    BY <1>1, <2>1, ClusterSector
  <2> HIDE DEF C
  <2>6. ck \in Nat
    BY <2>1, Numbers
  <2>7. b * BLOCK_SIZE + bo + j
           = (pb + first_data_sector + (ck - 2) * sectors_per_cluster) * BLOCK_SIZE
               + (so * BLOCK_SIZE + bo + j)
    BY ONLY <2>5, <2>6, <1>1, j \in Nat
  <2> QED BY <2>4, <2>7 DEF C, m
<1> QED BY <1>3, <1>4 DEF Position

-----------------------------------------------------------------------------
(* Reads.                                                                  *)

(* A record of an open file is not the one for no file. *)
LEMMA FileIsOpen ==
  ASSUME NEW f, FileOK(f)
  PROVE  f # NoFile
<1>1. "offset" \in DOMAIN f
  BY DEF FileOK
<1>2. DOMAIN NoFile = {"entry"}
  BY DEF NoFile
<1> QED BY <1>1, <1>2

(* A block of a file, or of the table, is asked for during a read. *)
LEMMA ReadGoesOn ==
  ASSUME disk \in Image, partitions(disk.table) # {}, disk' = disk, pc = "idle",
         at' \in {"file", "file_fat"}, NEW g, FileOK(g), file' = g,
         NEW r, RdOK(r), rd' = r,
         at' = "file_fat" => r.sector_offset = 0 /\ r.byte_offset = 0,
         read_block(IF at' = "file" THEN cluster_to_first_sector(g.cluster) + r.sector_offset
                    ELSE fat_start),
         Trusted(g, 0) => /\ Prefix(g, g.out \o r.data)
                          /\ at' = "file" => Position(g, r)
                          /\ at' = "file_fat" => AtEnd(g)
  PROVE  IndInv'
<1>1. Sector' = IF at' = "file" THEN cluster_to_first_sector(g.cluster) + r.sector_offset
                ELSE fat_start
  BY DEF Sector, cluster_to_first_sector
<1>2. Sector' \in Nat
  BY SMTT(30), <1>1, FirstSector, Numbers DEF FileOK, RdOK
<1>3. BusOK'
  BY <1>1, <1>2, BusRequested DEF Places
<1>4. FileOK(file)' /\ RdOK(rd)'
  BY DEF FileOK, RdOK
<1>5. (file # NoFile)'
  BY FileIsOpen
<1>6. FsOK'
  BY SMTT(30), <1>4, <1>5 DEF FsOK, Reading, Places
<1>7. ReadOK'
  BY ZenonT(30) DEF ReadOK, Reading, Trusted, Prefix, Position, AtEnd, OnChain, RunOn, Allocated,
     Contiguous, Content, ChainOf, Part
<1> QED BY <1>3, <1>6, <1>7 DEF IndInv

(* A read ends. *)
LEMMA ReadEnds ==
  ASSUME disk \in Image, partitions(disk.table) # {}, disk' = disk, pc' = "idle",
         at' = "ready", NEW g, FileOK(g), file' = g, Kept(g)
  PROVE  IndInv'
<1>1. FileOK(file)'
  BY DEF FileOK
<1>2. FsOK' /\ BusOK'
  BY <1>1 DEF FsOK, BusOK, Reading, Places
<1>3. ReadOK'
  BY Zenon DEF ReadOK, Reading, Kept, Trusted, Prefix, Allocated, Contiguous, Content, ChainOf,
     Part
<1> QED BY <1>2, <1>3 DEF IndInv

(* A read begins: at its first byte, the file is in its first cluster, or  *)
(* the clusters are consecutive, if the read is one that can be trusted.   *)
LEMMA ReadBegins ==
  ASSUME disk \in Image, partitions(disk.table) # {}, pc = "idle",
         NEW f, FileOK(f), Kept(f), NEW op, NEW need \in Nat, NEW all,
         begin_read(op, f, need, all)
  PROVE  IndInv'
<1> DEFINE so == f.offset \div BLOCK_SIZE
           bo == f.offset % BLOCK_SIZE
           crossed == f.crossed \/ f.cluster # f.entry.cluster
           r == [op |-> op, need |-> need, data |-> <<>>, all |-> all,
                 sector_offset |-> so, byte_offset |-> bo]
           g == [f EXCEPT !.crossed = crossed]
<1>1. /\ rd' = r /\ file' = g /\ at' = "file" /\ disk' = disk
      /\ read_block(cluster_to_first_sector(f.cluster) + so)
  BY DEF begin_read
<1>2. /\ f.entry.size \in Nat /\ f.offset \in Nat /\ f.offset <= f.entry.size
      /\ f.out \in Seq(Int)
  <2>1. f.entry.size \in Nat
    BY Fat16Assumption DEF FileOK
  <2> QED BY <2>1 DEF FileOK
<1>3. /\ so \in Nat /\ bo \in 0 .. BLOCK_SIZE - 1
      /\ f.offset = BLOCK_SIZE * so + bo
  BY Zenon, <1>2, Numbers, Division
<1>4. crossed \in BOOLEAN
  BY DEF FileOK
<1> HIDE DEF so, bo, crossed
<1>5. RdOK(r) /\ r.data = <<>> /\ r.sector_offset = so /\ r.byte_offset = bo
  BY <1>3, EmptySeq DEF RdOK
<1>6. /\ FileOK(g) /\ g.entry = f.entry /\ g.offset = f.offset /\ g.cluster = f.cluster
      /\ g.out = f.out /\ g.calls = f.calls /\ g.crossed = crossed /\ g.failed = f.failed
  BY <1>4 DEF FileOK
<1> HIDE DEF r, g
<1>7. ASSUME Trusted(g, 0) PROVE Prefix(g, g.out \o r.data) /\ Position(g, r)
  <2>1. /\ Allocated(f.entry)
        /\ ~f.failed /\ ~f.crossed /\ f.cluster = f.entry.cluster
        /\ Contiguous(f.entry) \/ f.calls <= 0
    BY Zenon, <1>6, <1>7 DEF Trusted, crossed
  <2>2. f.calls \in 0 .. 2
    BY DEF FileOK
  <2>3. Prefix(f, f.out)
    BY <2>1, <2>2 DEF Kept, Trusted
  <2>4. g.out \o r.data = f.out
    BY <1>2, <1>5, <1>6, ConcatEmptySeq
  <2>5. Prefix(g, g.out \o r.data)
    BY <1>6, <2>3, <2>4 DEF Prefix
  <2>6. ASSUME f.offset < f.entry.size
        PROVE  RunOn(g, r) \/ \E k \in 0 .. LastCluster(g.entry.size) : OnChain(g, r, k)
    <3>1. LastCluster(f.entry.size) \in Nat /\ ChainOf(f.entry)[0] = f.entry.cluster
      <4>1. f.entry.size > 0
        BY <1>2, <2>6
      <4> QED BY <2>1, <4>1, FileChain
    <3>2. f.offset = so * BLOCK_SIZE + bo /\ so * BLOCK_SIZE \in Nat
      BY <1>3, Numbers
    <3>3. CASE so < sectors_per_cluster
      <4>1. f.offset = 0 * ClusterSize + so * BLOCK_SIZE + bo
        BY SMTT(30), <3>2, <1>3, ClusterNumbers, Numbers
      <4>2. OnChain(g, r, 0)
        BY ZenonT(30), <2>1, <3>1, <3>3, <4>1, <1>5, <1>6 DEF OnChain
      <4> QED BY <3>1, <4>2, <1>6
    <3>4. CASE ~(so < sectors_per_cluster)
      <4>1. so >= sectors_per_cluster /\ so # 0
        BY <3>4, <1>3, Numbers
      <4>2. f.offset # 0
        <5>1. so * BLOCK_SIZE > 0
          BY ONLY <4>1, <1>3, Numbers
        <5> QED BY <5>1, <3>2, <1>3, Numbers
      <4>3. Contiguous(f.entry)
        BY <2>1, <2>2, <4>2 DEF Kept
      <4> QED BY <4>1, <4>3, <2>1, <3>2, <1>5, <1>6 DEF RunOn
    <3> QED BY <3>3, <3>4
  <2> QED BY <2>5, <2>6, <1>6 DEF Position
<1>8. read_block(IF at' = "file" THEN cluster_to_first_sector(g.cluster) + r.sector_offset
                 ELSE fat_start)
  BY <1>1, <1>5, <1>6
<1> QED BY Zenon, <1>1, <1>5, <1>6, <1>7, <1>8, ReadGoesOn

(* One more read has ended. *)
LEMMA OneMoreCall ==
  ASSUME NEW c \in 0 .. 2
  PROVE  /\ Min({c + 1, 2}) \in 1 .. 2
         /\ Min({c + 1, 2}) <= 1 => c = 0
<1>1. {c + 1, 2} \in SUBSET Nat /\ {c + 1, 2} # {}
  OBVIOUS
<1>2. Min({c + 1, 2}) \in {c + 1, 2} /\ \A y \in {c + 1, 2} : Min({c + 1, 2}) <= y
  BY <1>1, MinIsLeast
<1> QED BY <1>2

(* The numbers of a read in progress. *)
LEMMA ReadNumbers ==
  ASSUME IndInv, Reading
  PROVE  /\ disk \in Image /\ partitions(disk.table) # {} /\ FileOK(file) /\ RdOK(rd)
         /\ file.entry.size \in Nat /\ file.offset \in Nat
         /\ file.offset <= file.entry.size /\ file.out \in Seq(Int)
         /\ rd.data \in Seq(Int) /\ Len(rd.data) \in Nat /\ rd.need \in Nat
         /\ Len(rd.data) <= rd.need /\ rd.sector_offset \in Nat
         /\ rd.byte_offset \in 0 .. BLOCK_SIZE - 1 /\ rd.byte_offset \in Nat
         /\ BLOCK_SIZE \in Nat \ {0}
<1>1. disk \in Image /\ partitions(disk.table) # {} /\ FileOK(file) /\ RdOK(rd)
  BY DEF IndInv, FsOK, Reading, Places
<1>2. file.entry.size \in Nat
  BY <1>1, Fat16Assumption DEF FileOK
<1>3. rd.data \in Seq(Int) /\ Len(rd.data) \in Nat
  BY <1>1, LenProperties DEF RdOK
<1> QED BY SMTT(30), <1>1, <1>2, <1>3, Numbers DEF FileOK, RdOK

(* Appending twice, and the numbers of the bytes appended. *)
LEMMA Regroup ==
  ASSUME NEW a \in Seq(Int), NEW b \in Seq(Int), NEW c \in Seq(Int)
  PROVE  a \o (b \o c) = (a \o b) \o c
BY ConcatAssociative, SMTT(30)

(* Places in the second part of a concatenation.                           *)
LEMMA Beyond ==
  ASSUME NEW a \in Nat, NEW n \in Nat, NEW i \in 1 .. a + n, ~(i <= a)
  PROVE  /\ i - a - 1 \in Nat /\ i - a - 1 < n /\ i - a \in 1 .. n
         /\ i - a = (i - a - 1) + 1 /\ i = a + (i - a - 1) + 1
         /\ i \in a + 1 .. a + n
OBVIOUS

(* An offset within a part is within the whole.                            *)
LEMMA Within ==
  ASSUME NEW a \in Nat, NEW n \in Nat, NEW m \in Nat, a + n <= m, NEW j \in Nat, j < n
  PROVE  a + j < m /\ a < m
OBVIOUS

(* The elements of two sequences, one after the other. *)
LEMMA Continued ==
  ASSUME NEW s \in Seq(Int), NEW t \in Seq(Int)
  PROVE  /\ s \o t \in Seq(Int) /\ Len(s \o t) = Len(s) + Len(t)
         /\ \A i \in 1 .. Len(s) : (s \o t)[i] = s[i]
         /\ \A i \in Len(s) + 1 .. Len(s) + Len(t) : (s \o t)[i] = t[i - Len(s)]
BY ConcatProperties

(* The bytes copied from a block continue the file. *)
LEMMA BytesCopied ==
  ASSUME IndInv, Arrived("file"), NEW n \in Nat,
         rd.byte_offset + n <= BLOCK_SIZE, file.offset + n <= file.entry.size,
         NEW bytes, bytes = [i \in 1 .. n |-> block * BLOCK_SIZE + rd.byte_offset + i - 1]
  PROVE  /\ bytes \in Seq(Int) /\ Len(bytes) = n
         /\ rd.data \o bytes \in Seq(Int) /\ Len(rd.data \o bytes) = Len(rd.data) + n
         /\ Trusted(file, 0) =>
              \A f : f.entry = file.entry /\ f.offset = file.offset + n =>
                Prefix(f, file.out \o (rd.data \o bytes))
<1>1. at = "file" /\ pc = "idle" /\ reply = "Ok" /\ Reading
  BY DEF Arrived, Reading
<1> USE ReadNumbers, <1>1
<1>2. block = Part.begin + (cluster_to_first_sector(file.cluster) + rd.sector_offset)
  BY DEF IndInv, BusOK, Places, Sector
<1>3. block \in Int
  BY <1>2, PartFacts, FirstSector DEF FileOK
<1>4. \A i \in 1 .. n : block * BLOCK_SIZE + rd.byte_offset + i - 1 \in Int
  BY <1>3
<1>5. bytes \in Seq(Int) /\ Len(bytes) = n
  <2>1. bytes \in [1 .. n -> Int]
    BY <1>4
  <2>2. bytes \in Seq(Int)
    BY <2>1, SeqDef
  <2>3. DOMAIN bytes = 1 .. Len(bytes) /\ Len(bytes) \in Nat
    BY <2>2, LenProperties
  <2> QED BY <2>1, <2>2, <2>3
<1>6. /\ rd.data \o bytes \in Seq(Int) /\ Len(rd.data \o bytes) = Len(rd.data) + n
  BY <1>5, ConcatProperties
<1>8. /\ file.offset \in Nat /\ file.entry.size \in Nat /\ rd.byte_offset \in Nat
      /\ BLOCK_SIZE \in Nat
  OBVIOUS
<1>7. ASSUME Trusted(file, 0), NEW f, f.entry = file.entry, f.offset = file.offset + n
      PROVE  Prefix(f, file.out \o (rd.data \o bytes))
  <2> DEFINE old == file.out \o rd.data
             all == file.out \o (rd.data \o bytes)
  <2>1. Prefix(file, old) /\ Position(file, rd) /\ Allocated(file.entry)
    BY <1>7 DEF IndInv, ReadOK, Trusted
  <2>2. old \in Seq(Int) /\ Len(old) = file.offset
    BY <2>1, ConcatProperties DEF Prefix
  <2>3. all = old \o bytes
    <3>1. file.out \in Seq(Int) /\ rd.data \in Seq(Int) /\ bytes \in Seq(Int)
      BY <1>5
    <3> QED BY ONLY Zenon, <3>1, Regroup DEF all, old
  <2> HIDE DEF old, all
  <2>4. /\ all \in Seq(Int) /\ Len(all) = file.offset + n
        /\ \A i \in 1 .. file.offset : all[i] = old[i]
        /\ \A i \in file.offset + 1 .. file.offset + n : all[i] = bytes[i - file.offset]
    <3>1. /\ old \o bytes \in Seq(Int) /\ Len(old \o bytes) = Len(old) + Len(bytes)
          /\ \A i \in 1 .. Len(old) : (old \o bytes)[i] = old[i]
          /\ \A i \in Len(old) + 1 .. Len(old) + Len(bytes) :
               (old \o bytes)[i] = bytes[i - Len(old)]
      BY ONLY Zenon, <1>5, <2>2, Continued
    <3> QED BY ONLY <3>1, <1>5, <2>2, <2>3
  <2>5. ASSUME NEW i \in 1 .. file.offset + n
        PROVE  all[i] = Content(file.entry)[i]
    <3>1. CASE i <= file.offset
      <4>1. i \in 1 .. file.offset
        BY <3>1
      <4> QED BY <4>1, <2>1, <2>4 DEF Prefix
    <3>2. CASE ~(i <= file.offset)
      <4> DEFINE j == i - file.offset - 1
      <4>1. /\ j \in Nat /\ j < n /\ i - file.offset \in 1 .. n
            /\ i - file.offset = j + 1 /\ i = file.offset + j + 1
            /\ i \in file.offset + 1 .. file.offset + n
        BY Zenon, <1>8, <3>2, Beyond
      <4>2. all[i] = block * BLOCK_SIZE + rd.byte_offset + (j + 1) - 1
        BY Zenon, <2>4, <4>1
      <4> HIDE DEF j
      <4>3. all[i] = block * BLOCK_SIZE + rd.byte_offset + j
        BY <4>1, <4>2, <1>3
      <4>4. /\ rd.byte_offset + j < BLOCK_SIZE /\ file.offset + j < file.entry.size
            /\ file.offset < file.entry.size
        BY ZenonT(30), <4>1, <1>8, Within
      <4>5. block * BLOCK_SIZE + rd.byte_offset + j
              = Content(file.entry)[file.offset + j + 1]
        BY ZenonT(30), <1>2, <2>1, <4>1, <4>4, ByteOfBlock
      <4> QED BY <4>1, <4>3, <4>5
    <3> QED BY <3>1, <3>2
  <2>6. Prefix(f, all)
    BY Zenon, <1>7, <2>4, <2>5 DEF Prefix
  <2> QED BY <2>6 DEF all
<1> QED BY <1>5, <1>6, <1>7

(* The read delivers its data, and read_all reads again. *)
LEMMA ReadDone ==
  ASSUME IndInv, Arrived("file"), NEW f, FileOK(f), f.entry = file.entry,
         f.out = file.out, f.calls = file.calls, f.crossed = file.crossed,
         f.failed = file.failed, NEW data \in Seq(Int),
         Trusted(file, 0) => Prefix(f, f.out \o data),
         read_done(f, data)
  PROVE  IndInv'
<1> DEFINE out == f.out \o data
           calls == Min({f.calls + 1, 2})
           g == [f EXCEPT !.out = out, !.calls = calls]
<1>1. Reading /\ pc = "idle"
  BY DEF Arrived, Reading
<1>2. calls \in 1 .. 2 /\ (calls <= 1 => f.calls = 0)
  BY Zenon, OneMoreCall DEF FileOK
<1>3. out \in Seq(Int)
  BY ConcatProperties DEF FileOK
<1>4. \/ begin_read("read_all", g, UNIT, rd.all \o Pad(data))
      \/ /\ file' = g /\ at' = "ready" /\ disk' = disk /\ pc' = "idle"
  BY <1>1 DEF read_done, return
<1>8. g = [f EXCEPT !.out = out, !.calls = calls]
  OBVIOUS
<1> HIDE DEF out, calls, g
<1>5. /\ FileOK(g) /\ g.out = out /\ g.calls = calls /\ g.entry = f.entry
      /\ g.offset = f.offset /\ g.crossed = f.crossed /\ g.failed = f.failed
  <2>2. g = [entry |-> f.entry, offset |-> f.offset, cluster |-> f.cluster, out |-> out,
             calls |-> calls, crossed |-> f.crossed, failed |-> f.failed]
    BY Zenon, <1>8 DEF FileOK
  <2> QED BY <1>2, <1>3, <2>2 DEF FileOK
<1>6. Kept(g)
  <2>1. ASSUME Trusted(g, 1) PROVE Prefix(g, g.out)
    <3>1. Trusted(file, 0)
      BY <1>2, <1>5, <2>1 DEF Trusted
    <3>2. Prefix(f, out)
      BY <3>1 DEF out
    <3> QED BY <3>2, <1>5 DEF Prefix
  <2>2. g.calls # 0
    BY <1>2, <1>5
  <2> QED BY <2>1, <2>2 DEF Kept
<1>7. UNIT \in Nat
  BY Fat16Assumption
<1> QED BY <1>1, <1>4, <1>5, <1>6, <1>7, ReadNumbers, ReadBegins, ReadEnds

(* The file after a block of it was copied. *)
LEMMA FileMoved ==
  ASSUME NEW f, FileOK(f), NEW offset \in 0 .. f.entry.size,
         NEW g, g = [f EXCEPT !.offset = offset]
  PROVE  /\ FileOK(g) /\ g.offset = offset /\ g.out = f.out /\ g.calls = f.calls
         /\ g.entry = f.entry /\ g.cluster = f.cluster
         /\ g.crossed = f.crossed /\ g.failed = f.failed
BY DEF FileOK

(* A block of a file arrives. *)
LEMMA FileBlock ==
  ASSUME IndInv, file_block
  PROVE  IndInv'
<1> DEFINE T == {rd.need - Len(rd.data), BLOCK_SIZE - rd.byte_offset,
                 file.entry.size - file.offset}
           n == Min(T)
           bytes == [i \in 1 .. n |-> block * BLOCK_SIZE + rd.byte_offset + i - 1]
           data == rd.data \o bytes
           f == [file EXCEPT !.offset = @ + n]
           so == rd.sector_offset + 1
           r == NextSector([rd EXCEPT !.data = data])
           r0 == [r EXCEPT !.sector_offset = 0]
<1>1. Arrived("file") /\ at = "file" /\ pc = "idle" /\ Reading
  BY DEF file_block, Arrived, Reading
<1>2. /\ disk \in Image /\ partitions(disk.table) # {} /\ FileOK(file) /\ RdOK(rd)
      /\ file.entry.size \in Nat /\ file.offset \in Nat
      /\ file.offset <= file.entry.size
      /\ Len(rd.data) \in Nat /\ rd.need \in Nat
      /\ Len(rd.data) <= rd.need /\ rd.sector_offset \in Nat
      /\ rd.byte_offset \in 0 .. BLOCK_SIZE - 1 /\ rd.byte_offset \in Nat
      /\ BLOCK_SIZE \in Nat \ {0}
  BY <1>1, ReadNumbers
<1>3. \/ read_done(f, data)
      \/ /\ Len(data) # rd.need /\ f.offset # f.entry.size
         /\ r.sector_offset = sectors_per_cluster
         /\ file' = f /\ rd' = r0 /\ read_block(fat_start) /\ at' = "file_fat"
         /\ UNCHANGED <<disk, walk, ret>>
      \/ /\ ~(Len(data) = rd.need \/ f.offset = f.entry.size)
         /\ ~(/\ Len(data) # rd.need /\ f.offset # f.entry.size
              /\ r.sector_offset = sectors_per_cluster)
         /\ file' = f /\ rd' = r
         /\ read_block(cluster_to_first_sector(f.cluster) + r.sector_offset)
         /\ UNCHANGED <<disk, at, walk, ret>>
  BY Zenon DEF file_block
<1>4. /\ n \in Nat /\ n \in T /\ Len(rd.data) + n <= rd.need
      /\ rd.byte_offset + n <= BLOCK_SIZE /\ file.offset + n <= file.entry.size
  <2>1. T \in SUBSET Nat /\ T # {}
    BY <1>2
  <2>2. n \in T /\ \A y \in T : n <= y
    BY Zenon, <2>1, MinIsLeast
  <2>3. /\ n <= rd.need - Len(rd.data) /\ n <= BLOCK_SIZE - rd.byte_offset
        /\ n <= file.entry.size - file.offset
    BY <2>2
  <2>4. n \in Nat
    BY <2>1, <2>2
  <2> HIDE DEF n, T
  <2>5. ASSUME NEW a \in Nat, NEW b \in Nat, n <= b - a PROVE a + n <= b
    BY <2>4, <2>5
  <2> QED BY Zenon, <1>2, <2>2, <2>3, <2>4, <2>5
<1> HIDE DEF n
<1>5. /\ data \in Seq(Int) /\ Len(data) = Len(rd.data) + n
      /\ Trusted(file, 0) =>
           \A x : x.entry = file.entry /\ x.offset = file.offset + n =>
             Prefix(x, file.out \o data)
  BY Zenon, <1>1, <1>4, BytesCopied
<1> HIDE DEF bytes, data
<1>6. /\ FileOK(f) /\ f.offset = file.offset + n /\ f.out = file.out
      /\ f.calls = file.calls /\ f.entry = file.entry /\ f.cluster = file.cluster
      /\ f.crossed = file.crossed /\ f.failed = file.failed
  <2>1. f = [file EXCEPT !.offset = file.offset + n]
    OBVIOUS
  <2> HIDE DEF f
  <2>2. file.offset + n \in 0 .. file.entry.size
    BY <1>2, <1>4
  <2> QED BY <2>1, <2>2, <1>2, FileMoved
<1>7. /\ RdOK(r) /\ r.data = data /\ r.byte_offset = 0 /\ r.sector_offset = so
      /\ RdOK(r0) /\ r0.data = data /\ r0.byte_offset = 0 /\ r0.sector_offset = 0
      /\ so \in Nat
  <2>1. so \in Nat /\ 0 \in 0 .. BLOCK_SIZE - 1 /\ Len(data) <= rd.need
    BY <1>2, <1>4, <1>5
  <2> HIDE DEF so
  <2>2. r = [op |-> rd.op, need |-> rd.need, data |-> data, all |-> rd.all,
             sector_offset |-> so, byte_offset |-> 0]
    <3> DEFINE t == [rd EXCEPT !.data = data]
    <3>1. t = [op |-> rd.op, need |-> rd.need, data |-> data, all |-> rd.all,
               sector_offset |-> rd.sector_offset, byte_offset |-> rd.byte_offset]
      BY SMTT(30), <1>2 DEF RdOK
    <3>2. r = [t EXCEPT !.byte_offset = 0, !.sector_offset = so]
      BY <3>1 DEF NextSector, so
    <3> HIDE DEF t, r
    <3> QED BY Zenon, <3>1, <3>2
  <2> HIDE DEF r
  <2>3. r0 = [op |-> rd.op, need |-> rd.need, data |-> data, all |-> rd.all,
              sector_offset |-> 0, byte_offset |-> 0]
    BY <2>2
  <2> HIDE DEF r0
  <2>4. /\ RdOK(r) /\ r.data = data /\ r.byte_offset = 0 /\ r.sector_offset = so
    BY <1>2, <1>5, <2>1, <2>2 DEF RdOK
  <2>5. /\ RdOK(r0) /\ r0.data = data /\ r0.byte_offset = 0 /\ r0.sector_offset = 0
    BY SMTT(30), <1>2, <1>5, <2>1, <2>3 DEF RdOK
  <2> QED BY <2>1, <2>4, <2>5
<1> HIDE DEF f, r, r0
<1>8. Trusted(f, 0) => Trusted(file, 0) /\ Prefix(f, f.out \o data)
  BY <1>5, <1>6 DEF Trusted
<1>9. CASE read_done(f, data)
  <2>1. Trusted(file, 0) => Prefix(f, f.out \o data)
    BY <1>5, <1>6
  <2> QED BY Zenon, <1>1, <1>5, <1>6, <1>9, <2>1, ReadDone
<1>10. ASSUME Len(data) # rd.need, f.offset # f.entry.size
       PROVE  /\ n = BLOCK_SIZE - rd.byte_offset
              /\ f.offset < f.entry.size /\ file.offset < file.entry.size
  <2>1. /\ Len(rd.data) + n # rd.need /\ file.offset + n # file.entry.size
        /\ n \in {rd.need - Len(rd.data), BLOCK_SIZE - rd.byte_offset,
                  file.entry.size - file.offset}
    BY <1>4, <1>5, <1>6, <1>10
  <2>2. n = BLOCK_SIZE - rd.byte_offset /\ file.offset + n < file.entry.size
    <3>1. n # rd.need - Len(rd.data)
      BY <2>1, <1>2, <1>4
    <3>2. n # file.entry.size - file.offset
      BY <2>1, <1>2, <1>4
    <3>3. file.offset + n < file.entry.size
      BY <2>1, <1>2, <1>4
    <3> QED BY <2>1, <3>1, <3>2, <3>3
  <2>3. file.offset < file.entry.size
    BY SMTT(30), <2>2, <1>2, <1>4
  <2> QED BY <2>2, <2>3, <1>6
<1>11. ASSUME Trusted(f, 0), Len(data) # rd.need, f.offset # f.entry.size
       PROVE  \/ /\ RunOn(file, rd)
                 /\ f.offset = so * BLOCK_SIZE
              \/ \E k \in 0 .. LastCluster(f.entry.size) :
                   /\ OnChain(file, rd, k) /\ k \in Nat
                   /\ f.offset = k * ClusterSize + so * BLOCK_SIZE
  <2>1. RunOn(file, rd) \/ \E k \in 0 .. LastCluster(file.entry.size) : OnChain(file, rd, k)
    BY <1>1, <1>8, <1>10, <1>11 DEF IndInv, ReadOK, Position
  <2>2. ClusterSize \in Nat
    BY ClusterNumbers
  <2>3. n = BLOCK_SIZE - rd.byte_offset
    BY <1>10, <1>11
  <2> DEFINE y == rd.sector_offset * BLOCK_SIZE
  <2>6. y \in Nat /\ so * BLOCK_SIZE = y + BLOCK_SIZE
    BY SMTT(30), <1>2
  <2>7. ASSUME NEW x \in Nat, file.offset = x + y + rd.byte_offset
        PROVE  f.offset = x + so * BLOCK_SIZE
    <3> HIDE DEF y, so
    <3> QED BY <2>3, <2>6, <2>7, <1>2, <1>6
  <2>4. CASE RunOn(file, rd)
    <3>1. file.offset = y + rd.byte_offset
      BY <2>4 DEF RunOn
    <3> HIDE DEF y, so
    <3>2. file.offset = 0 + y + rd.byte_offset
      BY <3>1, <2>6
    <3>3. f.offset = 0 + so * BLOCK_SIZE
      BY <3>2, <2>7
    <3>4. f.offset = so * BLOCK_SIZE
      BY <3>3, <2>6, <1>2
    <3> QED BY <2>4, <3>4
  <2>5. ASSUME NEW k \in 0 .. LastCluster(file.entry.size), OnChain(file, rd, k)
        PROVE  k \in Nat /\ f.offset = k * ClusterSize + so * BLOCK_SIZE
    <3>1. k \in Nat /\ k * ClusterSize \in Nat
      BY <2>2
    <3>2. file.offset = k * ClusterSize + y + rd.byte_offset
      BY Zenon, <2>5 DEF OnChain
    <3> HIDE DEF y, so
    <3> QED BY <3>1, <3>2, <2>7
  <2> QED BY Zenon, <2>1, <2>4, <2>5, <1>6
<1>12. CASE /\ Len(data) # rd.need /\ f.offset # f.entry.size
            /\ r.sector_offset = sectors_per_cluster
            /\ file' = f /\ rd' = r0 /\ read_block(fat_start) /\ at' = "file_fat"
            /\ UNCHANGED <<disk, walk, ret>>
  <2>1. ASSUME Trusted(f, 0) PROVE Prefix(f, f.out \o r0.data) /\ AtEnd(f)
    <3>1. so = sectors_per_cluster /\ f.offset < f.entry.size
      BY <1>7, <1>10, <1>12
    <3>2. ~RunOn(file, rd)
      BY <3>1, <1>2, Numbers DEF RunOn
    <3>3. PICK k \in 0 .. LastCluster(f.entry.size) :
            /\ OnChain(file, rd, k) /\ k \in Nat
            /\ f.offset = k * ClusterSize + so * BLOCK_SIZE
      BY <1>11, <1>12, <2>1, <3>2
    <3>4. f.offset = k * ClusterSize + ClusterSize
      BY <3>1, <3>3, ClusterNumbers
    <3>5. (k + 1) * ClusterSize = k * ClusterSize + ClusterSize
      BY <3>3, ClusterNumbers
    <3>6. f.cluster = ChainOf(f.entry)[k]
      BY <3>3, <1>6 DEF OnChain
    <3> QED BY ZenonT(30), <3>1, <3>4, <3>5, <3>6, <1>7, <1>8, <2>1 DEF AtEnd
  <2>2. read_block(IF at' = "file"
                   THEN cluster_to_first_sector(f.cluster) + r0.sector_offset
                   ELSE fat_start)
    BY SMTT(30), <1>12
  <2> QED BY Zenon, <1>1, <1>2, <1>6, <1>7, <1>12, <2>1, <2>2, ReadGoesOn
<1>13. CASE /\ ~(Len(data) = rd.need \/ f.offset = f.entry.size)
            /\ ~(/\ Len(data) # rd.need /\ f.offset # f.entry.size
                 /\ r.sector_offset = sectors_per_cluster)
            /\ file' = f /\ rd' = r
            /\ read_block(cluster_to_first_sector(f.cluster) + r.sector_offset)
            /\ UNCHANGED <<disk, at, walk, ret>>
  <2>1. ASSUME Trusted(f, 0) PROVE Prefix(f, f.out \o r.data) /\ Position(f, r)
    <3>1. so # sectors_per_cluster /\ so \in Nat /\ sectors_per_cluster \in Nat
      BY <1>7, <1>13, Numbers
    <3>2. ASSUME RunOn(file, rd), f.offset = so * BLOCK_SIZE
          PROVE  RunOn(f, r)
      <4>1. so >= sectors_per_cluster
        BY <3>1, <3>2, <1>2 DEF RunOn
      <4>2. f.offset = so * BLOCK_SIZE + 0
        <5>1. so * BLOCK_SIZE \in Nat
          BY <3>1, <1>2
        <5> QED BY <3>2, <5>1
      <4>3. Contiguous(file.entry) /\ file.cluster = file.entry.cluster
        BY <3>2 DEF RunOn
      <4>4. Contiguous(f.entry) /\ f.cluster = f.entry.cluster
        BY <4>3, <1>6, Zenon
      <4> QED BY <4>1, <4>2, <4>4, <1>7, Zenon DEF RunOn
    <3>3. ASSUME NEW k \in 0 .. LastCluster(f.entry.size), OnChain(file, rd, k), k \in Nat,
                 f.offset = k * ClusterSize + so * BLOCK_SIZE
          PROVE  OnChain(f, r, k)
      <4>1. so < sectors_per_cluster
        BY <3>1, <3>3, <1>2 DEF OnChain
      <4>2. f.offset = k * ClusterSize + so * BLOCK_SIZE + 0
        <5>1. so * BLOCK_SIZE \in Nat
          BY <3>1, <1>2
        <5>2. k * ClusterSize \in Nat
          BY <3>3, ClusterNumbers
        <5> QED BY SMTT(30), <3>3, <5>1, <5>2
      <4> QED BY Zenon, <3>3, <4>1, <4>2, <1>6, <1>7 DEF OnChain
    <3>4. RunOn(f, r) \/ \E k \in 0 .. LastCluster(f.entry.size) : OnChain(f, r, k)
      <4>1. Len(data) # rd.need /\ f.offset # f.entry.size
        BY <1>13
      <4>2. \/ RunOn(file, rd) /\ f.offset = so * BLOCK_SIZE
            \/ \E k \in 0 .. LastCluster(f.entry.size) :
                 /\ OnChain(file, rd, k) /\ k \in Nat
                 /\ f.offset = k * ClusterSize + so * BLOCK_SIZE
        BY <1>11, <2>1, <4>1, Zenon
      <4> QED BY <4>2, <3>2, <3>3, Zenon
    <3> QED BY <3>4, <1>7, <1>8, <2>1 DEF Position
  <2>2. read_block(IF at' = "file"
                   THEN cluster_to_first_sector(f.cluster) + r.sector_offset
                   ELSE fat_start)
    BY <1>1, <1>13
  <2> QED BY ZenonT(30), <1>1, <1>2, <1>6, <1>7, <1>13, <2>1, <2>2, ReadGoesOn
<1> QED BY <1>3, <1>9, <1>12, <1>13

(* The block of the table arrives: the file goes on in its next cluster.   *)
LEMMA FileNext ==
  ASSUME IndInv, file_next \/ file_fat_failed
  PROVE  IndInv'
<1>1. CASE panic
  BY ZenonT(30), <1>1, PanicStops DEF file_next, file_fat_failed, Arrived, Refused
<1>2. CASE ~panic
  <2> DEFINE next == NextCluster(disk.fat[FatIndex(file.cluster)])
             f == [file EXCEPT !.cluster = next]
  <2>1. /\ at = "file_fat" /\ pc = "idle" /\ Reading
        /\ file' = f /\ read_block(cluster_to_first_sector(next)) /\ at' = "file"
        /\ UNCHANGED <<disk, walk, rd, ret>>
    BY <1>2 DEF file_next, file_fat_failed, Arrived, Reading
  <2>2. /\ disk \in Image /\ partitions(disk.table) # {} /\ FileOK(file) /\ RdOK(rd)
        /\ file.entry.size \in Nat /\ file.offset \in Nat
    BY <2>1, ReadNumbers
  <2>3. next \in Int
    BY NextOfChain
  <2>4. rd.sector_offset = 0 /\ rd.byte_offset = 0
    BY <2>1 DEF IndInv, FsOK
  <2>5. Trusted(file, 0) => Prefix(file, file.out \o rd.data) /\ AtEnd(file)
    BY <2>1 DEF IndInv, ReadOK
  <2>6. ASSUME Allocated(file.entry), NEW k \in 0 .. LastCluster(file.entry.size),
               file.cluster = ChainOf(file.entry)[k], file.offset = (k + 1) * ClusterSize,
               file.offset < file.entry.size
        PROVE  /\ k + 1 \in 0 .. LastCluster(file.entry.size)
               /\ next = ChainOf(file.entry)[k + 1]
    <3>1. k + 1 \in Nat /\ k \in Nat
      OBVIOUS
    <3>2. k + 1 \in 0 .. LastCluster(file.entry.size)
      BY <2>2, <2>6, <3>1, ClusterOfByte
    <3>3. file.entry.size > 0
      BY <2>2, <2>6
    <3>4. /\ ChainOf(file.entry)[k + 1] \in 2 .. U16 - 11
          /\ k + 1 > 0 => ChainOf(file.entry)[k + 1] = disk.fat[ChainOf(file.entry)[k + 1 - 1]]
      BY <2>2, <2>6, <3>2, <3>3, FileChain
    <3>7. FatIndex(file.cluster) = file.cluster
      BY <2>6, IndexOfCluster DEF Allocated
    <3>5. k + 1 > 0 /\ k + 1 - 1 = k
      BY <3>1
    <3>6. ChainOf(file.entry)[k + 1] = disk.fat[file.cluster]
      BY <2>6, <3>4, <3>5
    <3> QED BY <3>2, <3>4, <3>6, <3>7, NextOfChain
  <2> HIDE DEF next
  <2>7. /\ FileOK(f) /\ f.offset = file.offset /\ f.out = file.out
        /\ f.calls = file.calls /\ f.entry = file.entry /\ f.cluster = next
        /\ f.crossed = file.crossed /\ f.failed = file.failed
    BY <2>2, <2>3 DEF FileOK
  <2> HIDE DEF f
  <2>8. ASSUME Trusted(f, 0) PROVE Prefix(f, f.out \o rd.data) /\ Position(f, rd)
    <3>1. Trusted(file, 0)
      BY <2>7, <2>8 DEF Trusted
    <3>2. Prefix(file, file.out \o rd.data) /\ AtEnd(file) /\ Allocated(file.entry)
      BY <2>5, <3>1 DEF Trusted
    <3>3. Prefix(f, f.out \o rd.data)
      BY Zenon, <2>7, <3>2 DEF Prefix
    <3>4. PICK k \in 0 .. LastCluster(file.entry.size) :
            /\ file.cluster = ChainOf(file.entry)[k]
            /\ file.offset = (k + 1) * ClusterSize /\ file.offset < file.entry.size
      BY <3>2 DEF AtEnd
    <3>5. k + 1 \in 0 .. LastCluster(f.entry.size) /\ f.cluster = ChainOf(f.entry)[k + 1]
      BY <2>6, <2>7, <3>2, <3>4
    <3>6. f.offset = (k + 1) * ClusterSize + rd.sector_offset * BLOCK_SIZE + rd.byte_offset
      <4>1. (k + 1) * ClusterSize \in Nat
        BY <2>2, <3>4
      <4>2. 0 * BLOCK_SIZE = 0
        BY Numbers
      <4> QED BY <4>1, <4>2, <2>4, <2>7, <3>4
    <3>7. rd.sector_offset < sectors_per_cluster
      BY <2>4, Numbers
    <3>8. OnChain(f, rd, k + 1)
      BY <3>5, <3>6, <3>7 DEF OnChain
    <3> QED BY <3>3, <3>5, <3>8 DEF Position
  <2>9. read_block(IF at' = "file"
                   THEN cluster_to_first_sector(f.cluster) + rd.sector_offset
                   ELSE fat_start)
    <3>1. cluster_to_first_sector(f.cluster) + rd.sector_offset = cluster_to_first_sector(next)
      BY <2>3, <2>4, <2>7, FirstSector
    <3> QED BY <2>1, <3>1
  <2> QED BY <2>1, <2>2, <2>7, <2>8, <2>9, ReadGoesOn
<1> QED BY <1>1, <1>2

(* A read fails: if it had copied nothing, the offset is still right.      *)
LEMMA FileFailed ==
  ASSUME IndInv, file_failed
  PROVE  IndInv'
<1> DEFINE calls == Min({file.calls + 1, 2})
           failed == file.failed \/ rd.data # <<>>
           g == [file EXCEPT !.calls = calls, !.failed = failed]
<1>1. /\ at = "file" /\ pc = "idle" /\ Reading
      /\ file' = g /\ at' = "ready" /\ disk' = disk /\ pc' = "idle"
  BY DEF file_failed, Refused, Reading, return
<1>2. disk \in Image /\ partitions(disk.table) # {} /\ FileOK(file) /\ file.out \in Seq(Int)
  BY <1>1, ReadNumbers
<1>3. calls \in 1 .. 2 /\ (calls <= 1 => file.calls = 0) /\ failed \in BOOLEAN
  BY Zenon, <1>2, OneMoreCall DEF FileOK
<1>4. Trusted(file, 0) => Prefix(file, file.out \o rd.data)
  BY <1>1 DEF IndInv, ReadOK
<1> HIDE DEF calls, failed
<1>5. /\ FileOK(g) /\ g.out = file.out /\ g.calls = calls /\ g.entry = file.entry
      /\ g.offset = file.offset /\ g.crossed = file.crossed /\ g.failed = failed
  <2>0. g = [file EXCEPT !.calls = calls, !.failed = failed]
    OBVIOUS
  <2> HIDE DEF g
  <2>1. g = [entry |-> file.entry, offset |-> file.offset, cluster |-> file.cluster,
             out |-> file.out, calls |-> calls, crossed |-> file.crossed, failed |-> failed]
    BY Zenon, <1>2, <2>0 DEF FileOK
  <2> QED BY <1>2, <1>3, <2>1 DEF FileOK
<1> HIDE DEF g
<1>6. Kept(g)
  <2>1. ASSUME Trusted(g, 1) PROVE Prefix(g, g.out)
    <3>3. /\ Allocated(file.entry) /\ ~failed /\ ~file.crossed
          /\ Contiguous(file.entry) \/ calls <= 1
      BY <1>5, <2>1, Zenon DEF Trusted
    <3>4. ~file.failed /\ rd.data = <<>>
      BY <3>3, Zenon DEF failed
    <3>5. Contiguous(file.entry) \/ file.calls <= 0
      BY <1>3, <3>3
    <3>1. Trusted(file, 0) /\ rd.data = <<>>
      BY <3>3, <3>4, <3>5, Zenon DEF Trusted
    <3>2. Prefix(file, file.out)
      BY <1>2, <1>4, <3>1, ConcatEmptySeq
    <3> QED BY <3>2, <1>5 DEF Prefix
  <2>2. g.calls # 0
    BY <1>3, <1>5
  <2> QED BY <2>1, <2>2 DEF Kept
<1> QED BY <1>1, <1>2, <1>5, <1>6, ReadEnds

(* A read of the open file begins, or the file is closed. *)
LEMMA FileCalls ==
  ASSUME IndInv, (\E need \in BufLen : read(need)) \/ read_all \/ close
  PROVE  IndInv'
<1>1. /\ at = "ready" /\ file # NoFile /\ pc = "idle" /\ disk \in Image
      /\ partitions(disk.table) # {} /\ FileOK(file) /\ Kept(file)
  <2>1. at = "ready" /\ file # NoFile
    BY DEF read, read_all, close
  <2> QED BY <2>1 DEF IndInv, FsOK, BusOK, ReadOK, Places
<1>2. ASSUME NEW need \in BufLen, read(need) PROVE IndInv'
  <2>1. need \in Nat /\ begin_read("read", file, need, <<>>)
    BY <1>2, Fat16Assumption DEF read
  <2> QED BY ZenonT(30), <1>1, <2>1, ReadBegins
<1>3. CASE read_all
  <2>1. UNIT \in Nat /\ begin_read("read_all", file, UNIT, <<>>)
    BY <1>3, Fat16Assumption DEF read_all
  <2> QED BY <1>1, <2>1, ReadBegins
<1>4. CASE close
  BY <1>1, <1>4 DEF close, busVars, IndInv, FsOK, BusOK, ReadOK, Reading, Places
<1> QED BY <1>2, <1>3, <1>4

-----------------------------------------------------------------------------
(* Every step keeps the invariant.                                         *)

(* The invariant holds initially.                                          *)
LEMMA InitOK == Init => IndInv
BY DEF Init, BusInit, IndInv, FsOK, BusOK, ReadOK, Reading, Places

(* Every step keeps the invariant.                                         *)
LEMMA StepOK == IndInv /\ [Next]_vars => IndInv'
<1> SUFFICES ASSUME IndInv, [Next]_vars PROVE IndInv'
  OBVIOUS
<1>1. CASE Work
  BY <1>1, MountSteps, DirBlock, DirNext, FileBlock, FileNext, FileFailed
     DEF Work, file_fat_failed, dir_failed
<1>2. CASE Call
  BY <1>2, CallBegins, FileCalls DEF Call
<1>3. CASE Bus
  BY <1>3, BusSteps
<1>4. CASE UNCHANGED vars
  <2>1. UNCHANGED <<device, status, regs, cmd, pc, words, block, reply, disk, at, walk,
                    file, rd>>
    BY <1>4 DEF vars, busVars, fsVars
  <2>2. Sector' = Sector /\ Part' = Part /\ Address' = Address
    BY ZenonT(30), <2>1 DEF Sector, Part, Address, cluster_to_first_sector
  <2>3. FsOK' /\ BusOK'
    BY SMTT(30), <2>1, <2>2 DEF IndInv, FsOK, BusOK, InPartition, Reading, WalkOK, FileOK, RdOK
  <2>4. ReadOK'
    BY ZenonT(30), <2>1, <2>2 DEF IndInv, ReadOK, Reading, Trusted, Prefix, Position, AtEnd,
       Kept, OnChain, RunOn, Allocated, Contiguous, Content, ChainOf
  <2> QED BY <2>3, <2>4 DEF IndInv
<1> QED BY <1>1, <1>2, <1>3, <1>4 DEF Next, Stopped

(* The invariant always holds.                                             *)
LEMMA Inductive == Spec => []IndInv
BY InitOK, StepOK, PTL DEF Spec

-----------------------------------------------------------------------------
(* The results.                                                            *)

(* Whatever the disk holds, a block that arrives is the one that was asked *)
(* for, and lies in the partition.                                         *)
THEOREM BlocksFromPartition == Spec => []BlockFromPartition
<1>1. IndInv => BlockFromPartition
  <2> SUFFICES ASSUME IndInv,
                      NEW place \in {"bpb", "dir", "dir_fat", "file", "file_fat"},
                      Arrived(place)
               PROVE  /\ block \in Part.begin .. Part.begin + Part.total - 1
                      /\ Arrived("dir") => block = Part.begin + walk.sector
                      /\ Arrived("file") =>
                           block = Part.begin + cluster_to_first_sector(file.cluster)
                                     + rd.sector_offset
                      /\ Arrived("dir_fat") \/ Arrived("file_fat") =>
                           block = Part.begin + fat_start
    BY DEF BlockFromPartition
  <2>1. at = place /\ pc = "idle" /\ reply = "Ok" /\ at \in Places
    BY DEF Arrived, Places
  <2>2. InPartition(Sector) /\ block = Part.begin + Sector
    BY <2>1 DEF IndInv, BusOK
  <2>3. Part.begin \in Nat /\ Part.total \in Nat
    BY <2>1, PartFacts DEF IndInv, FsOK
  <2>4. block \in Part.begin .. Part.begin + Part.total - 1
    BY <2>2, <2>3 DEF InPartition
  <2>5. Arrived("file") =>
          block = Part.begin + cluster_to_first_sector(file.cluster) + rd.sector_offset
    <3> SUFFICES ASSUME at = "file"
                 PROVE  block = Part.begin + cluster_to_first_sector(file.cluster)
                                  + rd.sector_offset
      BY DEF Arrived
    <3>1. FileOK(file) /\ RdOK(rd)
      BY DEF IndInv, FsOK, Reading
    <3>2. cluster_to_first_sector(file.cluster) \in Nat /\ rd.sector_offset \in Nat
      BY <3>1, FirstSector DEF FileOK, RdOK
    <3> QED BY <2>2, <2>3, <3>2 DEF Sector
  <2> QED BY <2>1, <2>2, <2>4, <2>5 DEF Arrived, Sector
<1> QED BY <1>1, Inductive, PTL

(* The bytes that reads of a file have delivered, one read or more, are    *)
(* its first bytes in order, under the conditions of ReadFaithful.         *)
THEOREM ReadsDeliver == Spec => []ReadFaithful
<1>1. IndInv => ReadFaithful
  <2> SUFFICES ASSUME IndInv, at = "ready", file # NoFile, Allocated(file.entry),
                      ~file.failed, ~file.crossed,
                      Contiguous(file.entry) \/ file.calls <= 1
               PROVE  file.out = SubSeq(Content(file.entry), 1, file.offset)
    BY DEF ReadFaithful
  <2> DEFINE C == Content(file.entry)
             z == file.entry.size
             o == file.offset
  <2>1. disk \in Image /\ partitions(disk.table) # {} /\ FileOK(file) /\ Kept(file)
    BY DEF IndInv, FsOK, ReadOK, Places
  <2>2. z \in Nat /\ o \in 0 .. z /\ file.out \in Seq(Int)
    BY <2>1, Fat16Assumption DEF FileOK
  <2>3. Len(file.out) = o /\ \A i \in 1 .. o : file.out[i] = C[i]
    BY <2>1 DEF Kept, Trusted, Prefix
  <2>4. C \in Seq(Range(C)) /\ Len(C) = z
    <3>1. DOMAIN C = 1 .. z /\ C = [i \in DOMAIN C |-> C[i]]
      BY DEF Content
    <3> HIDE DEF C, z
    <3>2. C \in [1 .. z -> Range(C)]
      BY <3>1 DEF Range
    <3>3. C \in Seq(Range(C))
      BY <2>2, <3>2, SeqDef
    <3> QED BY <2>2, <3>1, <3>3, LenProperties
  <2> HIDE DEF C, z, o
  <2>5. /\ SubSeq(C, 1, o) \in Seq(Range(C)) /\ Len(SubSeq(C, 1, o)) = o
        /\ \A i \in 1 .. o : SubSeq(C, 1, o)[i] = C[i]
    <3>1. 1 \in 1 .. Len(C) + 1 /\ o \in 1 - 1 .. Len(C) /\ o \in Nat
      BY <2>2, <2>4
    <3>2. /\ Len(SubSeq(C, 1, o)) = o
          /\ \A i \in 1 .. o : SubSeq(C, 1, o)[i] = C[i]
      BY <2>4, <3>1, SubSeqProperties
    <3> QED BY <2>2, <2>4, <3>2, Beginning
  <2>6. file.out = SubSeq(C, 1, o)
    <3>1. DOMAIN file.out = 1 .. o /\ DOMAIN SubSeq(C, 1, o) = 1 .. o
      BY <2>2, <2>3, <2>5, LenProperties
    <3>2. /\ file.out = [i \in 1 .. o |-> file.out[i]]
          /\ SubSeq(C, 1, o) = [i \in 1 .. o |-> SubSeq(C, 1, o)[i]]
      BY <2>2, <2>3, <2>5, <3>1, LenProperties
    <3> QED BY <2>3, <2>5, <3>2
  <2> QED BY <2>6 DEF C, o
<1> QED BY <1>1, Inductive, PTL
=============================================================================
