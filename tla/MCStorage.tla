------------------------------ MODULE MCStorage -----------------------------
(***************************************************************************)
(* Disks for model checking the storage stack: a directory D and a file A  *)
(* in the root directory, files B and C in D, with deleted, hidden and     *)
(* long name entries; A is empty, small, or of several clusters that are   *)
(* consecutive, out of order, or past the first block of the table.  What  *)
(* is not a directory may spell entries too: the data of A, and the second *)
(* copy of the table, where INVALID leads as on the disk the kernel uses.  *)
(***************************************************************************)
EXTENDS Fat16, TLC

Entry(name, attributes, cluster, size) ==
  [name |-> name, attributes |-> attributes, cluster |-> cluster, size |-> size]

Eod == Entry("eod", {}, 0, 0)
Unused == Entry("unused", {}, 0, 0)
D == Entry("D", {"DIRECTORY"}, 2, 0)
B == Entry("B", {}, 0, 0)
C == Entry("C", {"HIDDEN"}, 0, 0)
Long == Entry("long", {"LFN", "HIDDEN"}, 0, 0)
Spelled(cluster) == Entry("B", {}, cluster, 10)

EndMark == U16 - 1

Fat(chain, dir) ==
  [c \in 0 .. 9 |->
     LET at_(s) == {i \in 1 .. Len(s) : s[i] = c}
         next(s) == LET i == CHOOSE i \in at_(s) : TRUE
                    IN IF i = Len(s) THEN EndMark ELSE s[i + 1]
     IN IF at_(chain) # {} THEN next(chain)
        ELSE IF at_(dir) # {} THEN next(dir)
        ELSE IF c < 2 THEN EndMark ELSE EMPTY]

Halves(s) == <<SubSeq(s, 1, 2), SubSeq(s, 3, 4)>>

first(c) == first_data_sector + 2 * (c - 2)
Blocks(clusters) == {first(c) + j : c \in clusters, j \in {0, 1}}
SecondFat == {fat_start + sectors_per_fat, fat_start + sectors_per_fat + 1}

(* The blocks, each with the same two entries. *)
Spell(blocks, entries) == [s \in blocks |-> entries]

(* A disk with the root directory, the entries of D in its clusters, the   *)
(* clusters of A, and what the other blocks spell.                         *)
Disk(table, trail, root, dir, sub, chain, other) ==
  LET halves == [i \in 1 .. Len(dir) |-> Halves(SubSeq(sub, 4 * i - 3, 4 * i))]
      root_blocks == [s \in {first_root_dir_sector, first_root_dir_sector + 1} |->
                        Halves(root)[s - first_root_dir_sector + 1]]
      dir_blocks == [s \in Blocks(Range(dir)) |->
                       LET i == CHOOSE i \in 1 .. Len(dir) : s - first(dir[i]) \in {0, 1}
                       IN halves[i][s - first(dir[i]) + 1]]
  IN [table |-> table, trail |-> trail, fat |-> Fat(chain, dir),
      tree |-> [c \in {2} |-> sub],
      blocks |-> root_blocks @@ dir_blocks @@ other]

A(chain, size) == Entry("A", {}, IF size = 0 THEN 0 ELSE chain[1], size)

Table == << [active |-> FALSE, begin |-> 1, total |-> 2],
            [active |-> TRUE, begin |-> 3, total |-> 63] >>

LongTable == << [active |-> TRUE, begin |-> 8, total |-> 70] >>    \* past the drive
ShortTable == << [active |-> TRUE, begin |-> 3, total |-> 51] >>   \* ends inside a file

Sub4 == <<B, Eod, Eod, Eod>>
Chains == {<<3, 4, 5>>, <<3, 5, 4>>, <<5, 6, 7>>, <<7, 8, 9>>}

Zeroes == Spell({}, <<>>)

MCImage ==
  LET a == A(<<3>>, 10)
      Root == {<<a, D, Eod, Eod>>, <<Unused, a, D, Eod>>, <<a, Unused, D, Eod>>,
               <<a, D, C, Long>>}
      Sub == {<< <<2>>, Sub4>>, << <<2>>, <<C, Unused, B, Eod>> >>,
              << <<2>>, <<C, Long, B, C>> >>,
              << <<2, 9>>, <<C, C, C, C, B, Eod, Eod, Eod>> >>}
      Full == {<<C, Long, B, C>>, <<C, C, Long, C>>}
      Other == {Spell(Blocks({3}), <<C, Spelled(200)>>), Spell(Blocks({3}), <<Spelled(2), Eod>>),
                Spell(SecondFat, <<C, C>>), Spell(SecondFat, <<Spelled(4), Eod>>)}
  IN {Disk(Table, TRUE, root, s[1], s[2], <<3>>, Zeroes) : root \in Root, s \in Sub}
     \cup {Disk(Table, TRUE, <<a, D, Eod, Eod>>, <<2>>, full, <<3>>, other) :
             full \in Full, other \in Other}
     \cup {Disk(Table, TRUE, <<A(chain, size), D, Eod, Eod>>, <<2>>, Sub4, chain, other) :
             chain \in Chains, size \in {0, 30, 60, 72},
             other \in {Zeroes, Spell(Blocks(3 .. 9) \cup SecondFat, <<C, C>>)}}
     \cup {Disk(LongTable, TRUE, <<A(<<7, 8, 9>>, 72), D, Eod, Eod>>, <<2>>, Sub4,
                <<7, 8, 9>>, Zeroes),
           Disk(ShortTable, TRUE, <<A(<<3, 4, 5>>, 60), D, Eod, Eod>>, <<2>>, Sub4,
                <<3, 4, 5>>, Zeroes),
           Disk(<<Table[1]>>, TRUE, <<a, D, Eod, Eod>>, <<2>>, Sub4, <<3>>, Zeroes),
           Disk(Table, FALSE, <<a, D, Eod, Eod>>, <<2>>, Sub4, <<3>>, Zeroes)}

Name(name, form) == [name |-> name, form |-> form]

MCPath ==
  LET up(name) == Name(name, "upper")
  IN {<<>>, <<up("A")>>, <<up("D")>>, <<Name("", "empty"), up("D"), Name("B", "lower")>>,
      <<up("A"), up("B")>>, <<up("D"), Name("B", "long")>>, <<up("D"), Name("B", "wide")>>, <<up("X")>>,
      <<Name("A", "space")>>, <<Name("A", "control")>>}
=============================================================================
