---------------------------- MODULE LoaderProofs ----------------------------
(***************************************************************************)
(* For memory of any size, any files, images and number of processes: a    *)
(* process finds its image in memory for as long as it lives, and its      *)
(* frames come back when it exits, but for the page that load_segment does *)
(* not report.                                                             *)
(***************************************************************************)
EXTENDS LoaderFrames

-----------------------------------------------------------------------------
(* The pages of a segment.                                                 *)

FileRange(s) == vaddr(s) \div PAGE .. (vaddr(s) + file_size(s) - 1) \div PAGE
CodePages(s) == vaddr(s) \div PAGE .. (vaddr(s) + mem_size(s) - 1) \div PAGE

Zeroes == [from |-> 0, count |-> 0, zeroed |-> TRUE]

(* The pages of its bytes in the file. *)
LEMMA FilePagesAre ==
  ASSUME NEW s, Segment(s)
  PROVE  /\ FilePages(s) \in Seq(Nat) /\ Range(FilePages(s)) = FileRange(s)
         /\ DOMAIN FilePages(s) = 1 .. Len(FilePages(s))
         /\ Len(FilePages(s)) = (vaddr(s) + file_size(s) - 1) \div PAGE - vaddr(s) \div PAGE + 1
         /\ \A i \in 1 .. Len(FilePages(s)) : FilePages(s)[i] = vaddr(s) \div PAGE + i - 1
<1> DEFINE v == vaddr(s)
           m == file_size(s)
<1>1. v \in Nat /\ m \in Nat /\ v + m - 1 \in Nat /\ PAGE \in Nat \ {0} /\ v % PAGE = 0
  BY LoaderAssumption DEF Segment
<1> DEFINE first == v \div PAGE
           last == (v + m - 1) \div PAGE
<1> HIDE DEF v, m
<1>2. first \in Nat /\ last \in Nat
  BY <1>1, Dividing
<1>3. last >= first - 1
  <2>1. CASE m = 0
    <3>1. v - 1 \in Nat /\ v = first * PAGE
      BY <1>1, <2>1, Dividing
    <3>2. last = (v - 1) \div PAGE
      BY <1>1, <2>1
    <3> QED BY <1>1, <1>2, <3>1, <3>2
  <2>2. CASE m # 0
    <3>1. v <= v + m - 1
      BY <1>1, <2>2
    <3>2. first <= last
      BY <1>1, <3>1, DividingMonotone
    <3> QED BY <1>2, <3>2
  <2> QED BY <2>1, <2>2
<1>4. FilePages(s) = Pages(first, last)
  BY DEF FilePages, containing, v, m
<1> HIDE DEF first, last
<1>5. /\ Pages(first, last) \in Seq(Nat) /\ Range(Pages(first, last)) = first .. last
      /\ Len(Pages(first, last)) = last - first + 1
      /\ \A i \in 1 .. last - first + 1 : Pages(first, last)[i] = first + i - 1
  BY <1>2, <1>3, PagesType
<1>6. DOMAIN FilePages(s) = 1 .. Len(FilePages(s))
  BY <1>4, <1>5
<1> QED BY <1>4, <1>5, <1>6 DEF first, last, v, m, FileRange

(* Zeroes begin with the page after them, and end with one past the end if *)
(* the segment ends with a page.                                           *)
LEMMA BssFirst ==
  ASSUME NEW a \in Nat, a > 0, NEW d \in Nat \ {0}
  PROVE  (a + d - 1) \div d = (a - 1) \div d + 1
OBVIOUS

(* The page of an address and that of the byte before it.                  *)
LEMMA LastPage ==
  ASSUME NEW a \in Nat, a > 0, NEW d \in Nat \ {0}
  PROVE  /\ a % d = 0 => a \div d = (a - 1) \div d + 1
         /\ a % d # 0 => a \div d = (a - 1) \div d
<1>1. a - 1 \in Nat
  OBVIOUS
<1> DEFINE q == a \div d
           r == a % d
<1>2. q \in Nat /\ r \in 0 .. d - 1 /\ a = q * d + r
  BY Zenon, Dividing
<1> HIDE DEF q, r
<1>3. ASSUME r = 0 PROVE q = (a - 1) \div d + 1
  BY <1>1, <1>2, <1>3
<1>4. ASSUME r # 0 PROVE q = (a - 1) \div d
  BY <1>1, <1>2, <1>4
<1> QED BY <1>3, <1>4 DEF q, r

(* File and bss together are the pages reported and the unreported one.    *)
LEMMA BssPagesAre ==
  ASSUME NEW s, Segment(s)
  PROVE  /\ BssPages(s) \in Seq(Nat)
         /\ DOMAIN BssPages(s) = 1 .. Len(BssPages(s))
         /\ FileRange(s) \cup Range(BssPages(s)) = CodePages(s) \cup Unreported(s)
         /\ FileRange(s) \cap Range(BssPages(s)) = {}
<1> DEFINE v == vaddr(s)
           n == file_size(s)
           m == mem_size(s)
           a == v + n
           b == v + m
           lastF == (a - 1) \div PAGE
           lastM == (b - 1) \div PAGE
           lastB == b \div PAGE
           first == v \div PAGE
<1>1. v \in Nat /\ n \in Nat /\ m \in Nat /\ n <= m /\ v + n > 0 /\ PAGE \in Nat \ {0}
  BY LoaderAssumption DEF Segment
<1> HIDE DEF v, n, m
<1>2. a \in Nat /\ b \in Nat /\ a > 0 /\ b > 0 /\ a <= b /\ v <= a /\ a - 1 \in Nat /\ b - 1 \in Nat
      /\ (m <= n <=> a = b)
  BY <1>1
<1>0. /\ lastF = (v + n - 1) \div PAGE
      /\ lastM = (v + m - 1) \div PAGE
  <2>1. a - 1 = v + n - 1 /\ b - 1 = v + m - 1
    BY <1>1
  <2> QED BY <2>1
<1> HIDE DEF lastF, lastM
<1>3. lastF >= first - 1
  <2>1. /\ Len(FilePages(s)) \in Nat
        /\ Len(FilePages(s)) = (vaddr(s) + file_size(s) - 1) \div PAGE - vaddr(s) \div PAGE + 1
    BY FilePagesAre
  <2>2. lastF - first + 1 \in Nat
    BY <1>0, <2>1 DEF v, n
  <2>3. lastF \in Nat /\ first \in Nat
    BY <1>1, <1>2, Dividing DEF lastF
  <2> HIDE DEF lastF, first
  <2> QED BY <2>2, <2>3
<1>4. /\ align_up(a) = lastF + 1
      /\ b % PAGE = 0 => lastB = lastM + 1
      /\ b % PAGE # 0 => lastB = lastM
  BY Zenon, <1>1, <1>2, BssFirst, LastPage DEF align_up, lastF, lastM
<1>5. lastF \in Nat /\ lastM \in Nat /\ lastB \in Nat /\ first \in Nat /\ lastF <= lastM
  BY <1>1, <1>2, Dividing, DividingMonotone DEF lastF, lastM
<1>6. /\ BssPages(s) = IF a = b THEN <<>> ELSE Pages(lastF + 1, lastB)
      /\ Unreported(s) = IF a # b /\ b % PAGE = 0 THEN {lastB} ELSE {}
      /\ FileRange(s) = first .. lastF /\ CodePages(s) = first .. lastM
  <2>1. /\ BssPages(s) = IF m <= n THEN <<>> ELSE Pages(align_up(a), lastB)
        /\ Unreported(s) = IF m > n /\ b % PAGE = 0 THEN {lastB} ELSE {}
    BY DEF BssPages, containing, Unreported, v, n, m
  <2>2. FileRange(s) = first .. lastF /\ CodePages(s) = first .. lastM
    BY <1>0 DEF FileRange, CodePages, v, n, m
  <2>3. m > n <=> ~(m <= n)
    BY <1>1
  <2> HIDE DEF a, b, lastF, lastM, lastB, first
  <2> QED BY <1>2, <1>4, <2>1, <2>2, <2>3
<1> DEFINE z == b % PAGE
<1> HIDE DEF lastF, lastM, lastB, first, z
<1>7. CASE a = b
  <2>1. lastF = lastM
    BY <1>7 DEF lastF, lastM
  <2>2. BssPages(s) = <<>> /\ Unreported(s) = {}
    BY <1>6, <1>7
  <2> HIDE DEF a, b
  <2>3. <<>> \in Seq(Nat) /\ DOMAIN <<>> = 1 .. Len(<<>>) /\ Range(<<>>) = {}
    BY DEF Range
  <2>4. FileRange(s) = CodePages(s)
    BY <1>6, <2>1, Zenon
  <2> HIDE DEF FileRange
  <2> QED BY <2>2, <2>3, <2>4
<1>8. CASE a # b
  <2> HIDE DEF a, b
  <2>1. BssPages(s) = Pages(lastF + 1, lastB)
    BY <1>6, <1>8
  <2>2. lastB >= lastF
    BY <1>4, <1>5
  <2>3. lastF + 1 \in Nat /\ lastB \in Int /\ lastB >= (lastF + 1) - 1
    BY <1>5, <2>2
  <2>4. /\ Pages(lastF + 1, lastB) \in Seq(Nat) /\ Range(Pages(lastF + 1, lastB)) = lastF + 1 .. lastB
    BY Zenon, <2>3, PagesType
  <2>5. first .. lastF \cup (lastF + 1 .. lastB) = first .. lastB
        /\ (first .. lastF) \cap (lastF + 1 .. lastB) = {}
    BY <1>3, <1>5, <2>2
  <2>6. first .. lastB = (first .. lastM) \cup Unreported(s)
    <3>1. CASE b % PAGE = 0
      <4>1. Unreported(s) = {lastB} /\ lastB = lastM + 1
        BY <1>4, <1>6, <1>8, <3>1
      <4> QED BY <1>3, <1>5, <4>1
    <3>2. CASE b % PAGE # 0
      <4>1. Unreported(s) = {} /\ lastB = lastM
        BY <1>4, <1>6, <1>8, <3>2
      <4> QED BY <4>1
    <3> QED BY <3>1, <3>2
  <2>7. DOMAIN BssPages(s) = 1 .. Len(BssPages(s))
    BY <2>1, <2>4
  <2> QED BY Zenon, <1>6, <2>1, <2>4, <2>5, <2>6, <2>7
<1> QED BY <1>7, <1>8

(* Two ways of joining: positions in a concatenation. *)
Joining(s, t, q) ==
  /\ \A i \in 1 .. Len(s) : \E k \in 1 .. Len(q) : q[k] = s[i]
  /\ \A i \in 1 .. Len(t) : \E k \in 1 .. Len(q) : q[k] = t[i]
  /\ \A k \in 1 .. Len(q) : \/ \E i \in 1 .. Len(s) : q[k] = s[i]
                            \/ \E i \in 1 .. Len(t) : q[k] = t[i]

(* What a concatenation holds is in one of its parts.                      *)
LEMMA JoinedPlaces ==
  ASSUME NEW S, NEW s \in Seq(S), NEW t \in Seq(S)
  PROVE  Joining(s, t, s \o t)
<1> DEFINE q == s \o t
           a == Len(s)
           b == Len(t)
           c == Len(q)
<1>1. /\ c = a + b /\ a \in Nat /\ b \in Nat
      /\ \A i \in 1 .. a : q[i] = s[i]
      /\ \A i \in a + 1 .. a + b : q[i] = t[i - a]
  BY Joined, Zenon
<1> HIDE DEF q, a, b, c
<1>2. \A i \in 1 .. a : i \in 1 .. c /\ q[i] = s[i]
  BY ONLY <1>1
<1>3. ASSUME NEW i \in 1 .. b PROVE a + i \in 1 .. c /\ q[a + i] = t[i]
  <2>1. a + i \in a + 1 .. a + b /\ (a + i) - a = i /\ a + i \in 1 .. c
    BY ONLY <1>1, <1>3
  <2>2. q[a + i] = t[(a + i) - a]
    BY ONLY <1>1, <2>1
  <2> QED BY ONLY <2>1, <2>2
<1>4. ASSUME NEW k \in 1 .. c
      PROVE  (k \in 1 .. a /\ q[k] = s[k]) \/ (k - a \in 1 .. b /\ q[k] = t[k - a])
  <2>1. CASE k <= a
    <3>1. k \in 1 .. a
      BY ONLY <1>1, <1>4, <2>1
    <3> QED BY ONLY <1>1, <3>1
  <2>2. CASE ~(k <= a)
    <3>1. k \in a + 1 .. a + b /\ k - a \in 1 .. b
      BY ONLY <1>1, <1>4, <2>2
    <3> QED BY ONLY <1>1, <3>1
  <2> QED BY <2>1, <2>2
<1>5. /\ \A i \in 1 .. a : \E k \in 1 .. c : q[k] = s[i]
      /\ \A i \in 1 .. b : \E k \in 1 .. c : q[k] = t[i]
      /\ \A k \in 1 .. c : (\E i \in 1 .. a : q[k] = s[i]) \/ (\E i \in 1 .. b : q[k] = t[i])
  BY <1>2, <1>3, <1>4, Zenon
<1> QED BY <1>5, Zenon DEF Joining, q, a, b, c

(* load_segment maps the pages of the segment and the one it does not      *)
(* report, with the bytes of the file first and zeroes after them.         *)
SegmentList(s, l) ==
  /\ l \in Seq(Range(l)) /\ Len(l) \in Nat
  /\ \A k \in 1 .. Len(l) : l[k][1] \in CodePages(s) \cup Unreported(s)
  /\ \A page \in CodePages(s) \cup Unreported(s) : \E k \in 1 .. Len(l) : l[k][1] = page
  /\ \A i \in 1 .. Len(FilePages(s)) :
       \E k \in 1 .. Len(l) : l[k] = <<FilePages(s)[i], Copied(s, i)>>
  /\ \A page \in Range(BssPages(s)) : \E k \in 1 .. Len(l) : l[k] = <<page, Zeroes>>

(* load_segment makes such a list.                                         *)
LEMMA SegmentLists ==
  ASSUME NEW s, Segment(s)
  PROVE  SegmentList(s, load_segment(s))
<1> DEFINE fp == FilePages(s)
           bp == BssPages(s)
           D(i) == Copied(s, i)
           m == Len(fp)
           n == Len(bp)
           F == [i \in 1 .. m |-> <<fp[i], D(i)>>]
           B == [i \in 1 .. n |-> <<bp[i], Zeroes>>]
           S == Range(F) \cup Range(B)
           l == F \o B
           all == CodePages(s) \cup Unreported(s)
<1>1. load_segment(s) = l
  <2>1. DOMAIN fp = 1 .. m /\ DOMAIN bp = 1 .. n
    BY FilePagesAre, BssPagesAre
  <2> QED BY <2>1, Zenon DEF load_segment, Zeroes
<1>2. /\ m \in Nat /\ n \in Nat /\ all = FileRange(s) \cup Range(bp)
      /\ Range(fp) = FileRange(s) /\ DOMAIN fp = 1 .. m /\ DOMAIN bp = 1 .. n
  BY FilePagesAre, BssPagesAre
<1> HIDE DEF fp, bp, m, n, all, D
<1>3. /\ DOMAIN F = 1 .. m /\ DOMAIN B = 1 .. n
      /\ \A i \in 1 .. m : F[i] = <<fp[i], D(i)>>
      /\ \A i \in 1 .. n : B[i] = <<bp[i], Zeroes>>
  OBVIOUS
<1> HIDE DEF F, B
<1>4. (\A i \in 1 .. m : F[i] \in S) /\ (\A i \in 1 .. n : B[i] \in S)
  BY <1>3, Zenon DEF Range
<1> HIDE DEF S
<1>5. F \in Seq(S) /\ B \in Seq(S) /\ Len(F) = m /\ Len(B) = n
  <2>1. F \in [1 .. m -> S] /\ B \in [1 .. n -> S]
    <3>1. F = [i \in 1 .. m |-> F[i]] /\ B = [i \in 1 .. n |-> B[i]]
      BY DEF F, B
    <3> QED BY <1>4, <3>1
  <2> QED BY <1>2, <2>1
<1>6. Joining(F, B, l)
  BY <1>5, JoinedPlaces, Zenon
<1>7. l \in Seq(S) /\ Len(l) \in Nat
  BY <1>5, Joined
<1> HIDE DEF l
<1>8. l \in Seq(Range(l))
  <2>1. DOMAIN l = 1 .. Len(l) /\ l = [i \in 1 .. Len(l) |-> l[i]]
    BY <1>7
  <2>2. \A i \in 1 .. Len(l) : l[i] \in Range(l)
    BY <2>1, Zenon DEF Range
  <2> QED BY <1>7, <2>1, <2>2
<1>9. /\ \A i \in 1 .. m : fp[i] \in all
      /\ \A i \in 1 .. n : bp[i] \in all
      /\ \A page \in all : (\E i \in 1 .. m : fp[i] = page) \/ (\E i \in 1 .. n : bp[i] = page)
      /\ \A page \in Range(bp) : \E i \in 1 .. n : bp[i] = page
  BY <1>2, Zenon DEF Range
<1>10. (\A i \in 1 .. m : F[i][1] = fp[i]) /\ (\A i \in 1 .. n : B[i][1] = bp[i])
  BY <1>3
<1> DEFINE K == 1 .. Len(l)
<1>61. /\ \A i \in 1 .. m : \E k \in K : l[k] = F[i]
       /\ \A i \in 1 .. n : \E k \in K : l[k] = B[i]
       /\ \A k \in K : (\E i \in 1 .. m : l[k] = F[i]) \/ (\E i \in 1 .. n : l[k] = B[i])
  BY <1>5, <1>6, Zenon DEF Joining
<1> HIDE DEF K
<1>11. ASSUME NEW k \in K PROVE l[k][1] \in all
  <2>1. CASE \E i \in 1 .. m : l[k] = F[i]
    BY <1>9, <1>10, <2>1
  <2>2. CASE \E i \in 1 .. n : l[k] = B[i]
    BY <1>9, <1>10, <2>2
  <2> QED BY <1>61, <2>1, <2>2
<1>12. ASSUME NEW i \in 1 .. m
       PROVE  \E k \in K : l[k] = <<fp[i], D(i)>> /\ l[k][1] = fp[i]
  <2>1. PICK k \in K : l[k] = F[i]
    BY <1>61
  <2>2. l[k] = <<fp[i], D(i)>> /\ l[k][1] = fp[i]
    BY <1>3, <1>10, <2>1
  <2> QED BY <2>2
<1>13. ASSUME NEW i \in 1 .. n
       PROVE  \E k \in K : l[k] = <<bp[i], Zeroes>> /\ l[k][1] = bp[i]
  <2>1. PICK k \in K : l[k] = B[i]
    BY <1>61
  <2>2. l[k] = <<bp[i], Zeroes>> /\ l[k][1] = bp[i]
    BY <1>3, <1>10, <2>1
  <2> QED BY <2>2
<1>14. ASSUME NEW page \in all PROVE \E k \in K : l[k][1] = page
  <2>1. CASE \E i \in 1 .. m : fp[i] = page
    BY <1>12, <2>1, Zenon
  <2>2. CASE \E i \in 1 .. n : bp[i] = page
    BY <1>13, <2>2, Zenon
  <2> QED BY <1>9, <2>1, <2>2
<1>16. ASSUME NEW page \in Range(bp) PROVE \E k \in K : l[k] = <<page, Zeroes>>
  <2>1. PICK i \in 1 .. n : bp[i] = page
    BY <1>9
  <2> QED BY <1>13, <2>1, Zenon
<1>17. \A i \in 1 .. m : \E k \in K : l[k] = <<fp[i], D(i)>>
  BY <1>12, Zenon
<1>15. SegmentList(s, l)
  BY <1>7, <1>8, <1>11, <1>14, <1>16, <1>17, Zenon
     DEF SegmentList, all, fp, bp, m, D, K
<1> QED BY <1>1, <1>15

(* The byte at a place of a page. *)
At(d, at) ==
  IF at < d.count THEN <<"file", d.from + at>>
  ELSE IF d.zeroed THEN <<"zero">> ELSE <<"stale">>
Expected(s, b) == IF b < file_size(s) THEN <<"file", offset(s) + b>> ELSE <<"zero">>

(* The least of what is left of the file and a page. *)
LEMMA MinOfTwo ==
  ASSUME NEW a \in Nat, NEW b \in Nat
  PROVE  (a <= b /\ Min({a, b}) = a) \/ (b <= a /\ Min({a, b}) = b)
<1>1. {a, b} \in SUBSET Nat /\ {a, b} # {}
  OBVIOUS
<1>2. Min({a, b}) \in {a, b} /\ \A y \in {a, b} : Min({a, b}) <= y
  BY <1>1, MinIsLeast, Zenon
<1> DEFINE m == Min({a, b})
<1>3. (m = a \/ m = b) /\ m <= a /\ m <= b
  BY <1>2
<1> HIDE DEF m
<1>4. (a <= b /\ m = a) \/ (b <= a /\ m = b)
  BY <1>3
<1> QED BY <1>4 DEF m

(* An address of a segment: its page and its place in the page. *)
LEMMA DividingSum ==
  ASSUME NEW q \in Nat, NEW c \in Nat, NEW d \in Nat \ {0}, NEW r \in 0 .. d - 1
  PROVE  (q * d + (c * d + r)) \div d = q + c /\ (q * d + (c * d + r)) % d = r
<1>1. q * d + (c * d + r) = (q + c) * d + r
  OBVIOUS
<1> DEFINE e == q + c
<1>2. e \in Nat
  OBVIOUS
<1> HIDE DEF e
<1>3. (e * d + r) \div d = e /\ (e * d + r) % d = r
  BY <1>2
<1> QED BY <1>1, <1>3 DEF e

(* load_segment puts every byte of a segment in its place. *)
LEMMA SegmentByte ==
  ASSUME NEW s, Segment(s), NEW b \in 0 .. mem_size(s) - 1
  PROVE  \E k \in 1 .. Len(load_segment(s)) :
           /\ load_segment(s)[k][1] = (vaddr(s) + b) \div PAGE
           /\ At(load_segment(s)[k][2], (vaddr(s) + b) % PAGE) = Expected(s, b)
<1> DEFINE v == vaddr(s)
           o == offset(s)
           n == file_size(s)
           m == mem_size(s)
           q == v \div PAGE
           c == b \div PAGE
           r == b % PAGE
           lastF == (v + n - 1) \div PAGE
           lastM == (v + m - 1) \div PAGE
           l == load_segment(s)
<1>1. /\ v \in Nat /\ o \in Nat /\ n \in Nat /\ m \in Nat /\ v % PAGE = 0 /\ o % PAGE = 0
      /\ n <= m /\ v + n > 0 /\ PAGE \in Nat \ {0} /\ b \in Nat /\ b <= m - 1
  BY LoaderAssumption DEF Segment
<1>2. SegmentList(s, l)
  BY SegmentLists
<1>3. file_offset(s) = o
  <2>1. o = (o \div PAGE) * PAGE + (o % PAGE) /\ o \div PAGE \in Nat
    BY Zenon, <1>1, Dividing
  <2> QED BY <1>1, <2>1 DEF file_offset, containing
<1>4. /\ Len(FilePages(s)) = lastF - q + 1
      /\ \A i \in 1 .. Len(FilePages(s)) : FilePages(s)[i] = q + i - 1
      /\ FileRange(s) = q .. lastF /\ CodePages(s) = q .. lastM
  BY FilePagesAre DEF FileRange, CodePages
<1>5. FileRange(s) \cup Range(BssPages(s)) = CodePages(s) \cup Unreported(s)
  BY BssPagesAre
<1> HIDE DEF v, o, n, m, l
<1>6. /\ q \in Nat /\ c \in Nat /\ r \in 0 .. PAGE - 1 /\ v = q * PAGE /\ b = c * PAGE + r
  <2>1. q \in Nat /\ v = q * PAGE + (v % PAGE) /\ q * PAGE \in Nat
    BY <1>1, Dividing
  <2>2. c \in Nat /\ r \in 0 .. PAGE - 1 /\ b = c * PAGE + r
    BY Zenon, <1>1, Dividing
  <2> HIDE DEF q, c, r
  <2> QED BY <1>1, <2>1, <2>2
<1>7. v + n - 1 \in Nat /\ v + m - 1 \in Nat /\ v + b \in Nat /\ v + b <= v + m - 1
  BY <1>1
<1>8. /\ lastF \in Nat /\ lastM \in Nat
      /\ v + n - 1 = lastF * PAGE + ((v + n - 1) % PAGE)
      /\ (v + n - 1) % PAGE \in 0 .. PAGE - 1
  BY Zenon, <1>1, <1>7, Dividing
<1> HIDE DEF q, c, r
<1>9. (v + b) \div PAGE = q + c /\ (v + b) % PAGE = r
  BY <1>1, <1>6, DividingSum
<1>10. q + c <= lastM
  <2>1. (v + b) \div PAGE <= lastM
    BY <1>1, <1>7, DividingMonotone
  <2> QED BY <1>9, <2>1
<1>11. CASE q + c <= lastF
  <2> DEFINE i == c + 1
             left == n - c * PAGE
             x == (v + n - 1) % PAGE
  <2> HIDE DEF lastF, lastM, x
  <2>1. i \in 1 .. Len(FilePages(s)) /\ FilePages(s)[i] = q + c /\ i - 1 = c
    <3>1. i \in 1 .. lastF - q + 1 /\ q + i - 1 = q + c /\ i - 1 = c
      BY <1>6, <1>8, <1>11
    <3> QED BY <1>4, <3>1
  <2>2. c * PAGE \in Nat /\ left \in Nat /\ left > 0
    <3>1. (q + c) * PAGE <= lastF * PAGE
      BY <1>1, <1>6, <1>8, <1>11
    <3>2. (q + c) * PAGE = q * PAGE + c * PAGE /\ c * PAGE \in Nat
      BY <1>1, <1>6
    <3>3. v + n - 1 >= lastF * PAGE
      BY <1>1, <1>8 DEF x
    <3>4. lastF * PAGE \in Nat /\ q * PAGE \in Nat
      BY <1>1, <1>6, <1>8
    <3> DEFINE y == c * PAGE
               z == lastF * PAGE
               w == (q + c) * PAGE
               u == q * PAGE
    <3>5. y \in Nat /\ z \in Nat /\ u \in Nat /\ w = u + y /\ w <= z /\ v + n - 1 >= z /\ v = u
      BY Zenon, <1>6, <3>1, <3>2, <3>3, <3>4
    <3>6. n - y > 0 /\ n - y \in Nat
      <4> HIDE DEF y, z, w, u
      <4> QED BY ONLY <1>1, <3>5
    <3> QED BY <3>2, <3>6
  <2> DEFINE y == c * PAGE
             d == [from |-> o + y, count |-> Min({left, PAGE}), zeroed |-> left < PAGE]
  <2>3. Copied(s, i) = d
    BY Zenon, <1>3, <2>1 DEF Copied, n, o
  <2> HIDE DEF i
  <2>4. PICK k \in 1 .. Len(l) : l[k] = <<FilePages(s)[i], Copied(s, i)>>
    BY Zenon, <1>2, <2>1 DEF SegmentList
  <2>5. l[k][1] = (v + b) \div PAGE /\ l[k][2] = d
    BY <1>9, <2>1, <2>3, <2>4
  <2>6. At(d, r) = Expected(s, b)
    <3> DEFINE w == Min({left, PAGE})
    <3>1. (left <= PAGE /\ w = left) \/ (PAGE <= left /\ w = PAGE)
      BY <1>1, <2>2, MinOfTwo
    <3>2. At(d, r) = IF r < w THEN <<"file", (o + y) + r>>
                     ELSE IF left < PAGE THEN <<"zero">> ELSE <<"stale">>
      BY Zenon DEF At
    <3>3. Expected(s, b) = IF b < n THEN <<"file", o + b>> ELSE <<"zero">>
      BY DEF Expected, n, o
    <3>4. y \in Nat /\ left = n - y /\ b = y + r
      BY <1>6, <2>2
    <3> HIDE DEF w, y, left
    <3>5. (b < n <=> r < w) /\ (o + y) + r = o + b /\ (~(r < w) => left < PAGE)
      BY ONLY <1>1, <1>6, <3>1, <3>4
    <3> QED BY ONLY <3>2, <3>3, <3>5
  <2>7. At(l[k][2], (v + b) % PAGE) = Expected(s, b)
    BY <1>9, <2>5, <2>6, Zenon
  <2> QED BY <2>5, <2>7, Zenon DEF v, l
<1>12. CASE ~(q + c <= lastF)
  <2>1. q + c \in CodePages(s) /\ q + c \notin FileRange(s)
    <3> HIDE DEF lastF, lastM
    <3>1. q + c \in q .. lastM /\ q + c \notin q .. lastF
      BY <1>6, <1>8, <1>10, <1>12
    <3> QED BY <1>4, <3>1
  <2>2. q + c \in Range(BssPages(s))
    BY <1>5, <2>1
  <2>3. PICK k \in 1 .. Len(l) : l[k] = <<q + c, Zeroes>>
    BY Zenon, <1>2, <2>2 DEF SegmentList
  <2>4. ~(b < n)
    <3> SUFFICES ASSUME b < n PROVE FALSE
      OBVIOUS
    <3>1. v + b <= v + n - 1
      BY <1>1
    <3>2. (v + b) \div PAGE <= lastF
      BY Zenon, <1>1, <1>7, <3>1, DividingMonotone
    <3> QED BY <1>9, <1>12, <3>2
  <2>5. Expected(s, b) = <<"zero">>
    BY <2>4 DEF Expected, n
  <2>6. At(Zeroes, r) = <<"zero">>
    <3>1. ~(r < 0)
      BY <1>1, <1>6
    <3> QED BY <3>1 DEF At, Zeroes
  <2>7. l[k][1] = (v + b) \div PAGE /\ l[k][2] = Zeroes
    BY <1>9, <2>3
  <2>8. At(l[k][2], (v + b) % PAGE) = Expected(s, b)
    BY <1>9, <2>5, <2>6, <2>7, Zenon
  <2> QED BY <2>7, <2>8, Zenon DEF v, l
<1> QED BY <1>11, <1>12

-----------------------------------------------------------------------------
(* The pages of a process.                                                 *)

Full(image) == load_elf(image) \o map_pages(STACK_PAGE, 1)
SegmentPages(s) == CodePages(s) \cup Unreported(s)

(* All that spawn maps: the pages of the segments and that of the stack.   *)
(* When no page is mapped twice the segments and the stack have none in    *)
(* common.                                                                 *)
FullList(image, q) ==
  /\ q \in Seq(Range(q)) /\ Len(q) \in Nat
  /\ \A k \in 1 .. Len(q) :
       q[k][1] = STACK_PAGE \/ \E i \in 1 .. Len(image) : q[k][1] \in SegmentPages(image[i])
  /\ \A i \in 1 .. Len(image) : \A x \in 1 .. Len(load_segment(image[i])) :
       \E k \in 1 .. Len(q) : q[k] = load_segment(image[i])[x]
  /\ \E k \in 1 .. Len(q) : q[k][1] = STACK_PAGE
  /\ Distinct(q) =>
       /\ \A i \in 1 .. Len(image) : STACK_PAGE \notin SegmentPages(image[i])
       /\ \A i, j \in 1 .. Len(image) :
            i < j => SegmentPages(image[i]) \cap SegmentPages(image[j]) = {}

(* Elements of different places in a concatenation. *)
LEMMA JoinedDistinct ==
  ASSUME NEW S, NEW s \in Seq(S), NEW t \in Seq(S), Distinct(s \o t)
  PROVE  /\ Distinct(s)
         /\ \A i \in 1 .. Len(s), j \in 1 .. Len(t) : s[i][1] # t[j][1]
<1> DEFINE q == s \o t
           a == Len(s)
           b == Len(t)
           c == Len(q)
<1>1. /\ c = a + b /\ a \in Nat /\ b \in Nat
      /\ \A i \in 1 .. a : q[i] = s[i]
      /\ \A i \in a + 1 .. a + b : q[i] = t[i - a]
  BY Joined, Zenon
<1>2. \A x, y \in 1 .. c : q[x][1] = q[y][1] => x = y
  BY Zenon DEF Distinct
<1> HIDE DEF q, a, b, c
<1>3. \A i \in 1 .. a : i \in 1 .. c /\ q[i] = s[i]
  BY ONLY <1>1
<1>4. ASSUME NEW i \in 1 .. b
      PROVE  a + i \in 1 .. c /\ q[a + i] = t[i] /\ a + i \notin 1 .. a
  <2>1. a + i \in a + 1 .. a + b /\ (a + i) - a = i /\ a + i \in 1 .. c /\ a + i \notin 1 .. a
    BY ONLY <1>1, <1>4
  <2>2. q[a + i] = t[(a + i) - a]
    BY ONLY <1>1, <2>1
  <2> QED BY ONLY <2>1, <2>2
<1>5. \A x, y \in 1 .. a : s[x][1] = s[y][1] => x = y
  BY ONLY <1>2, <1>3
<1>6. \A i \in 1 .. a, j \in 1 .. b : s[i][1] # t[j][1]
  BY ONLY <1>2, <1>3, <1>4
<1> QED BY <1>5, <1>6 DEF a, b, Distinct

(* What spawn maps is such a list.                                         *)
LEMMA FullPages ==
  ASSUME NEW image \in Image
  PROVE  FullList(image, Full(image))
<1> DEFINE N == Len(image)
           L(i) == load_segment(image[i])
           lists == [i \in 1 .. N |-> L(i)]
           top == <<STACK_PAGE, Untouched>>
           S == (UNION {Range(L(i)) : i \in 1 .. N}) \cup {top}
           e == Flatten(lists)
           t == <<top>>
           q == e \o t
<1>1. N \in Nat /\ DOMAIN image = 1 .. N /\ \A i \in 1 .. N : Segment(image[i])
  BY Segments
<1>2. \A i \in 1 .. N : SegmentList(image[i], L(i))
  BY <1>1, SegmentLists
<1>3. /\ \A i \in 1 .. N : L(i) \in Seq(Range(L(i))) /\ Len(L(i)) \in Nat
      /\ \A i \in 1 .. N : \A k \in 1 .. Len(L(i)) : L(i)[k][1] \in SegmentPages(image[i])
      /\ \A i \in 1 .. N : \A page \in SegmentPages(image[i]) :
           \E k \in 1 .. Len(L(i)) : L(i)[k][1] = page
  BY <1>2, Zenon DEF SegmentList, SegmentPages
<1>4. Full(image) = q
  <2>1. load_elf(image) = e
    BY <1>1 DEF load_elf
  <2>2. map_pages(STACK_PAGE, 1) = t
    BY LoaderAssumption DEF map_pages
  <2> QED BY Zenon, <2>1, <2>2 DEF Full
<1> HIDE DEF N, L
<1>5. \A i \in 1 .. N : L(i) \in Seq(S)
  <2>1. ASSUME NEW i \in 1 .. N PROVE L(i) \in Seq(S)
    <3>1. L(i) \in Seq(Range(L(i))) /\ Len(L(i)) \in Nat /\ Range(L(i)) \subseteq S
      BY <1>3
    <3> HIDE DEF S
    <3> QED BY <3>1
  <2> QED BY <2>1
<1>6. top \in S
  OBVIOUS
<1> HIDE DEF S, top
<1>7. /\ lists \in Seq(Seq(S)) /\ Len(lists) = N /\ \A i \in 1 .. N : lists[i] = L(i)
      /\ t \in Seq(S) /\ Len(t) = 1 /\ t[1] = top
  BY <1>1, <1>5, <1>6
<1> HIDE DEF lists, t
<1>8. e \in Seq(S) /\ Range(e) = UNION {Range(lists[i]) : i \in 1 .. Len(lists)}
  BY Zenon, <1>7, FlattenRange
<1> HIDE DEF e
<1>9. q \in Seq(S) /\ Len(q) \in Nat /\ Joining(e, t, q)
  BY Zenon, <1>7, <1>8, Joined, JoinedPlaces
<1>10. DOMAIN e = 1 .. Len(e)
  BY <1>8
<1>11. /\ \A x \in 1 .. Len(e) : \E i \in 1 .. N : \E k \in 1 .. Len(L(i)) : e[x] = L(i)[k]
       /\ \A i \in 1 .. N : \A k \in 1 .. Len(L(i)) : \E x \in 1 .. Len(e) : e[x] = L(i)[k]
  <2>1. \A i \in 1 .. N : DOMAIN L(i) = 1 .. Len(L(i))
    BY <1>5
  <2>2. Range(e) = UNION {Range(L(i)) : i \in 1 .. N}
    BY <1>7, <1>8
  <2>3. ASSUME NEW x \in 1 .. Len(e)
        PROVE  \E i \in 1 .. N : \E k \in 1 .. Len(L(i)) : e[x] = L(i)[k]
    <3>1. e[x] \in Range(e)
      BY <1>10 DEF Range
    <3>2. PICK i \in 1 .. N : e[x] \in Range(L(i))
      BY <2>2, <3>1
    <3>3. PICK k \in 1 .. Len(L(i)) : e[x] = L(i)[k]
      BY <2>1, <3>2 DEF Range
    <3> QED BY <3>3
  <2>4. ASSUME NEW i \in 1 .. N, NEW k \in 1 .. Len(L(i)) PROVE \E x \in 1 .. Len(e) : e[x] = L(i)[k]
    <3>1. L(i)[k] \in Range(L(i))
      BY <2>1 DEF Range
    <3>2. L(i)[k] \in Range(e)
      BY <2>2, <3>1
    <3> QED BY <1>10, <3>2 DEF Range
  <2> QED BY <2>3, <2>4
<1> HIDE DEF q
<1>12. q \in Seq(Range(q))
  <2>1. DOMAIN q = 1 .. Len(q) /\ q = [i \in 1 .. Len(q) |-> q[i]]
    BY <1>9
  <2>2. \A i \in 1 .. Len(q) : q[i] \in Range(q)
    BY <2>1, Zenon DEF Range
  <2> QED BY <1>9, <2>1, <2>2
<1>13. /\ \A x \in 1 .. Len(e) : \E k \in 1 .. Len(q) : q[k] = e[x]
       /\ \E k \in 1 .. Len(q) : q[k] = top
       /\ \A k \in 1 .. Len(q) : q[k] = top \/ \E x \in 1 .. Len(e) : q[k] = e[x]
  <2>1. 1 \in 1 .. Len(t) /\ \A i \in 1 .. Len(t) : t[i] = top
    BY <1>7
  <2>2. /\ \A x \in 1 .. Len(e) : \E k \in 1 .. Len(q) : q[k] = e[x]
        /\ \A i \in 1 .. Len(t) : \E k \in 1 .. Len(q) : q[k] = t[i]
        /\ \A k \in 1 .. Len(q) : \/ \E x \in 1 .. Len(e) : q[k] = e[x]
                                  \/ \E i \in 1 .. Len(t) : q[k] = t[i]
    BY Zenon, <1>9 DEF Joining
  <2>3. \E k \in 1 .. Len(q) : q[k] = top
    BY <2>1, <2>2
  <2>4. \A k \in 1 .. Len(q) : q[k] = top \/ \E x \in 1 .. Len(e) : q[k] = e[x]
    BY <2>1, <2>2
  <2> QED BY <2>2, <2>3, <2>4
<1>14. top[1] = STACK_PAGE
  BY DEF top
<1>15. ASSUME NEW k \in 1 .. Len(q)
       PROVE  q[k][1] = STACK_PAGE \/ \E i \in 1 .. N : q[k][1] \in SegmentPages(image[i])
  <2>1. CASE \E x \in 1 .. Len(e) : q[k] = e[x]
    <3>1. PICK i \in 1 .. N : \E m \in 1 .. Len(L(i)) : q[k] = L(i)[m]
      <4>1. PICK x \in 1 .. Len(e) : q[k] = e[x]
        BY Zenon, <2>1
      <4>2. \E i \in 1 .. N : \E m \in 1 .. Len(L(i)) : e[x] = L(i)[m]
        BY Zenon, <1>11
      <4> QED BY Zenon, <4>1, <4>2
    <3>2. q[k][1] \in SegmentPages(image[i])
      BY <1>3, <3>1
    <3> QED BY <3>2
  <2> QED BY Zenon, <1>13, <1>14, <2>1
<1>16. ASSUME NEW i \in 1 .. N, NEW x \in 1 .. Len(L(i))
       PROVE  \E k \in 1 .. Len(q) : q[k] = L(i)[x]
  <2>1. PICK m \in 1 .. Len(e) : e[m] = L(i)[x]
    BY <1>11
  <2> QED BY <1>13, <2>1, Zenon
<1>17. \E k \in 1 .. Len(q) : q[k][1] = STACK_PAGE
  BY <1>13, <1>14
<1>18. ASSUME Distinct(q)
       PROVE  /\ \A i \in 1 .. N : STACK_PAGE \notin SegmentPages(image[i])
              /\ \A i, j \in 1 .. N :
                   i < j => SegmentPages(image[i]) \cap SegmentPages(image[j]) = {}
  <2>1. Distinct(e) /\ \A x \in 1 .. Len(e), j \in 1 .. Len(t) : e[x][1] # t[j][1]
    BY Zenon, <1>7, <1>8, <1>18, JoinedDistinct DEF q
  <2>2. \A x \in 1 .. Len(e) : e[x][1] # STACK_PAGE
    BY <1>7, <1>14, <2>1
  <2>3. ASSUME NEW i \in 1 .. N, STACK_PAGE \in SegmentPages(image[i]) PROVE FALSE
    <3>1. PICK k \in 1 .. Len(L(i)) : L(i)[k][1] = STACK_PAGE
      BY Zenon, <1>3, <2>3
    <3>2. PICK x \in 1 .. Len(e) : e[x] = L(i)[k]
      BY <1>11
    <3> QED BY <2>2, <3>1, <3>2
  <2>4. ASSUME NEW i \in 1 .. N, NEW j \in 1 .. N, i < j,
               NEW page \in SegmentPages(image[i]) \cap SegmentPages(image[j])
        PROVE  FALSE
    <3>1. PICK k \in 1 .. Len(L(i)) : L(i)[k][1] = page
      BY Zenon, <1>3
    <3>2. PICK l \in 1 .. Len(L(j)) : L(j)[l][1] = page
      BY Zenon, <1>3
    <3>3. /\ Distinct(Flatten(lists)) /\ i \in 1 .. Len(lists) /\ j \in 1 .. Len(lists)
          /\ k \in 1 .. Len(lists[i]) /\ l \in 1 .. Len(lists[j])
      BY <1>7, <2>1 DEF e
    <3>4. lists[i][k][1] # lists[j][l][1]
      <4>1. lists \in Seq(Seq(S)) /\ i < j
        BY <1>7, <2>4
      <4> QED BY ONLY <3>3, <4>1, FlattenParts, Zenon
    <3> QED BY Zenon, <1>7, <3>1, <3>2, <3>4
  <2> QED BY <2>3, <2>4
<1>19. FullList(image, q)
  BY <1>9, <1>12, <1>15, <1>16, <1>17, <1>18, Zenon DEF FullList, N, L
<1> QED BY <1>4, <1>19, Zenon DEF q

-----------------------------------------------------------------------------
(* The invariant of a process.  Its uses of frames are of three kinds, no  *)
(* page of it is in two frames, and while it is being loaded just the      *)
(* pages before job.todo are mapped, with what was written to them.        *)

KindsOf(U, p) ==
  \A f \in Frame : \A u \in U[f] :
    u[1] = p => u = <<p, "root">> \/ u = <<p, "table">> \/ u = <<p, "page", u[3]>>
OneFrameOf(U, p) ==
  \A f, g \in Frame : \A u \in U[f] : u \in U[g] /\ u[1] = p /\ u[2] = "page" => f = g
MappedIn(U, M, p, e) == \E f \in Frame : <<p, "page", e[1]>> \in U[f] /\ M[f] = e[2]
Done(U, M, p, q, k) ==
  /\ \A i \in 1 .. k : MappedIn(U, M, p, q[i])
  /\ \A i, j \in 1 .. k : q[i][1] = q[j][1] => i = j
  /\ \A f \in Frame : \A u \in U[f] :
       u[1] = p /\ u[2] = "page" => \E i \in 1 .. k : u[3] = q[i][1]
Loading(U, M, p, image, todo) ==
  \E k \in 0 .. Len(Full(image)) :
    /\ todo = SubSeq(Full(image), k + 1, Len(Full(image)))
    /\ Done(U, M, p, Full(image), k)
Extra(image) == UNION {Unreported(s) : s \in Range(image)}
Returned(U, p, image) ==
  \A f \in Frame : \A u \in U[f] : u[1] = p =>
    \/ \E page \in Extra(image) : u = <<p, "page", page>>
    \/ Extra(image) # {} /\ u = <<p, "table">>
Unused(U, p) == \A f \in Frame : \A u \in U[f] : u[1] # p

ProcState(U, M, ph, jb, c, p) ==
  /\ KindsOf(U, p) /\ OneFrameOf(U, p)
  /\ jb.space = p => c.status = "none" /\ Loading(U, M, p, jb.image, jb.todo)
  /\ c.status = "none" /\ jb.space # p /\ ph # "panic" => Unused(U, p)
  /\ c.status = "loaded" => Done(U, M, p, Full(c.image), Len(Full(c.image)))
  /\ c.status = "exited" => Returned(U, p, c.image)

ProcInv == \A p \in Proc : ProcState(uses, mem, phase, job, code[p], p)

(* What others do to other frames. *)
Undisturbed(U, M, V, N, p) ==
  \A f \in Frame :
    /\ (\E u \in U[f] : u[1] = p) => V[f] = U[f] /\ N[f] = M[f]
    /\ \A u \in V[f] : u[1] = p => u \in U[f]

(* Pages that are mapped stay so in an undisturbed address space.          *)
LEMMA DoneStays ==
  ASSUME NEW U, NEW M, NEW V, NEW N, NEW p, Undisturbed(U, M, V, N, p),
         NEW q, NEW k, Done(U, M, p, q, k)
  PROVE  Done(V, N, p, q, k)
<1>1. ASSUME NEW i \in 1 .. k PROVE MappedIn(V, N, p, q[i])
  <2> DEFINE use == <<p, "page", q[i][1]>>
  <2>1. PICK f \in Frame : use \in U[f] /\ M[f] = q[i][2]
    BY DEF Done, MappedIn
  <2>2. use[1] = p
    OBVIOUS
  <2> HIDE DEF use
  <2>3. V[f] = U[f] /\ N[f] = M[f]
    BY <2>1, <2>2, Zenon DEF Undisturbed
  <2> QED BY <2>1, <2>3 DEF MappedIn, use
<1>2. ASSUME NEW f \in Frame, NEW u \in V[f], u[1] = p, u[2] = "page"
      PROVE  \E i \in 1 .. k : u[3] = q[i][1]
  <2>1. u \in U[f]
    BY <1>2 DEF Undisturbed
  <2> QED BY <1>2, <2>1 DEF Done
<1>3. \A i, j \in 1 .. k : q[i][1] = q[j][1] => i = j
  BY DEF Done
<1> QED BY Zenon, <1>1, <1>2, <1>3 DEF Done

(* So does the state of a process.                                         *)
LEMMA StateStays ==
  ASSUME NEW U, NEW M, NEW V, NEW N, NEW p, Undisturbed(U, M, V, N, p),
         NEW ph, NEW jb, NEW c, ProcState(U, M, ph, jb, c, p),
         NEW ph2, NEW jb2,
         jb2.space # p \/ jb2 = jb,
         jb.space = p => jb2 = jb \/ ph2 = "panic",
         ph = "panic" => ph2 = "panic"
  PROVE  ProcState(V, N, ph2, jb2, c, p)
<1>1. /\ KindsOf(U, p) /\ OneFrameOf(U, p)
      /\ jb.space = p => c.status = "none" /\ Loading(U, M, p, jb.image, jb.todo)
      /\ c.status = "none" /\ jb.space # p /\ ph # "panic" => Unused(U, p)
      /\ c.status = "loaded" => Done(U, M, p, Full(c.image), Len(Full(c.image)))
      /\ c.status = "exited" => Returned(U, p, c.image)
  BY DEF ProcState
<1>2. \A f \in Frame : \A u \in V[f] : u[1] = p => u \in U[f]
  BY DEF Undisturbed
<1>3. KindsOf(V, p)
  BY <1>1, <1>2, Zenon DEF KindsOf
<1>4. OneFrameOf(V, p)
  BY <1>1, <1>2, Zenon DEF OneFrameOf
<1>5. ASSUME jb2.space = p
      PROVE  c.status = "none" /\ Loading(V, N, p, jb2.image, jb2.todo)
  <2>1. jb2 = jb
    BY <1>5
  <2>2. c.status = "none" /\ Loading(U, M, p, jb2.image, jb2.todo)
    BY <1>1, <1>5, <2>1
  <2> DEFINE q == Full(jb2.image)
  <2>3. PICK k \in 0 .. Len(q) : /\ jb2.todo = SubSeq(q, k + 1, Len(q))
                                 /\ Done(U, M, p, q, k)
    BY <2>2, Zenon DEF Loading
  <2> HIDE DEF q
  <2>4. Done(V, N, p, q, k)
    BY <2>3, DoneStays
  <2>5. Loading(V, N, p, jb2.image, jb2.todo)
    BY <2>3, <2>4, Zenon DEF Loading, q
  <2> QED BY <2>2, <2>5
<1>6. ASSUME c.status = "none", jb2.space # p, ph2 # "panic" PROVE Unused(V, p)
  <2>1. Unused(U, p)
    BY <1>1, <1>6
  <2> QED BY <1>2, <2>1 DEF Unused
<1>7. ASSUME c.status = "loaded" PROVE Done(V, N, p, Full(c.image), Len(Full(c.image)))
  BY <1>1, <1>7, DoneStays
<1>8. ASSUME c.status = "exited" PROVE Returned(V, p, c.image)
  BY <1>1, <1>2, <1>8, Zenon DEF Returned
<1> QED BY Zenon, <1>3, <1>4, <1>5, <1>6, <1>7, <1>8 DEF ProcState

(* A process that has no frame, before and after. *)
LEMMA UnusedStays ==
  ASSUME NEW U, NEW M, NEW V, NEW N, NEW p, Unused(U, p), Unused(V, p)
  PROVE  Undisturbed(U, M, V, N, p)
BY DEF Unused, Undisturbed

(* Until the kernel runs no process has a frame.                           *)
LEMMA BootProcs ==
  ASSUME FrameInv, FrameInv', ProcInv, phase \notin {"run", "panic"}, code' = code,
         phase' \notin {"run", "panic"} \/ uses' = uses, job'.space \notin Proc
  PROVE  ProcInv'
<1> SUFFICES ASSUME NEW p \in Proc PROVE ProcState(uses', mem', phase', job', code'[p], p)
  BY DEF ProcInv
<1>1. ProcState(uses, mem, phase, job, code[p], p)
  BY DEF ProcInv
<1>2. Unused(uses, p)
  BY DEF FrameInv, InBoot, Owned, Unused
<1>3. Unused(uses', p)
  <2>1. CASE phase' \notin {"run", "panic"}
    <3>1. Owned(p)' = {}
      BY <2>1 DEF FrameInv, InBoot
    <3> QED BY <3>1 DEF Owned, Unused
  <2>2. CASE uses' = uses
    BY <1>2, <2>2
  <2> QED BY <2>1, <2>2
<1>4. Undisturbed(uses, mem, uses', mem', p)
  BY Zenon, <1>2, <1>3, UnusedStays
<1>5. job.space # p
  BY LoaderAssumption DEF FrameInv, Jobs, KernelJob, Idle
<1>6. ProcState(uses', mem', phase', job', code[p], p)
  <2>1. job'.space # p /\ phase # "panic"
    OBVIOUS
  <2> QED BY <1>1, <1>4, <1>5, <2>1, StateStays, Zenon
<1> QED BY <1>6

Boots ==
  \/ load_config \/ load_kernel \/ load_apps \/ apps_loaded \/ map_physical_memory
  \/ free_elf \/ exit_boot_services \/ init_memory

(* Before the kernel runs no step is about a process.                      *)
LEMMA BootSteps ==
  ASSUME FrameInv, Boots
  PROVE  /\ phase \notin {"run", "panic"} /\ code' = code
         /\ phase' \notin {"run", "panic"} \/ uses' = uses
         /\ job'.space \notin Proc
<1>1. Idle.space \notin Proc /\ "kernel" \notin Proc
  BY LoaderAssumption DEF Idle
<1>2. phase \notin {"map", "run"} => job = Idle
  BY DEF FrameInv, Jobs
<1>3. ASSUME panic PROVE uses' = uses /\ code' = code /\ job' = Idle
  BY <1>3 DEF panic
<1>4. ASSUME NEW size, NEW use, NEW next, load_file(size, use, next)
      PROVE  /\ code' = code
             /\ uses' = uses \/ phase' = next.phase
             /\ job' = job \/ job' = Idle
  BY <1>3, <1>4 DEF load_file
<1>5. CASE load_config
  <2>1. phase = "config" /\ Then("kernel", parse(lines)).phase = "kernel"
    BY <1>5 DEF load_config, Then
  <2>2. load_file(Len(lines), <<"config">>, Then("kernel", parse(lines)))
    BY <1>5 DEF load_config
  <2> QED BY Zenon, <1>1, <1>2, <1>4, <2>1, <2>2
<1>6. CASE load_kernel
  <2> DEFINE n == Then(IF config.load_apps THEN "apps" ELSE "memory", config)
  <2>1. n.phase \in {"apps", "memory"}
    BY DEF Then
  <2>2. phase = "kernel" /\ load_file(FileSize(KernelImage), <<"elf">>, n)
    BY Zenon, <1>6 DEF load_kernel
  <2> HIDE DEF n
  <2> QED BY Zenon, <1>1, <1>2, <1>4, <2>1, <2>2
<1>7. CASE load_apps
  <2>1. phase = "apps"
    BY <1>7 DEF load_apps
  <2>2. CASE phase' = phase /\ uses' = uses /\ job' = job /\ code' = code
    BY Zenon, <1>1, <1>2, <2>1, <2>2
  <2>3. CASE panic
    BY Zenon, <1>1, <1>3, <2>1, <2>3
  <2> DEFINE n == [phase |-> "apps", config |-> config, dir |-> Tail(dir), apps |-> apps + 1]
  <2>4. CASE load_file(Head(dir).size, <<"app", apps>>, n)
    <3>1. n.phase = "apps"
      OBVIOUS
    <3> HIDE DEF n
    <3> QED BY Zenon, <1>1, <1>2, <1>4, <2>1, <2>4, <3>1
  <2> QED BY Zenon, <1>7, <2>2, <2>3, <2>4 DEF load_apps
<1>8. CASE map_physical_memory
  <2>1. /\ phase = "memory" /\ code' = code
        /\ \/ panic
           \/ phase' = "map" /\ job' = [space |-> "kernel", todo |-> load_elf(KernelImage) \o KernelStack]
    BY <1>3, <1>8 DEF map_physical_memory
  <2> QED BY <1>1, <1>3, <2>1
<1>9. CASE apps_loaded
  BY Zenon, <1>1, <1>2, <1>9 DEF apps_loaded
<1>10. CASE free_elf
  BY <1>1, <1>10 DEF free_elf
<1>11. CASE exit_boot_services
  BY Zenon, <1>1, <1>2, <1>11 DEF exit_boot_services
<1>12. CASE init_memory
  BY <1>1, <1>12 DEF init_memory
<1> QED BY Zenon, <1>5, <1>6, <1>7, <1>8, <1>9, <1>10, <1>11, <1>12 DEF Boots

(* Nothing of a process changes in a panic. *)
LEMMA SameUndisturbed ==
  ASSUME NEW U, NEW M, NEW p
  PROVE  Undisturbed(U, M, U, M, p)
BY DEF Undisturbed

(* A panic keeps the invariant of processes.                               *)
LEMMA PanicProcs == ASSUME ProcInv, panic PROVE ProcInv'
<1> SUFFICES ASSUME NEW p \in Proc PROVE ProcState(uses', mem', phase', job', code'[p], p)
  BY DEF ProcInv
<1>1. uses' = uses /\ mem' = mem /\ phase' = "panic" /\ job' = Idle /\ code' = code
  BY DEF panic
<1>2. ProcState(uses, mem, phase, job, code[p], p)
  BY DEF ProcInv
<1>3. Idle.space # p
  BY Zenon, LoaderAssumption DEF Idle
<1>4. ProcState(uses, mem, "panic", Idle, code[p], p)
  BY Zenon, <1>2, <1>3, SameUndisturbed, StateStays
<1> QED BY <1>1, <1>4

-----------------------------------------------------------------------------
(* What is left of a list after its next element. *)
LEMMA NextOf ==
  ASSUME NEW S, NEW q \in Seq(S), NEW k \in 0 .. Len(q), SubSeq(q, k + 1, Len(q)) # <<>>
  PROVE  /\ k + 1 \in 1 .. Len(q)
         /\ Head(SubSeq(q, k + 1, Len(q))) = q[k + 1]
         /\ Tail(SubSeq(q, k + 1, Len(q))) = SubSeq(q, (k + 1) + 1, Len(q))
<1> DEFINE n == Len(q)
<1>1. n \in Nat /\ k \in Nat /\ k <= n
  OBVIOUS
<1>2. k + 1 <= n
  <2> SUFFICES ASSUME ~(k + 1 <= n) PROVE FALSE
    OBVIOUS
  <2> HIDE DEF n
  <2>1. k + 1 > n /\ k + 1 \in Int /\ n \in Int
    BY <1>1
  <2>2. SubSeq(q, k + 1, n) = <<>>
    BY <2>1, SubSeqEmpty
  <2> QED BY <2>2 DEF n
<1>3. k + 1 \in 1 .. n /\ n \in (k + 1) .. Len(q)
  <2>1. n = Len(q)
    OBVIOUS
  <2> HIDE DEF n
  <2> QED BY <1>1, <1>2, <2>1
<1>4. Head(SubSeq(q, k + 1, n)) = q[k + 1] /\ Tail(SubSeq(q, k + 1, n)) = SubSeq(q, (k + 1) + 1, n)
  BY Zenon, <1>3, HeadTailOfSubSeq
<1> QED BY <1>3, <1>4

(* One page more. *)
Adds(U, M, V, N, p, a, T, e) ==
  /\ a \in Frame /\ \A f \in T \cup {a} : U[f] = {}
  /\ \A f \in Frame : V[f] = IF f = a THEN {<<p, "page", e[1]>>}
                               ELSE IF f \in T THEN {<<p, "table">>} ELSE U[f]
  /\ N[a] = e[2] /\ \A f \in Frame : f # a => N[f] = M[f]
  /\ \A f \in Frame : <<p, "page", e[1]>> \notin U[f]

(* A page mapped into a frame without a use is one page more.              *)
LEMMA OneMore ==
  ASSUME NEW U, NEW M, NEW V, NEW N, NEW p, NEW a, NEW T,
         NEW q, NEW k \in Nat, Adds(U, M, V, N, p, a, T, q[k + 1]),
         Done(U, M, p, q, k), KindsOf(U, p), OneFrameOf(U, p)
  PROVE  Done(V, N, p, q, k + 1) /\ KindsOf(V, p) /\ OneFrameOf(V, p)
<1> DEFINE page == q[k + 1][1]
           data == q[k + 1][2]
           pg == <<p, "page", page>>
           tb == <<p, "table">>
<1>1. /\ \A f \in T \cup {a} : U[f] = {}
      /\ \A f \in Frame : V[f] = IF f = a THEN {pg} ELSE IF f \in T THEN {tb} ELSE U[f]
      /\ \A f \in Frame : pg \notin U[f]
      /\ a \in Frame /\ N[a] = data /\ \A f \in Frame : f # a => N[f] = M[f]
  BY Zenon DEF Adds
<1>2. pg[1] = p /\ pg[2] = "page" /\ pg[3] = page /\ tb[1] = p /\ tb[2] = "table"
  BY Zenon
<1>3. /\ \A i \in 1 .. k : MappedIn(U, M, p, q[i])
      /\ \A i, j \in 1 .. k : q[i][1] = q[j][1] => i = j
      /\ \A f \in Frame : \A u \in U[f] :
           u[1] = p /\ u[2] = "page" => \E i \in 1 .. k : u[3] = q[i][1]
  BY DEF Done
<1>4. /\ \A i \in 1 .. k + 1 : i \in 1 .. k \/ i = k + 1
      /\ \A i \in 1 .. k : i \in 1 .. k + 1 /\ i # k + 1
      /\ k + 1 \in 1 .. k + 1
  OBVIOUS
<1>5. \A i \in 1 .. k : q[i][1] # page
  BY Zenon, <1>1, <1>3 DEF MappedIn
<1>6. KindsOf(V, p)
  <2>1. ASSUME NEW f \in Frame, NEW u \in V[f], u[1] = p
        PROVE  u = <<p, "root">> \/ u = <<p, "table">> \/ u = <<p, "page", u[3]>>
    <3>1. u = pg \/ u = tb \/ u \in U[f]
      BY <1>1, <2>1
    <3> QED BY Zenon, <1>2, <2>1, <3>1 DEF KindsOf
  <2> QED BY Zenon, <2>1 DEF KindsOf
<1> HIDE DEF pg, tb
<1>7. ASSUME NEW i \in 1 .. k + 1 PROVE MappedIn(V, N, p, q[i])
  <2>1. CASE i \in 1 .. k
    <3>1. PICK f \in Frame : <<p, "page", q[i][1]>> \in U[f] /\ M[f] = q[i][2]
      BY Zenon, <1>3, <2>1 DEF MappedIn
    <3>2. f # a /\ f \notin T
      BY Zenon, <1>1, <3>1
    <3>3. V[f] = U[f] /\ N[f] = M[f]
      BY Zenon, <1>1, <3>2
    <3> QED BY Zenon, <3>1, <3>3 DEF MappedIn
  <2>2. CASE i = k + 1
    <3>1. V[a] = {pg}
      BY Zenon, <1>1
    <3> QED BY Zenon, <1>1, <2>2, <3>1 DEF MappedIn, pg
  <2> QED BY Zenon, <1>4, <2>1, <2>2
<1>8. \A i, j \in 1 .. k + 1 : q[i][1] = q[j][1] => i = j
  BY Zenon, <1>3, <1>4, <1>5
<1>9. ASSUME NEW f \in Frame, NEW u \in V[f], u[1] = p, u[2] = "page"
      PROVE  \E i \in 1 .. k + 1 : u[3] = q[i][1]
  <2>1. CASE u = pg
    BY Zenon, <1>2, <1>4, <2>1
  <2>2. CASE u \in U[f]
    BY ZenonT(30), <1>3, <1>4, <1>9, <2>2
  <2>3. u = pg \/ u = tb \/ u \in U[f]
    BY SMTT(30), <1>1
  <2>4. u # tb
    BY Zenon, <1>2, <1>9
  <2> QED BY Zenon, <2>1, <2>2, <2>3, <2>4
<1>10. OneFrameOf(V, p)
  <2>1. ASSUME NEW f \in Frame, NEW g \in Frame, NEW u \in V[f], u \in V[g], u[1] = p, u[2] = "page"
        PROVE  f = g
    <3>1. u # tb
      BY Zenon, <1>2, <2>1
    <3>2. (f = a /\ u = pg) \/ (f # a /\ u \in U[f])
      BY SMTT(30), <1>1, <2>1, <3>1
    <3>3. (g = a /\ u = pg) \/ (g # a /\ u \in U[g])
      BY SMTT(30), <1>1, <2>1, <3>1
    <3>4. CASE u = pg
      BY Zenon, <1>1, <3>2, <3>3, <3>4
    <3>5. CASE u # pg
      BY Zenon, <2>1, <3>2, <3>3, <3>5 DEF OneFrameOf
    <3> QED BY Zenon, <3>4, <3>5
  <2> QED BY Zenon, <2>1 DEF OneFrameOf
<1> QED BY Zenon, <1>6, <1>7, <1>8, <1>9, <1>10 DEF Done

(* map_page keeps the invariant of processes.                              *)
LEMMA MapPageProcs ==
  ASSUME FrameInv, FrameInv', ProcInv, map_page PROVE ProcInv'
<1> DEFINE space == job.space
           page == Head(job.todo)[1]
           data == Head(job.todo)[2]
<1>1. /\ job # Idle /\ job.todo # <<>> /\ map_to(space, page, data)
  BY DEF map_page
<1>2. phase \in {"map", "run"}
  BY <1>1 DEF FrameInv, Jobs
<1>3. CASE phase' = "panic"
  <2>1. panic
    BY Zenon, <1>1, <1>2, <1>3 DEF map_to
  <2> QED BY <2>1, PanicProcs
<1>4. CASE phase' # "panic"
  <2> HIDE DEF space, page, data
  <2>1. PICK a, T : Placed(a, T, space, page, data)
    BY Zenon, <1>1, <1>2, <1>4, Placing
  <2> DEFINE pg == <<space, "page", page>>
             tb == <<space, "table">>
  <2>2. /\ a \in Frame /\ T \subseteq Frame
        /\ \A f \in T \cup {a} : uses[f] = {}
        /\ \A f \in Frame : uses'[f] = IF f = a THEN {pg} ELSE IF f \in T THEN {tb} ELSE uses[f]
        /\ mem' = [mem EXCEPT ![a] = data] /\ phase' = phase /\ code' = code
        /\ job' = [job EXCEPT !.todo = Tail(@)]
        /\ Using(pg) = {}
    BY Zenon, <2>1 DEF Placed, Conventional
  <2>3. pg[1] = space /\ tb[1] = space
    OBVIOUS
  <2>4. mem'[a] = data /\ \A f \in Frame : f # a => mem'[f] = mem[f]
    BY <2>2 DEF FrameInv, Shape
  <2>5. KernelJob \/ ProcJob
    BY <1>1, <1>2 DEF FrameInv, Jobs
  <2>6. job'.space = space
    <3>1. CASE KernelJob
      <4> DEFINE td == job.todo
      <4>1. job = [space |-> "kernel", todo |-> td]
        BY <3>1 DEF KernelJob
      <4> HIDE DEF td
      <4>2. job' = [space |-> "kernel", todo |-> Tail(td)]
        BY ONLY Zenon, <4>1, <2>2
      <4> QED BY <4>1, <4>2 DEF space
    <3>2. CASE ProcJob
      BY Zenon, <2>2, <3>2 DEF ProcJob, space
    <3> QED BY Zenon, <2>5, <3>1, <3>2
  <2> SUFFICES ASSUME NEW p \in Proc PROVE ProcState(uses', mem', phase', job', code'[p], p)
    BY DEF ProcInv
  <2>7. ProcState(uses, mem, phase, job, code[p], p)
    BY DEF ProcInv
  <2>8. CASE p # space
    <3> HIDE DEF pg, tb
    <3>1. Undisturbed(uses, mem, uses', mem', p)
      BY ZenonT(30), <2>2, <2>3, <2>4, <2>8 DEF Undisturbed
    <3>2. ProcState(uses', mem', phase', job', code[p], p)
      <4>1. job'.space # p /\ job.space # p /\ (phase = "panic" => phase' = "panic")
        BY Zenon, <2>2, <2>6, <2>8 DEF space
      <4> QED BY <2>7, <3>1, <4>1, StateStays, Zenon
    <3> QED BY <2>2, <3>2
  <2>9. CASE p = space
    <3>1. ProcJob
      BY <2>5, <2>9, LoaderAssumption DEF KernelJob, space
    <3>2. /\ job.image \in Image
          /\ job' = [space |-> space, image |-> job.image, todo |-> Tail(job.todo)]
      BY Zenon, <2>2, <3>1 DEF ProcJob, space
    <3> DEFINE q == Full(job.image)
    <3>3. /\ code[p].status = "none" /\ KindsOf(uses, p) /\ OneFrameOf(uses, p)
          /\ Loading(uses, mem, p, job.image, job.todo)
      BY <2>7, <2>9 DEF ProcState, space
    <3>4. PICK k \in 0 .. Len(q) : /\ job.todo = SubSeq(q, k + 1, Len(q))
                                   /\ Done(uses, mem, p, q, k)
      BY <3>3, Zenon DEF Loading
    <3>5. q \in Seq(Range(q)) /\ Len(q) \in Nat
      BY Zenon, <3>2, FullPages DEF FullList
    <3> HIDE DEF q
    <3>6. /\ k + 1 \in 1 .. Len(q) /\ Head(job.todo) = q[k + 1]
          /\ Tail(job.todo) = SubSeq(q, (k + 1) + 1, Len(q))
      BY ZenonT(30), <1>1, <3>4, <3>5, NextOf
    <3>7. q[k + 1][1] = page /\ q[k + 1][2] = data /\ k \in Nat
      BY <3>5, <3>6 DEF page, data
    <3>8. \A f \in Frame : pg \notin uses[f]
      BY <2>2 DEF Using
    <3>9. Done(uses', mem', p, q, k + 1) /\ KindsOf(uses', p) /\ OneFrameOf(uses', p)
      <4>1. Adds(uses, mem, uses', mem', p, a, T, q[k + 1])
        BY Zenon, <2>2, <2>4, <2>9, <3>7, <3>8 DEF Adds
      <4>2. Done(uses, mem, p, q, k)
        BY <3>4
      <4>3. KindsOf(uses, p) /\ OneFrameOf(uses, p)
        BY <3>3
      <4> QED BY ONLY <3>7, <4>1, <4>2, <4>3, OneMore, Zenon
    <3>10. /\ job'.space = p /\ job'.image = job.image
           /\ job'.todo = SubSeq(q, (k + 1) + 1, Len(q))
      BY Zenon, <2>9, <3>2, <3>6
    <3>11. k + 1 \in 0 .. Len(q)
      BY <3>5, <3>6
    <3>12. Loading(uses', mem', p, job'.image, job'.todo)
      BY <3>9, <3>10, <3>11, Zenon DEF Loading, q
    <3> QED BY Zenon, <2>2, <3>3, <3>9, <3>10, <3>12 DEF ProcState
  <2> QED BY Zenon, <2>8, <2>9
<1> QED BY Zenon, <1>3, <1>4

(* The image is loaded. *)
LEMMA LoadedProcs == ASSUME FrameInv, ProcInv, loaded PROVE ProcInv'
<1>1. /\ phase = "run" /\ phase' = "run" /\ job # Idle /\ job.todo = <<>> /\ job' = Idle
      /\ code' = [p \in Proc |-> IF p = job.space THEN [status |-> "loaded", image |-> job.image]
                                 ELSE code[p]]
      /\ uses' = uses /\ mem' = mem
  BY DEF loaded
<1> SUFFICES ASSUME NEW p \in Proc PROVE ProcState(uses', mem', phase', job', code'[p], p)
  BY DEF ProcInv
<1>2. ProcState(uses, mem, phase, job, code[p], p)
  BY DEF ProcInv
<1>3. Idle.space # p
  BY Zenon, LoaderAssumption DEF Idle
<1>4. CASE job.space # p
  <2>1. ProcState(uses, mem, "run", Idle, code[p], p)
    <3>1. phase # "panic"
      BY Zenon, <1>1
    <3> QED BY <1>2, <1>3, <1>4, <3>1, SameUndisturbed, StateStays, Zenon
  <2> QED BY Zenon, <1>1, <1>4, <2>1
<1>5. CASE job.space = p
  <2> DEFINE q == Full(job.image)
             c == [status |-> "loaded", image |-> job.image]
  <2>1. KindsOf(uses, p) /\ OneFrameOf(uses, p) /\ Loading(uses, mem, p, job.image, job.todo)
    BY <1>2, <1>5 DEF ProcState
  <2>2. PICK k \in 0 .. Len(q) : /\ job.todo = SubSeq(q, k + 1, Len(q))
                                 /\ Done(uses, mem, p, q, k)
    BY <2>1, Zenon DEF Loading
  <2>3. job.image \in Image
    BY SMTT(30), <1>1, <1>5, LoaderAssumption DEF FrameInv, Jobs, KernelJob, ProcJob
  <2>4. q \in Seq(Range(q)) /\ Len(q) \in Nat
    BY Zenon, <2>3, FullPages DEF FullList
  <2> HIDE DEF q
  <2>5. k = Len(q)
    <3>1. Len(SubSeq(q, k + 1, Len(q))) = Len(q) - (k + 1) + 1
      <4>1. k + 1 \in Nat /\ 1 <= k + 1 /\ k + 1 <= Len(q) + 1 /\ Len(q) <= Len(q)
        BY <2>4
      <4> QED BY Zenon, <2>4, <4>1, Sliced
    <3>2. Len(SubSeq(q, k + 1, Len(q))) = 0
      BY <1>1, <2>2
    <3> QED BY <2>4, <3>1, <3>2
  <2>6. Done(uses, mem, p, q, Len(q))
    BY <2>2, <2>5
  <2>7. c.status = "loaded" /\ c.image = job.image
    OBVIOUS
  <2>8. code'[p] = c
    BY Zenon, <1>1, <1>5
  <2> HIDE DEF c
  <2>9. ProcState(uses, mem, "run", Idle, c, p)
    BY Zenon, <1>3, <2>1, <2>6, <2>7 DEF ProcState, q
  <2> QED BY ZenonT(30), <1>1, <2>8, <2>9
<1> QED BY Zenon, <1>4, <1>5

(* A process begins. *)
LEMMA SpawnProcs ==
  ASSUME FrameInv, ProcInv, NEW n \in Proc, NEW image \in Image, spawn(n, image)
  PROVE  ProcInv'
<1>1. CASE panic
  BY <1>1, PanicProcs
<1>2. CASE ~panic
  <2> DEFINE use == <<n, "root">>
             h == Head(Pool)
             q == Full(image)
  <2>1. /\ phase = "run" /\ phase' = "run" /\ job = Idle /\ code[n].status = "none" /\ Pool # <<>>
        /\ uses' = Used({h}, use)
        /\ job' = [space |-> n, image |-> image, todo |-> q]
        /\ mem' = mem /\ code' = code
    BY <1>2 DEF spawn, bootVars, Full
  <2>2. h \in Frame /\ uses[h] = {}
    <3>1. Pool \in Seq(Frame) /\ Len(Pool) \in Nat /\ DOMAIN Pool = 1 .. Len(Pool)
      BY Zenon, PoolType DEF FrameInv
    <3>2. h = Pool[1] /\ 1 \in 1 .. Len(Pool)
      BY <2>1, <3>1
    <3>3. h \in Range(Pool)
      BY Zenon, <3>1, <3>2 DEF Range
    <3>4. Range(Pool) \subseteq Conventional \ InUse
      BY <2>1 DEF FrameInv, AtRun
    <3> QED BY <3>3, <3>4 DEF InUse, Conventional
  <2>3. use[1] = n /\ use[2] = "root"
    BY Zenon
  <2> HIDE DEF h
  <2>4. uses'[h] = {use} /\ \A f \in Frame : f # h => uses'[f] = uses[f]
    BY Zenon, <2>1, <2>2 DEF Used
  <2>5. job.space = "none" /\ "none" \notin Proc
    BY Zenon, <2>1, LoaderAssumption DEF Idle
  <2> SUFFICES ASSUME NEW p \in Proc PROVE ProcState(uses', mem', phase', job', code'[p], p)
    BY DEF ProcInv
  <2>6. ProcState(uses, mem, phase, job, code[p], p)
    BY Zenon DEF ProcInv
  <2>7. CASE p # n
    <3> HIDE DEF use, q
    <3>1. Undisturbed(uses, mem, uses', mem', p)
      <4>1. ASSUME NEW f \in Frame
            PROVE  /\ (\E u \in uses[f] : u[1] = p) => uses'[f] = uses[f] /\ mem'[f] = mem[f]
                   /\ \A u \in uses'[f] : u[1] = p => u \in uses[f]
        <5>1. CASE f = h
          BY Zenon, <2>2, <2>3, <2>4, <2>7, <5>1
        <5>2. CASE f # h
          BY Zenon, <2>1, <2>4, <5>2
        <5> QED BY Zenon, <5>1, <5>2
      <4> QED BY Zenon, <4>1 DEF Undisturbed
    <3>2. job'.space # p /\ job.space # p /\ phase # "panic"
      BY Zenon, <2>1, <2>5, <2>7
    <3>3. ProcState(uses', mem', phase', job', code[p], p)
      BY <2>6, <3>1, <3>2, StateStays, Zenon
    <3> QED BY Zenon, <2>1, <3>3
  <2>8. CASE p = n
    <3>1. Unused(uses, p)
      BY ZenonT(30), <2>1, <2>5, <2>6, <2>8 DEF ProcState
    <3>2. \A f \in Frame : \A u \in uses'[f] : u[1] = p => f = h /\ u = use
      BY Zenon, <2>4, <3>1 DEF Unused
    <3>3. KindsOf(uses', p)
      BY Zenon, <2>8, <3>2 DEF KindsOf
    <3>4. OneFrameOf(uses', p)
      BY Zenon, <3>2 DEF OneFrameOf
    <3>5. q \in Seq(Range(q)) /\ Len(q) \in Nat
      BY FullPages DEF FullList
    <3> HIDE DEF q
    <3>6. Done(uses', mem', p, q, 0)
      <4>1. \A i \in 1 .. 0 : FALSE
        OBVIOUS
      <4>2. \A f \in Frame : \A u \in uses'[f] : ~(u[1] = p /\ u[2] = "page")
        BY Zenon, <2>3, <3>2
      <4> QED BY <4>1, <4>2, Zenon DEF Done
    <3>7. SubSeq(q, 1, Len(q)) = q
      BY <3>5, SubSeqFull
    <3>8. Loading(uses', mem', p, image, q)
      <4>1. 0 \in 0 .. Len(q) /\ 0 + 1 = 1
        BY <3>5
      <4>2. q = SubSeq(q, 0 + 1, Len(q))
        BY Zenon, <3>7, <4>1
      <4> QED BY <3>6, <4>1, <4>2, Zenon DEF Loading, q
    <3>9. job'.space = p /\ job'.image = image /\ job'.todo = q /\ code'[p].status = "none"
      BY Zenon, <2>1, <2>8
    <3> QED BY Zenon, <3>3, <3>4, <3>8, <3>9 DEF ProcState
  <2> QED BY Zenon, <2>7, <2>8
<1> QED BY <1>1, <1>2

-----------------------------------------------------------------------------
(* The pages a process gives back are different, and all of them are       *)
(* mapped.                                                                 *)
LEMMA ExitPagesMapped ==
  ASSUME NEW p, NEW image \in Image, code[p].image = image,
         Done(uses, mem, p, Full(image), Len(Full(image)))
  PROVE  /\ IsInjective(ExitPages(p))
         /\ \A page \in Range(ExitPages(p)) : Using(<<p, "page", page>>) # {}
         /\ STACK_PAGE \in Range(ExitPages(p))
         /\ \A i \in 1 .. Len(image) : CodePages(image[i]) \subseteq Range(ExitPages(p))
<1> DEFINE N == Len(image)
           q == Full(image)
           C(i) == CodeRange(image[i])
           lists == [i \in DOMAIN image |-> C(i)]
           e == Flatten(lists)
           t == <<STACK_PAGE>>
<1>1. N \in Nat /\ DOMAIN image = 1 .. N /\ \A i \in 1 .. N : Segment(image[i])
  BY Zenon, Segments
<1>2. /\ lists \in Seq(Seq(Nat)) /\ Len(lists) = N /\ e \in Seq(Nat)
      /\ ExitPages(p) = t \o e
  BY Zenon, ExitPagesType
<1>3. \A i \in 1 .. N : IsInjective(C(i)) /\ Range(C(i)) = CodePages(image[i])
  BY <1>1, CodeRangeType DEF CodePages
<1>4. FullList(image, q)
  BY Zenon, FullPages
<1>5. /\ \A i \in 1 .. Len(q) : MappedIn(uses, mem, p, q[i])
      /\ Distinct(q)
  BY DEF Done, Distinct
<1>6. /\ \A i \in 1 .. N : STACK_PAGE \notin SegmentPages(image[i])
      /\ \A i, j \in 1 .. N : i < j => SegmentPages(image[i]) \cap SegmentPages(image[j]) = {}
      /\ \A i \in 1 .. N : \A x \in 1 .. Len(load_segment(image[i])) :
           \E k \in 1 .. Len(q) : q[k] = load_segment(image[i])[x]
      /\ \E k \in 1 .. Len(q) : q[k][1] = STACK_PAGE
  BY <1>4, <1>5, Zenon DEF FullList
<1> HIDE DEF N, q, C, lists, e, t
<1>7. \A i \in 1 .. N : lists[i] = C(i)
  BY Zenon, <1>1 DEF lists
<1>8. \A i \in 1 .. N : CodePages(image[i]) \subseteq SegmentPages(image[i])
  BY DEF SegmentPages
<1>9. IsInjective(e)
  <2>1. \A i \in 1 .. Len(lists) : IsInjective(lists[i])
    BY Zenon, <1>2, <1>3, <1>7
  <2>2. \A i, j \in 1 .. Len(lists) : i < j => Range(lists[i]) \cap Range(lists[j]) = {}
    <3>1. ASSUME NEW i \in 1 .. N, NEW j \in 1 .. N, i < j
          PROVE  Range(lists[i]) \cap Range(lists[j]) = {}
      <4>1. Range(lists[i]) = CodePages(image[i]) /\ Range(lists[j]) = CodePages(image[j])
        BY Zenon, <1>3, <1>7
      <4>2. SegmentPages(image[i]) \cap SegmentPages(image[j]) = {}
        BY Zenon, <1>6, <3>1
      <4> QED BY Zenon, <1>8, <4>1, <4>2
    <3> QED BY Zenon, <1>2, <3>1
  <2> QED BY Zenon, <1>2, <2>1, <2>2, FlattenInjective DEF e
<1>10. Range(e) = UNION {CodePages(image[i]) : i \in 1 .. N}
  <2>1. Range(e) = UNION {Range(lists[i]) : i \in 1 .. Len(lists)}
    BY Zenon, <1>2, FlattenRange DEF e
  <2> QED BY Zenon, <1>2, <1>3, <1>7, <2>1
<1>11. t \in Seq(Nat) /\ IsInjective(t) /\ Range(t) = {STACK_PAGE}
  BY LoaderAssumption DEF t, IsInjective, Range
<1>12. Range(t) \cap Range(e) = {}
  BY SMTT(30), <1>6, <1>8, <1>10, <1>11
<1>13. JoinedWell(Nat, t, e)
  BY Zenon, <1>2, <1>9, <1>11, <1>12, JoinsWell
<1>14. /\ IsInjective(ExitPages(p))
       /\ Range(ExitPages(p)) = {STACK_PAGE} \cup UNION {CodePages(image[i]) : i \in 1 .. N}
  BY Zenon, <1>2, <1>10, <1>11, <1>13 DEF JoinedWell
<1>15. \A i \in 1 .. Len(q) : Using(<<p, "page", q[i][1]>>) # {}
  BY Zenon, <1>5 DEF MappedIn, Using
<1>16. ASSUME NEW page \in Range(ExitPages(p)) PROVE \E k \in 1 .. Len(q) : q[k][1] = page
  <2>1. CASE page = STACK_PAGE
    BY Zenon, <1>6, <2>1
  <2>2. CASE page # STACK_PAGE
    <3>1. PICK i \in 1 .. N : page \in CodePages(image[i])
      BY Zenon, <1>14, <2>2
    <3> DEFINE l == load_segment(image[i])
    <3>2. SegmentList(image[i], l)
      BY Zenon, <1>1, SegmentLists
    <3>3. PICK x \in 1 .. Len(l) : l[x][1] = page
      BY Zenon, <3>1, <3>2 DEF SegmentList
    <3>4. PICK k \in 1 .. Len(q) : q[k] = l[x]
      BY ZenonT(30), <1>6
    <3> QED BY Zenon, <3>3, <3>4
  <2> QED BY Zenon, <2>1, <2>2
<1>17. \A page \in Range(ExitPages(p)) : Using(<<p, "page", page>>) # {}
  BY <1>15, <1>16, Zenon
<1> QED BY Zenon, <1>14, <1>17 DEF N

(* What the process keeps of its frames. *)
LEMMA ExitReturns ==
  ASSUME FrameInv, ProcInv, NEW p \in Proc, exit(p)
  PROVE  Returned(uses', p, code[p].image)
<1> DEFINE image == code[p].image
           q == Full(image)
           pages == ExitPages(p)
           un == unmap_range(p, pages)
           n == Len(pages)
           fr == Freed(p)
<1>1. /\ code[p].status = "loaded"
      /\ uses' = [f \in Frame |-> IF f \in Range(fr) THEN {u \in uses[f] : u[1] # p} ELSE uses[f]]
  BY Zenon, ExitIs
<1>2. image \in Image
  BY ZenonT(30), <1>1 DEF FrameInv, Shape
<1>3. KindsOf(uses, p) /\ OneFrameOf(uses, p) /\ Done(uses, mem, p, q, Len(q))
  BY <1>1 DEF ProcInv, ProcState
<1>4. pages \in Seq(Nat) /\ n \in Nat /\ DOMAIN pages = 1 .. n
  <2>1. pages \in Seq(Nat) /\ n \in Nat
    BY Zenon, <1>2, ExitPagesType
  <2> HIDE DEF pages
  <2> QED BY <2>1
<1>5. /\ IsInjective(pages)
      /\ \A page \in Range(pages) : Using(<<p, "page", page>>) # {}
      /\ STACK_PAGE \in Range(pages)
      /\ \A i \in 1 .. Len(image) : CodePages(image[i]) \subseteq Range(pages)
  BY Zenon, <1>2, <1>3, ExitPagesMapped
<1>6. IsUnmapped(p, pages, un)
  BY Zenon, <1>4, UnmapRange
<1>7. fr = FreedOf(p, un, n)
  BY DEF Freed
<1>8. FullList(image, q) /\ DOMAIN image = 1 .. Len(image)
  BY Zenon, <1>2, FullPages, Segments
<1> HIDE DEF image, q, pages, un, n, fr
<1>9. Len(un) = n
  <2>1. \A i \in 1 .. n : Using(<<p, "page", pages[i]>>) # {}
    BY Zenon, <1>4, <1>5 DEF Range
  <2>2. \A i \in 1 .. n : \A j \in 1 .. i - 1 : pages[j] # pages[i]
    <3>1. ASSUME NEW i \in 1 .. n, NEW j \in 1 .. i - 1, pages[j] = pages[i] PROVE FALSE
      <4>1. j \in 1 .. n /\ j # i
        BY ONLY <1>4, <3>1
      <4> QED BY Zenon, <1>4, <1>5, <3>1, <4>1 DEF IsInjective
    <3> QED BY <3>1
  <2>3. \/ Len(un) = Len(pages)
        \/ \E i \in 1 .. Len(pages) : \/ Using(<<p, "page", pages[i]>>) = {}
                                      \/ \E j \in 1 .. i - 1 : pages[j] = pages[i]
    BY Zenon, <1>6 DEF IsUnmapped
  <2> QED BY <2>1, <2>2, <2>3, Zenon DEF n
<1>10. Range(fr) = Range(un) \cup (IF LeftOf(p, un) = {} THEN Using(<<p, "table">>) ELSE {})
                     \cup Using(<<p, "root">>)
  BY Zenon, <1>6, <1>7, <1>9, FreedFrames
<1>11. /\ un \in Seq(Frame) /\ DOMAIN un = 1 .. n
       /\ \A i \in 1 .. n : <<p, "page", pages[i]>> \in uses[un[i]]
  BY SMTT(30), <1>6, <1>9 DEF IsUnmapped
<1>12. ASSUME NEW f \in Frame, NEW u \in uses[f], u[1] = p, u[2] = "page", f \notin Range(un)
       PROVE  u[3] \in Extra(image) /\ u = <<p, "page", u[3]>>
  <2>1. u = <<p, "page", u[3]>>
    <3>1. u = <<p, "root">> \/ u = <<p, "table">> \/ u = <<p, "page", u[3]>>
      BY Zenon, <1>3, <1>12 DEF KindsOf
    <3>2. u # <<p, "root">> /\ u # <<p, "table">>
      BY <1>12
    <3> QED BY Zenon, <3>1, <3>2
  <2>2. u[3] \notin Range(pages)
    <3> SUFFICES ASSUME u[3] \in Range(pages) PROVE FALSE
      OBVIOUS
    <3>1. PICK i \in 1 .. n : u[3] = pages[i]
      BY <1>4 DEF Range
    <3>2. u \in uses[un[i]] /\ un[i] \in Frame /\ un[i] \in Range(un)
      <4>1. u \in uses[un[i]]
        BY Zenon, <1>11, <2>1, <3>1
      <4>2. i \in DOMAIN un
        BY Zenon, <1>11
      <4>3. un[i] \in Frame /\ un[i] \in Range(un)
        <5>1. un[i] \in Range(un)
          BY <4>2, Zenon DEF Range
        <5>2. un[i] \in Frame
          BY <1>9, <1>11
        <5> QED BY <5>1, <5>2
      <4> QED BY Zenon, <4>1, <4>3
    <3>3. f = un[i]
      BY <1>3, <1>12, <3>2, Zenon DEF OneFrameOf
    <3> QED BY Zenon, <1>12, <3>2, <3>3
  <2>3. PICK k \in 1 .. Len(q) : u[3] = q[k][1]
    BY Zenon, <1>3, <1>12 DEF Done
  <2>4. u[3] # STACK_PAGE
    BY Zenon, <1>5, <2>2
  <2>5. PICK i \in 1 .. Len(image) : u[3] \in SegmentPages(image[i])
    BY Zenon, <1>8, <2>3, <2>4 DEF FullList
  <2>6. u[3] \in Unreported(image[i])
    BY Zenon, <1>5, <2>2, <2>5 DEF SegmentPages
  <2>7. image[i] \in Range(image)
    BY Zenon, <1>8 DEF Range
  <2>8. u[3] \in Extra(image)
    BY Zenon, <2>6, <2>7 DEF Extra
  <2> QED BY Zenon, <2>1, <2>8
<1>13. ASSUME NEW f \in Frame, NEW u \in uses'[f], u[1] = p
       PROVE  \/ \E page \in Extra(image) : u = <<p, "page", page>>
              \/ Extra(image) # {} /\ u = <<p, "table">>
  <2>1. f \notin Range(fr) /\ u \in uses[f]
    BY Zenon, <1>1, <1>13
  <2>2. u = <<p, "root">> \/ u = <<p, "table">> \/ u = <<p, "page", u[3]>>
    BY Zenon, <1>3, <1>13, <2>1 DEF KindsOf
  <2>3. CASE u = <<p, "root">>
    BY Zenon, <1>10, <2>1, <2>3 DEF Using
  <2>4. CASE u = <<p, "table">>
    <3>1. LeftOf(p, un) # {}
      BY Zenon, <1>10, <2>1, <2>4 DEF Using
    <3>2. PICK g \in Frame : g \notin Range(un) /\ \E v \in uses[g] : v[1] = p /\ v[2] = "page"
      BY Zenon, <3>1 DEF LeftOf
    <3>3. Extra(image) # {}
      BY Zenon, <1>12, <3>2
    <3> QED BY Zenon, <2>4, <3>3
  <2>5. CASE u = <<p, "page", u[3]>>
    <3>1. u[2] = "page" /\ f \notin Range(un)
      BY SMTT(30), <1>10, <2>1, <2>5
    <3>2. u[3] \in Extra(image)
      BY Zenon, <1>12, <1>13, <2>1, <3>1
    <3> QED BY Zenon, <2>5, <3>2
  <2> QED BY Zenon, <2>2, <2>3, <2>4, <2>5
<1> QED BY <1>13, Zenon DEF Returned, image

(* exit keeps the invariant of processes.                                  *)
LEMMA ExitProcs == ASSUME FrameInv, ProcInv, NEW n \in Proc, exit(n) PROVE ProcInv'
<1> DEFINE G == Range(Freed(n))
<1>1. /\ phase = "run" /\ job = Idle /\ code[n].status = "loaded"
      /\ uses' = [f \in Frame |-> IF f \in G THEN {u \in uses[f] : u[1] # n} ELSE uses[f]]
      /\ code' = [code EXCEPT ![n].status = "exited"]
      /\ phase' = phase /\ mem' = mem /\ job' = job
  BY ExitIs
<1>2. \A f \in Frame : \A u, v \in uses[f] : u = v
  BY DEF FrameInv, OneUse
<1>3. Returned(uses', n, code[n].image)
  BY ExitReturns
<1> HIDE DEF G
<1>4. job.space = "none" /\ "none" \notin Proc
  BY Zenon, <1>1, LoaderAssumption DEF Idle
<1> SUFFICES ASSUME NEW p \in Proc PROVE ProcState(uses', mem', phase', job', code'[p], p)
  BY DEF ProcInv
<1>5. ProcState(uses, mem, phase, job, code[p], p)
  BY DEF ProcInv
<1>6. CASE p # n
  <2>1. Undisturbed(uses, mem, uses', mem', p)
    <3>1. ASSUME NEW f \in Frame
          PROVE  /\ (\E u \in uses[f] : u[1] = p) => uses'[f] = uses[f] /\ mem'[f] = mem[f]
                 /\ \A u \in uses'[f] : u[1] = p => u \in uses[f]
      <4>1. \A u \in uses'[f] : u \in uses[f]
        BY <1>1
      <4>2. ASSUME NEW u \in uses[f], u[1] = p PROVE uses'[f] = uses[f]
        <5>1. \A v \in uses[f] : v[1] # n
          BY Zenon, <1>2, <1>6, <4>2
        <5> QED BY Zenon, <1>1, <5>1
      <4> QED BY Zenon, <1>1, <4>1, <4>2
    <3> QED BY <3>1 DEF Undisturbed
  <2>2. job'.space # p /\ job.space # p /\ phase # "panic"
    BY <1>1, <1>4
  <2>3. ProcState(uses', mem', phase', job', code[p], p)
    BY <1>5, <2>1, <2>2, StateStays, Zenon
  <2>4. code'[p] = code[p]
    BY Zenon, <1>1, <1>6 DEF FrameInv, Shape
  <2> QED BY Zenon, <2>3, <2>4
<1>7. CASE p = n
  <2>1. code'[p].status = "exited" /\ code'[p].image = code[n].image
    BY <1>1, <1>7 DEF FrameInv, Shape
  <2>2. \A f \in Frame : \A u \in uses'[f] : u \in uses[f]
    BY Zenon, <1>1
  <2>3. KindsOf(uses, p) /\ OneFrameOf(uses, p)
    BY <1>5 DEF ProcState
  <2>4. KindsOf(uses', p)
    BY <2>2, <2>3, Zenon DEF KindsOf
  <2>5. OneFrameOf(uses', p)
    BY <2>2, <2>3, Zenon DEF OneFrameOf
  <2>6. job'.space # p
    BY Zenon, <1>1, <1>4
  <2> QED BY Zenon, <1>3, <1>7, <2>1, <2>4, <2>5, <2>6 DEF ProcState
<1> QED BY <1>6, <1>7

(* The invariant of processes holds initially.                             *)
LEMMA ProcsInit == Init => ProcInv
<1> SUFFICES ASSUME Init, NEW p \in Proc PROVE ProcState(uses, mem, phase, job, code[p], p)
  BY Zenon DEF ProcInv
<1>1. /\ uses = [f \in Frame |-> IF f \in Reserved THEN {<<"firmware">>} ELSE {}]
      /\ job = Idle /\ code[p].status = "none"
  BY DEF Init
<1>2. "none" # p /\ "firmware" # p
  BY Zenon, LoaderAssumption
<1>3. Unused(uses, p)
  BY <1>1, <1>2 DEF Unused
<1>4. KindsOf(uses, p) /\ OneFrameOf(uses, p)
  BY Zenon, <1>3 DEF Unused, KindsOf, OneFrameOf
<1>5. job.space # p
  BY Zenon, <1>1, <1>2 DEF Idle
<1> QED BY Zenon, <1>1, <1>3, <1>4, <1>5 DEF ProcState

(* Every step keeps the invariant of processes.                            *)
LEMMA ProcsStep == FrameInv /\ FrameInv' /\ ProcInv /\ [Next]_vars => ProcInv'
<1> SUFFICES ASSUME FrameInv, FrameInv', ProcInv, [Next]_vars PROVE ProcInv'
  OBVIOUS
<1>1. CASE UNCHANGED vars
  <2>1. phase' = phase /\ uses' = uses /\ mem' = mem /\ job' = job /\ code' = code
    BY <1>1 DEF vars, bootVars, allocVars
  <2> QED BY <2>1 DEF ProcInv
<1>2. ASSUME NEW p \in Proc, exit(p) \/ \E image \in Image : spawn(p, image) PROVE ProcInv'
  BY Zenon, <1>2, ExitProcs, SpawnProcs
<1>3. CASE Boots
  BY Zenon, <1>3, BootSteps, BootProcs
<1> QED BY Zenon, <1>1, <1>2, <1>3, MapPageProcs, LoadedProcs DEF Next, Boots

(* Both invariants always hold.                                            *)
LEMMA ProcsInvariant == Spec => [](FrameInv /\ ProcInv)
<1>1. Init => FrameInv /\ ProcInv
  BY Zenon, FramesInit, ProcsInit
<1>2. (FrameInv /\ ProcInv) /\ [Next]_vars => (FrameInv /\ ProcInv)'
  BY FramesStep, ProcsStep
<1> QED BY <1>1, <1>2, PTL DEF Spec

(* ImageReturned holds in every reachable state: when the last process of  *)
(* an address space is gone, clean_up has given back its root, its stack   *)
(* and its image, except the pages past the end that load_segment maps and *)
(* does not report, and the table they are in.                             *)
THEOREM EveryImageReturned == Spec => []ImageReturned
<1>1. ASSUME ProcInv PROVE ImageReturned
  <2> SUFFICES ASSUME NEW p \in Proc, code[p].status = "exited"
               PROVE  LET extra == UNION {Unreported(s) : s \in Range(code[p].image)}
                      IN Owned(p) = (UNION {Using(<<p, "page", page>>) : page \in extra})
                                      \cup IF extra = {} THEN {} ELSE Using(<<p, "table">>)
    BY ZenonT(30) DEF ImageReturned
  <2> DEFINE extra == Extra(code[p].image)
             kept == UNION {Using(<<p, "page", page>>) : page \in extra}
             table == IF extra = {} THEN {} ELSE Using(<<p, "table">>)
  <2>1. \A f \in Frame : \A u \in uses[f] : u[1] = p =>
          \/ \E page \in extra : u = <<p, "page", page>>
          \/ extra # {} /\ u = <<p, "table">>
    BY <1>1 DEF ProcInv, ProcState, Returned
  <2> HIDE DEF extra
  <2>2. Owned(p) \subseteq kept \cup table
    BY <2>1 DEF Owned, Using
  <2>3. kept \cup table \subseteq Owned(p)
    <3>1. \A page : <<p, "page", page>>[1] = p
      OBVIOUS
    <3>2. <<p, "table">>[1] = p
      BY Zenon
    <3> QED BY Zenon, <3>1, <3>2 DEF Owned, Using
  <2>4. Owned(p) = kept \cup table
    BY <2>2, <2>3
  <2> QED BY <2>4, Zenon DEF extra, Extra
<1> QED BY <1>1, ProcsInvariant, PTL

(* ImageLoaded holds in every reachable state: for as long as a process    *)
(* lives, each byte of each of its segments is the byte of the file it was *)
(* loaded from, or zero past the end of the file, whatever the frames held *)
(* before and whatever is spawned, exits or fails in the meantime.         *)
THEOREM EveryImageLoaded == Spec => []ImageLoaded
<1>1. ASSUME FrameInv, ProcInv PROVE ImageLoaded
  <2> SUFFICES ASSUME NEW p \in Proc, code[p].status = "loaded",
                      NEW s \in Range(code[p].image), NEW b \in 0 .. mem_size(s) - 1
               PROVE  Byte(p, vaddr(s) + b)
                        = IF b < file_size(s) THEN <<"file", offset(s) + b>> ELSE <<"zero">>
    BY DEF ImageLoaded
  <2> DEFINE image == code[p].image
             q == Full(image)
             addr == vaddr(s) + b
             page == addr \div PAGE
             use == <<p, "page", page>>
             l == load_segment(s)
  <2>1. image \in Image
    BY ZenonT(30), <1>1 DEF FrameInv, Shape
  <2>2. OneFrameOf(uses, p) /\ Done(uses, mem, p, q, Len(q))
    BY SMTT(30), <1>1 DEF ProcInv, ProcState
  <2>3. FullList(image, q) /\ DOMAIN image = 1 .. Len(image) /\ \A i \in 1 .. Len(image) : Segment(image[i])
    BY ZenonT(30), <2>1, FullPages, Segments
  <2>4. PICK i \in 1 .. Len(image) : s = image[i]
    BY Zenon, <2>3 DEF Range
  <2>5. PICK x \in 1 .. Len(l) : l[x][1] = page /\ At(l[x][2], addr % PAGE) = Expected(s, b)
    BY Zenon, <2>3, <2>4, SegmentByte
  <2>6. PICK k \in 1 .. Len(q) : q[k] = l[x]
    BY Zenon, <2>3, <2>4 DEF FullList
  <2> HIDE DEF image, q, addr, page, l
  <2>7. PICK f \in Frame : use \in uses[f] /\ mem[f] = q[k][2]
    <3>1. MappedIn(uses, mem, p, q[k])
      BY Zenon, <2>2 DEF Done
    <3>2. q[k][1] = page
      BY Zenon, <2>5, <2>6
    <3> QED BY Zenon, <3>1, <3>2 DEF MappedIn
  <2>8. use[1] = p /\ use[2] = "page"
    OBVIOUS
  <2> HIDE DEF use
  <2>9. \A g \in Using(use) : g = f
    BY <2>2, <2>7, <2>8, Zenon DEF Using, OneFrameOf
  <2>10. (CHOOSE g \in Using(use) : TRUE) = f
    <3> DEFINE P(g) == g \in Using(use) /\ TRUE
    <3>1. \E g : P(g)
      BY <2>7 DEF Using
    <3>2. P(CHOOSE g : P(g))
      <4> HIDE DEF P
      <4> QED BY <3>1, Zenon
    <3>3. (CHOOSE g \in Using(use) : TRUE) = (CHOOSE g : P(g))
      BY Zenon
    <3> QED BY Zenon, <2>9, <3>2, <3>3
  <2>11. Byte(p, addr) = At(mem[f], addr % PAGE)
    <3> DEFINE ff == CHOOSE g \in Using(<<p, "page", addr \div PAGE>>) : TRUE
    <3>1. ff = f
      BY Zenon, <2>10 DEF use, page
    <3>2. Byte(p, addr) = At(mem[ff], addr % PAGE)
      BY DEF Byte, At
    <3> HIDE DEF ff
    <3> QED BY <3>1, <3>2, Zenon
  <2>12. mem[f] = l[x][2]
    BY <2>6, <2>7
  <2>13. Byte(p, addr) = Expected(s, b)
    BY <2>5, <2>11, <2>12, Zenon
  <2> QED BY <2>13, Zenon DEF Expected, addr
<1> QED BY <1>1, ProcsInvariant, PTL
=============================================================================
