---------------------------- MODULE LoaderFrames ----------------------------
(***************************************************************************)
(* For memory of any size, any files, images and number of processes: no   *)
(* frame has two uses, from the boot loader on, and what the allocators    *)
(* hand out has none.                                                      *)
(***************************************************************************)
EXTENDS Loader, SequenceTheorems, FiniteSetTheorems, WellFoundedInduction, TLAPS

-----------------------------------------------------------------------------
(* Numbers.                                                                *)

(* A set of naturals has a least member. *)
LEMMA LeastNatural ==
  ASSUME NEW T \in SUBSET Nat, T # {}
  PROVE  \E x \in T : \A y \in T : x <= y
<1>1. PICK x \in T : \A y \in T : ~(<<y, x>> \in OpToRel(<, Nat))
  BY WFMin, NatLessThanWellFounded, Zenon
<1>2. ASSUME NEW y \in T PROVE x <= y
  <2>1. <<y, x>> \in Nat \X Nat /\ ~(<<y, x>> \in OpToRel(<, Nat))
    BY Zenon, <1>1
  <2> QED
    BY <2>1 DEF OpToRel
<1> QED
  BY <1>2

(* Min finds it. *)
LEMMA MinIsLeast ==
  ASSUME NEW T \in SUBSET Nat, T # {}
  PROVE  Min(T) \in T /\ \A y \in T : Min(T) <= y
<1> DEFINE P(x) == x \in T /\ \A y \in T : x <= y
<1>1. \E x : P(x)
  BY LeastNatural
<1>2. Min(T) = CHOOSE x : P(x)
  BY Zenon DEF Min
<1> HIDE DEF P
<1>3. P(CHOOSE x : P(x))
  BY <1>1, Zenon
<1> QED BY <1>2, <1>3 DEF P

(* Max finds the greatest of a set of numbers up to n. *)
LEMMA MaxIsGreatest ==
  ASSUME NEW n \in Nat, NEW T \in SUBSET (0 .. n), T # {}
  PROVE  Max(T) \in T /\ \A y \in T : Max(T) >= y
<1> DEFINE P(x) == x \in T /\ \A y \in T : x >= y
           U == {n - x : x \in T}
<1>0. ASSUME NEW x \in T PROVE n - x \in U /\ n - x \in Nat /\ x \in Nat
  OBVIOUS
<1>1. PICK u \in U : \A y \in U : u <= y
  <2>1. U \subseteq Nat /\ U # {}
    BY Zenon, <1>0
  <2> QED BY Zenon, <2>1, LeastNatural
<1>2. PICK x \in T : u = n - x
  BY <1>1
<1>3. P(x)
  <2>1. ASSUME NEW y \in T PROVE x >= y
    <3>1. n - x <= n - y
      BY Zenon, <1>0, <1>1, <1>2
    <3> QED BY <3>1, <1>0
  <2> QED BY <2>1
<1>4. Max(T) = CHOOSE z : P(z)
  BY Zenon DEF Max
<1> HIDE DEF P
<1>5. P(CHOOSE z : P(z))
  BY <1>3, Zenon
<1> QED BY <1>4, <1>5 DEF P

-----------------------------------------------------------------------------
(* The list of free frames.                                                *)

(* The elements of two sequences, one after the other. *)
LEMMA Joined ==
  ASSUME NEW S, NEW s \in Seq(S), NEW t \in Seq(S)
  PROVE  /\ s \o t \in Seq(S) /\ Len(s \o t) = Len(s) + Len(t)
         /\ Len(s) \in Nat /\ Len(t) \in Nat
         /\ \A i \in 1 .. Len(s) : (s \o t)[i] = s[i]
         /\ \A i \in Len(s) + 1 .. Len(s) + Len(t) : (s \o t)[i] = t[i - Len(s)]
<1>1. Len(s) \in Nat /\ Len(t) \in Nat
  OBVIOUS
<1>2. /\ s \o t \in Seq(S) /\ Len(s \o t) = Len(s) + Len(t)
      /\ \A i \in 1 .. Len(s) + Len(t) :
           (s \o t)[i] = IF i <= Len(s) THEN s[i] ELSE t[i - Len(s)]
  BY Zenon, ConcatProperties
<1> QED BY ONLY <1>1, <1>2

(* A part of a sequence. *)
LEMMA Sliced ==
  ASSUME NEW S, NEW s \in Seq(S), NEW m \in Nat, NEW n \in Nat,
         1 <= m, m <= n + 1, n <= Len(s)
  PROVE  /\ SubSeq(s, m, n) \in Seq(S) /\ Len(SubSeq(s, m, n)) = n - m + 1
         /\ \A i \in 1 .. n - m + 1 : SubSeq(s, m, n)[i] = s[m + i - 1]
<1>1. m \in Int /\ n \in Int /\ Len(s) \in Nat
  OBVIOUS
<1>2. \A i \in m .. n : s[i] \in S
  BY <1>1
<1>3. /\ SubSeq(s, m, n) \in Seq(S)
      /\ Len(SubSeq(s, m, n)) = IF m <= n THEN n - m + 1 ELSE 0
      /\ \A i \in 1 .. n - m + 1 : SubSeq(s, m, n)[i] = s[m + i - 1]
  BY ONLY <1>1, <1>2, SubSeqProperties
<1> QED BY ONLY <1>1, <1>3, m <= n + 1

Stacked(r, f) == [i \in 1 .. Len(r) |-> r[Len(r) + 1 - i]] \o f

(* The elements of the list. *)
LEMMA StackedIs ==
  ASSUME NEW S, NEW r \in Seq(S), NEW f \in Seq(S)
  PROVE  /\ Stacked(r, f) \in Seq(S)
         /\ Len(Stacked(r, f)) = Len(r) + Len(f)
         /\ \A i \in 1 .. Len(r) : Stacked(r, f)[i] = r[Len(r) + 1 - i]
         /\ \A i \in Len(r) + 1 .. Len(r) + Len(f) : Stacked(r, f)[i] = f[i - Len(r)]
<1> DEFINE t == [i \in 1 .. Len(r) |-> r[Len(r) + 1 - i]]
<1>1. Len(r) \in Nat /\ Len(f) \in Nat
  OBVIOUS
<1>2. \A i \in 1 .. Len(r) : Len(r) + 1 - i \in 1 .. Len(r)
  BY <1>1
<1>3. \A i \in 1 .. Len(r) : r[Len(r) + 1 - i] \in S
  BY <1>2
<1>4. t \in Seq(S) /\ Len(t) = Len(r)
  BY <1>1, <1>3
<1>5. \A i \in 1 .. Len(r) : t[i] = r[Len(r) + 1 - i]
  OBVIOUS
<1> HIDE DEF t
<1>6. Stacked(r, f) = t \o f
  BY DEF Stacked, t
<1>7. /\ t \o f \in Seq(S) /\ Len(t \o f) = Len(t) + Len(f)
      /\ \A i \in 1 .. Len(t) : (t \o f)[i] = t[i]
      /\ \A i \in Len(t) + 1 .. Len(t) + Len(f) : (t \o f)[i] = f[i - Len(t)]
  BY Zenon, <1>4, Joined
<1> QED BY ONLY <1>1, <1>4, <1>5, <1>6, <1>7

(* Of n elements a are on the one list, which keeps the others. *)
Again(r, n, a) == a \in Nat /\ ((n <= Len(r) /\ a = n) \/ (Len(r) < n /\ a = Len(r)))
Kept(r, a) == SubSeq(r, 1, Len(r) - a)
Rest(f, n, a) == SubSeq(f, n - a + 1, Len(f))

Shifted(S, r, f, n, a) ==
  /\ Kept(r, a) \in Seq(S) /\ Rest(f, n, a) \in Seq(S) /\ Len(Kept(r, a)) = Len(r) - a
  /\ Len(Stacked(Kept(r, a), Rest(f, n, a))) = Len(r) + Len(f) - n
  /\ \A i \in 1 .. Len(r) + Len(f) - n :
        Stacked(Kept(r, a), Rest(f, n, a))[i] = Stacked(r, f)[i + n]

(* What is left of the list when n elements are taken from its front. *)
LEMMA Taken ==
  ASSUME NEW S, NEW r \in Seq(S), NEW f \in Seq(S), NEW n \in Nat, n <= Len(r) + Len(f),
         NEW a, Again(r, n, a)
  PROVE  Shifted(S, r, f, n, a)
<1> DEFINE r1 == Kept(r, a)
           f1 == Rest(f, n, a)
<1>0. a \in Nat /\ ((n <= Len(r) /\ a = n) \/ (Len(r) < n /\ a = Len(r)))
  BY DEF Again
<1>1. /\ Len(r) \in Nat /\ Len(f) \in Nat /\ Len(r) - a \in Nat /\ n - a + 1 \in Nat
      /\ 1 <= n - a + 1 /\ n - a + 1 <= Len(f) + 1 /\ 1 <= (Len(r) - a) + 1
      /\ Len(r) - a <= Len(r)
  <2>1. Len(r) \in Nat /\ Len(f) \in Nat
    OBVIOUS
  <2> QED BY ONLY <2>1, <1>0, n \in Nat, <1>0,
                  n <= Len(r) + Len(f)
<1>2. /\ r1 \in Seq(S) /\ Len(r1) = Len(r) - a - 1 + 1
      /\ \A i \in 1 .. Len(r) - a - 1 + 1 : r1[i] = r[1 + i - 1]
  BY ONLY <1>1, Sliced, <1>0, r \in Seq(S), n \in Nat DEF Kept
<1>3. /\ f1 \in Seq(S) /\ Len(f1) = Len(f) - (n - a + 1) + 1
      /\ \A i \in 1 .. Len(f) - (n - a + 1) + 1 : f1[i] = f[(n - a + 1) + i - 1]
  BY ONLY <1>1, Sliced, <1>0, f \in Seq(S), n \in Nat DEF Rest
<1> HIDE DEF r1, f1
<1>4. /\ Len(r1) = Len(r) - a /\ \A i \in 1 .. Len(r) - a : r1[i] = r[i]
      /\ Len(f1) = Len(f) - (n - a)
      /\ \A i \in 1 .. Len(f) - (n - a) : f1[i] = f[i + (n - a)]
  <2>1. Len(r1) = Len(r) - a /\ Len(f1) = Len(f) - (n - a)
    BY ONLY <1>1, <1>2, <1>3, <1>0, n \in Nat
  <2>2. ASSUME NEW i \in 1 .. Len(r) - a PROVE r1[i] = r[i]
    <3>1. i \in 1 .. Len(r) - a - 1 + 1 /\ 1 + i - 1 = i
      BY ONLY <1>1, <2>2, <1>0
    <3>2. r1[i] = r[1 + i - 1]
      BY ONLY <1>2, <3>1
    <3> QED BY ONLY <3>1, <3>2
  <2>3. ASSUME NEW i \in 1 .. Len(f) - (n - a) PROVE f1[i] = f[i + (n - a)]
    <3>1. i \in 1 .. Len(f) - (n - a + 1) + 1 /\ (n - a + 1) + i - 1 = i + (n - a)
      BY ONLY <1>1, <2>3, <1>0, n \in Nat
    <3>2. f1[i] = f[(n - a + 1) + i - 1]
      BY ONLY <1>3, <3>1
    <3> QED BY ONLY <3>1, <3>2
  <2> QED BY ONLY <2>1, <2>2, <2>3
<1>4a. Len(r1) = Len(r) - a /\ Len(f1) = Len(f) - (n - a)
  BY <1>4
<1> DEFINE p == Stacked(r, f)
           q == Stacked(r1, f1)
<1>5. /\ \A j \in 1 .. Len(r) : p[j] = r[Len(r) + 1 - j]
      /\ \A j \in Len(r) + 1 .. Len(r) + Len(f) : p[j] = f[j - Len(r)]
  BY Zenon, StackedIs
<1>6. /\ Len(q) = Len(r1) + Len(f1)
      /\ \A j \in 1 .. Len(r1) : q[j] = r1[Len(r1) + 1 - j]
      /\ \A j \in Len(r1) + 1 .. Len(r1) + Len(f1) : q[j] = f1[j - Len(r1)]
  <2>1. r1 \in Seq(S) /\ f1 \in Seq(S)
    BY <1>2, <1>3
  <2> QED BY ONLY Zenon, <2>1, StackedIs
<1>7. Len(q) = Len(r) + Len(f) - n
  BY ONLY <1>1, <1>4, <1>6, <1>0, n \in Nat
<1> HIDE DEF p, q
<1>8. ASSUME NEW i \in 1 .. Len(r) + Len(f) - n PROVE q[i] = p[i + n]
  <2>1. CASE n <= Len(r) /\ i <= Len(r1)
    <3>0. a = n /\ i \in Nat /\ 1 <= i /\ i <= Len(r) - n /\ Len(r1) = Len(r) - n
      BY ONLY <1>1, <1>4a, <2>1, <1>0,
              i \in 1 .. Len(r) + Len(f) - n, n \in Nat, <1>0
    <3>1. /\ i \in 1 .. Len(r1) /\ Len(r1) + 1 - i \in 1 .. Len(r) - a
          /\ Len(r1) + 1 - i = Len(r) + 1 - (i + n) /\ i + n \in 1 .. Len(r)
      BY ONLY <1>1, <3>0, n \in Nat
    <3> QED BY ONLY Zenon, <3>1, <1>4, <1>5, <1>6
  <2>2. CASE ~(n <= Len(r) /\ i <= Len(r1))
    <3>0. i > Len(r) - a
      BY ONLY <1>1, <1>4, <2>2, <1>0,
              i \in 1 .. Len(r) + Len(f) - n, n \in Nat, <1>0
    <3>1. /\ i \in Len(r1) + 1 .. Len(r1) + Len(f1)
          /\ i - Len(r1) \in 1 .. Len(f) - (n - a)
          /\ (i - Len(r1)) + (n - a) = (i + n) - Len(r)
          /\ i + n \in Len(r) + 1 .. Len(r) + Len(f)
      BY ONLY <1>1, <1>4, <3>0, <1>0,
              i \in 1 .. Len(r) + Len(f) - n, n \in Nat, <1>0
    <3>2. q[i] = f1[i - Len(r1)] /\ f1[i - Len(r1)] = f[(i - Len(r1)) + (n - a)]
      BY ONLY Zenon, <3>1, <1>4, <1>6
    <3>3. p[i + n] = f[(i + n) - Len(r)]
      BY ONLY <3>1, <1>5
    <3> QED BY ONLY <3>1, <3>2, <3>3
  <2> QED BY ONLY <2>1, <2>2
<1> QED BY <1>2, <1>3, <1>4, <1>7, <1>8 DEF p, q, r1, f1, Shifted

(* Frames are taken from the front of the list, last recycled first. *)
LEMMA Granting ==
  ASSUME NEW S, recycled \in Seq(S), frames \in Seq(S), used \in Int,
         NEW n \in Nat, n <= Len(Pool), allocate_frame(n)
  PROVE  /\ recycled' \in Seq(S) /\ frames' \in Seq(S) /\ used' \in Int
         /\ Len(Pool') = Len(Pool) - n
         /\ \A i \in 1 .. Len(Pool') : Pool'[i] = Pool[i + n]
         /\ frames_in_use' = frames_in_use + n
<1> DEFINE again == Min({n, Len(recycled)})
<1>1. /\ Len(recycled) \in Nat /\ Len(frames) \in Nat
      /\ Pool = Stacked(recycled, frames) /\ Pool' = Stacked(recycled', frames')
      /\ Len(Pool) = Len(recycled) + Len(frames)
  BY StackedIs DEF Pool, Stacked
<1>2. Again(recycled, n, again)
  <2>1. again \in {n, Len(recycled)} /\ again <= n /\ again <= Len(recycled)
    BY Zenon, <1>1, MinIsLeast
  <2> QED BY <1>1, <2>1 DEF Again
<1>3. /\ recycled' = SubSeq(recycled, 1, Len(recycled) - again)
      /\ frames' = SubSeq(frames, n - again + 1, Len(frames))
      /\ used' = used + n - again
  BY DEF allocate_frame
<1> HIDE DEF again
<1>4. /\ recycled' \in Seq(S) /\ frames' \in Seq(S) /\ Len(recycled') = Len(recycled) - again
      /\ Len(Pool') = Len(Pool) - n
      /\ \A i \in 1 .. Len(Pool) - n : Pool'[i] = Pool[i + n]
  <2>1. n <= Len(recycled) + Len(frames)
    BY <1>1
  <2>2. Shifted(S, recycled, frames, n, again)
    BY <1>2, <2>1, Taken, Zenon
  <2>3. Kept(recycled, again) = recycled' /\ Rest(frames, n, again) = frames'
    BY Zenon, <1>3 DEF Kept, Rest
  <2>4. Len(recycled) + Len(frames) - n = Len(Pool) - n
    BY <1>1
  <2>5. /\ recycled' \in Seq(S) /\ frames' \in Seq(S) /\ Len(recycled') = Len(recycled) - again
        /\ Len(Pool') = Len(recycled) + Len(frames) - n
        /\ \A i \in 1 .. Len(recycled) + Len(frames) - n : Pool'[i] = Pool[i + n]
    <3> HIDE DEF again
    <3> QED BY ONLY <1>1, <2>2, <2>3 DEF Shifted
  <2> QED BY ONLY <2>4, <2>5
<1>5. used' \in Int /\ frames_in_use' = frames_in_use + n
  <2>1. /\ Len(recycled') = Len(recycled) - again /\ again \in Nat
    BY <1>2, <1>4 DEF Again
  <2> QED BY ONLY <1>1, <2>1, <1>3, used \in Int, n \in Nat DEF frames_in_use
<1> QED BY <1>4, <1>5

(* The rest of an injective list is injective, and none of what was taken  *)
(* is in it.                                                               *)
LEMMA Leftover ==
  ASSUME NEW S, NEW s \in Seq(S), NEW t \in Seq(S), IsInjective(s), NEW n \in Nat,
         n <= Len(s), Len(t) = Len(s) - n, \A i \in 1 .. Len(t) : t[i] = s[i + n]
  PROVE  /\ IsInjective(t) /\ Range(t) \subseteq Range(s)
         /\ \A i \in 1 .. n : s[i] \in Range(s) /\ s[i] \notin Range(t)
<1>1. /\ Len(s) \in Nat /\ Len(t) \in Nat /\ DOMAIN s = 1 .. Len(s) /\ DOMAIN t = 1 .. Len(t)
      /\ \A i, j \in 1 .. Len(s) : s[i] = s[j] => i = j
  BY DEF IsInjective
<1>2. \A i \in 1 .. Len(t) : i + n \in 1 .. Len(s) /\ i + n > n
  BY ONLY <1>1, Len(t) = Len(s) - n, n \in Nat
<1>3. ASSUME NEW i \in 1 .. Len(t), NEW j \in 1 .. Len(t), t[i] = t[j] PROVE i = j
  <2>1. i + n = j + n
    BY <1>1, <1>2, <1>3
  <2> QED BY <2>1, <1>1
<1>4. ASSUME NEW i \in 1 .. n PROVE s[i] \in Range(s) /\ s[i] \notin Range(t)
  <2>1. i \in 1 .. Len(s)
    BY <1>1
  <2>2. ASSUME NEW j \in 1 .. Len(t), s[i] = t[j] PROVE FALSE
    <3>1. i = j + n
      BY <1>1, <1>2, <2>1, <2>2
    <3> QED BY <3>1, <1>2, <1>4
  <2> QED BY Zenon, <1>1, <2>1, <2>2 DEF Range
<1>5. Range(t) \subseteq Range(s)
  BY SMTT(30), <1>1, <1>2 DEF Range
<1> QED BY Zenon, <1>1, <1>3, <1>4, <1>5 DEF IsInjective

(* Two injective sequences with nothing in common make an injective one.   *)
LEMMA JoinedInjective ==
  ASSUME NEW S, NEW s \in Seq(S), NEW t \in Seq(S), IsInjective(s), IsInjective(t),
         Range(s) \cap Range(t) = {}
  PROVE  IsInjective(s \o t) /\ Range(s \o t) = Range(s) \cup Range(t)
<1> DEFINE q == s \o t
<1>1. /\ q \in Seq(S) /\ Len(q) = Len(s) + Len(t)
      /\ Len(s) \in Nat /\ Len(t) \in Nat
      /\ \A i \in 1 .. Len(s) : q[i] = s[i]
      /\ \A i \in Len(s) + 1 .. Len(s) + Len(t) : q[i] = t[i - Len(s)]
  BY Joined, Zenon
<1>2. /\ DOMAIN s = 1 .. Len(s) /\ DOMAIN t = 1 .. Len(t) /\ DOMAIN q = 1 .. Len(q)
      /\ \A i, j \in 1 .. Len(s) : s[i] = s[j] => i = j
      /\ \A i, j \in 1 .. Len(t) : t[i] = t[j] => i = j
      /\ \A i \in 1 .. Len(s), j \in 1 .. Len(t) : s[i] # t[j]
  <2> HIDE DEF q
  <2>1. DOMAIN s = 1 .. Len(s) /\ DOMAIN t = 1 .. Len(t) /\ DOMAIN q = 1 .. Len(q)
    BY <1>1
  <2>2. \A i \in DOMAIN s, j \in DOMAIN t : s[i] # t[j]
    BY Zenon DEF Range
  <2> QED BY <2>1, <2>2 DEF IsInjective
<1> HIDE DEF q
<1>3. ASSUME NEW i \in 1 .. Len(q), NEW j \in 1 .. Len(q), q[i] = q[j] PROVE i = j
  <2>1. \A k \in 1 .. Len(q) : k \in 1 .. Len(s) \/ (k \in Len(s) + 1 .. Len(s) + Len(t) /\ k - Len(s) \in 1 .. Len(t))
    BY ONLY <1>1
  <2>2. CASE i \in 1 .. Len(s) /\ j \in 1 .. Len(s)
    BY ONLY <1>1, <1>2, <1>3, <2>2
  <2>3. CASE i \notin 1 .. Len(s) /\ j \notin 1 .. Len(s)
    <3>1. i - Len(s) = j - Len(s)
      BY ONLY SMTT(30), <1>1, <1>2, <1>3, <2>1, <2>3
    <3> QED BY ONLY <1>1, <3>1, i \in 1 .. Len(q), j \in 1 .. Len(q)
  <2>4. CASE i \in 1 .. Len(s) /\ j \notin 1 .. Len(s)
    BY ONLY <1>1, <1>2, <1>3, <2>1, <2>4
  <2>5. CASE i \notin 1 .. Len(s) /\ j \in 1 .. Len(s)
    BY ONLY <1>1, <1>2, <1>3, <2>1, <2>5
  <2> QED BY <2>2, <2>3, <2>4, <2>5
<1>4. Range(q) = Range(s) \cup Range(t)
  BY RangeConcatenation DEF q
<1> QED BY <1>2, <1>3, <1>4 DEF IsInjective, q

(* An injective sequence has as many elements as it is long. *)
LEMMA CountInjective ==
  ASSUME NEW S, NEW s \in Seq(S), IsInjective(s)
  PROVE  IsFiniteSet(Range(s)) /\ Cardinality(Range(s)) = Len(s)
<1>1. /\ Len(s) \in Nat /\ s \in [1 .. Len(s) -> Range(s)]
      /\ \A t \in Range(s) : \E i \in 1 .. Len(s) : s[i] = t
  BY DEF Range
<1>2. s \in Bijection(1 .. Len(s), Range(s))
  BY <1>1 DEF Bijection, Injection, Surjection
<1>3. IsFiniteSet(1 .. Len(s)) /\ Cardinality(1 .. Len(s)) = Len(s)
  <2>1. 1 \in Int /\ Len(s) \in Int
    BY <1>1
  <2>2. /\ IsFiniteSet(1 .. Len(s))
        /\ Cardinality(1 .. Len(s)) = IF 1 > Len(s) THEN 0 ELSE Len(s) - 1 + 1
    BY <2>1, FS_Interval, Zenon
  <2> QED BY <2>2, <1>1
<1>4. ExistsBijection(1 .. Len(s), Range(s))
  BY <1>2, Zenon DEF ExistsBijection
<1>5. IsFiniteSet(Range(s)) /\ Cardinality(Range(s)) = Cardinality(1 .. Len(s))
  BY <1>3, <1>4, FS_Bijection, Zenon
<1> QED BY <1>3, <1>5

-----------------------------------------------------------------------------
(* Frames in ascending order.                                              *)

(* The frames are finite in number. *)
LEMMA FinitelyMany ==
  ASSUME NEW T \in SUBSET Frame
  PROVE  T \subseteq Nat /\ IsFiniteSet(T) /\ Cardinality(T) \in Nat
<1>1. FRAMES \in Nat /\ FRAMES - 1 \in Int /\ 0 \in Int
  BY LoaderAssumption
<1>2. IsFiniteSet(0 .. FRAMES - 1)
  BY <1>1, FS_Interval, Zenon
<1>3. IsFiniteSet(T)
  BY <1>2, FS_Subset, Zenon DEF Frame
<1> QED BY <1>1, <1>3, FS_CardinalityType DEF Frame

Below(T, f) == {g \in T : g < f}
Rank(T, f) == Cardinality(Below(T, f))

(* A frame has as many before it as its place says, and no other has as    *)
(* many.                                                                   *)
LEMMA Ranks ==
  ASSUME NEW T \in SUBSET Frame
  PROVE  /\ \A f \in T : Rank(T, f) \in 0 .. Cardinality(T) - 1
         /\ \A f, g \in T : Rank(T, f) = Rank(T, g) => f = g
<1>1. ASSUME NEW U \in SUBSET T, NEW x \in T, x \notin U
      PROVE  /\ Cardinality(U \cup {x}) = Cardinality(U) + 1
             /\ Cardinality(U) \in Nat /\ IsFiniteSet(U \cup {x})
  <2>1. IsFiniteSet(U) /\ Cardinality(U) \in Nat
    BY FinitelyMany
  <2> QED BY <1>1, <2>1, FS_AddElement
<1>2. ASSUME NEW f \in T, NEW W \in SUBSET T, Below(T, f) \subseteq W, f \in W
      PROVE  Rank(T, f) < Cardinality(W) /\ Rank(T, f) \in Nat
  <2>1. Below(T, f) \in SUBSET T /\ f \notin Below(T, f)
    BY FinitelyMany DEF Below
  <2>2. Cardinality(Below(T, f) \cup {f}) = Rank(T, f) + 1 /\ Rank(T, f) \in Nat
    BY <1>1, <2>1 DEF Rank
  <2>3. IsFiniteSet(W) /\ Cardinality(W) \in Nat
    BY FinitelyMany
  <2>4. Cardinality(Below(T, f) \cup {f}) <= Cardinality(W)
    <3>1. Below(T, f) \cup {f} \in SUBSET W
      BY <1>2
    <3> QED BY <3>1, <2>3, FS_Subset, Zenon
  <2> QED BY <2>2, <2>3, <2>4
<1>3. ASSUME NEW f \in T PROVE Rank(T, f) \in 0 .. Cardinality(T) - 1
  <2>1. Below(T, f) \subseteq T /\ T \in SUBSET T
    BY DEF Below
  <2>2. Rank(T, f) < Cardinality(T) /\ Rank(T, f) \in Nat
    BY <1>2, <2>1
  <2> QED BY <2>2, FinitelyMany
<1>4. ASSUME NEW f \in T, NEW g \in T, f < g PROVE Rank(T, f) < Rank(T, g)
  <2>1. Below(T, f) \subseteq Below(T, g) /\ f \in Below(T, g) /\ Below(T, g) \in SUBSET T
    BY <1>4, FinitelyMany DEF Below
  <2> QED BY <1>2, <2>1 DEF Rank
<1>5. ASSUME NEW f \in T, NEW g \in T, Rank(T, f) = Rank(T, g) PROVE f = g
  <2>1. f \in Nat /\ g \in Nat
    BY FinitelyMany
  <2>2. Rank(T, f) \in Nat /\ Rank(T, g) \in Nat
    BY <1>3
  <2>3. ~(f < g) /\ ~(g < f)
    BY <1>4, <1>5, <2>2
  <2> QED BY <2>1, <2>3
<1> QED BY <1>3, <1>5

(* Every place is taken: there are as many places as frames. *)
LEMMA EveryRank ==
  ASSUME NEW T \in SUBSET Frame, NEW k \in 0 .. Cardinality(T) - 1
  PROVE  \E f \in T : Rank(T, f) = k
<1> DEFINE U == 0 .. Cardinality(T) - 1
           r == [f \in T |-> Rank(T, f)]
<1>1. Cardinality(T) \in Nat /\ IsFiniteSet(T)
  BY FinitelyMany
<1>2. IsFiniteSet(U) /\ Cardinality(U) = Cardinality(T)
  <2>1. 0 \in Int /\ Cardinality(T) - 1 \in Int
    BY <1>1
  <2>2. /\ IsFiniteSet(U)
        /\ Cardinality(U) = IF 0 > Cardinality(T) - 1 THEN 0 ELSE (Cardinality(T) - 1) - 0 + 1
    BY <2>1, FS_Interval, Zenon
  <2> QED BY <2>2, <1>1
<1>3. r \in Injection(T, U)
  BY Ranks DEF Injection, IsInjective
<1> HIDE DEF r
<1>4. Cardinality(T) = Cardinality(U) <=> r \in Surjection(T, U)
  BY <1>2, <1>3, FS_Injection, Zenon
<1>5. \E f \in T : r[f] = k
  BY <1>2, <1>4 DEF Surjection
<1> QED BY <1>5 DEF r

(* Ascending lists every frame of a set once. *)
LEMMA AscendingLists ==
  ASSUME NEW T \in SUBSET Frame
  PROVE  Ascending(T) \in Seq(Frame) /\ IsInjective(Ascending(T)) /\ Range(Ascending(T)) = T
<1> DEFINE N == Cardinality(T)
           P(f, i) == Rank(T, f) = i - 1
           s == [i \in 1 .. N |-> CHOOSE f \in T : P(f, i)]
<1>1. N \in Nat
  BY FinitelyMany
<1>2. Ascending(T) = s
  BY Zenon DEF Ascending, Rank, Below
<1>3. ASSUME NEW i \in 1 .. N PROVE s[i] \in T /\ Rank(T, s[i]) = i - 1
  <2>1. i - 1 \in 0 .. Cardinality(T) - 1
    BY <1>1
  <2>2. \E f \in T : P(f, i)
    BY <2>1, EveryRank, Zenon
  <2>3. s[i] = CHOOSE f \in T : P(f, i)
    OBVIOUS
  <2> HIDE DEF P, s
  <2>4. (CHOOSE f \in T : P(f, i)) \in T /\ P(CHOOSE f \in T : P(f, i), i)
    BY <2>2, Zenon
  <2> QED BY <2>3, <2>4, Zenon DEF P
<1>4. s \in Seq(Frame) /\ DOMAIN s = 1 .. N
  <2>1. \A i \in 1 .. N : s[i] \in Frame
    BY <1>3
  <2> QED BY <2>1, <1>1
<1> HIDE DEF s
<1>5. ASSUME NEW i \in 1 .. N, NEW j \in 1 .. N, s[i] = s[j] PROVE i = j
  <2>1. i - 1 = j - 1
    BY <1>3, <1>5
  <2> QED BY <2>1, <1>1
<1>6. ASSUME NEW f \in T PROVE \E i \in 1 .. N : s[i] = f
  <2>1. Rank(T, f) \in 0 .. N - 1
    BY Ranks
  <2>2. Rank(T, f) + 1 \in 1 .. N /\ (Rank(T, f) + 1) - 1 = Rank(T, f)
    BY <2>1, <1>1
  <2>3. s[Rank(T, f) + 1] \in T /\ Rank(T, s[Rank(T, f) + 1]) = Rank(T, f)
    BY <1>3, <2>2
  <2>4. s[Rank(T, f) + 1] = f
    <3>1. \A g, h \in T : Rank(T, g) = Rank(T, h) => g = h
      BY Ranks
    <3> QED BY ONLY <2>3, <3>1, f \in T
  <2> QED BY <2>2, <2>4
<1>7. Range(s) = T
  <2>1. Range(s) \subseteq T
    BY <1>3, <1>4, Zenon DEF Range
  <2>2. T \subseteq Range(s)
    BY <1>6, <1>4, Zenon DEF Range
  <2> QED BY <2>1, <2>2
<1> QED BY <1>2, <1>4, <1>5, <1>7 DEF IsInjective

-----------------------------------------------------------------------------
(* Lists of lists.                                                         *)

(* What makes a function the beginnings of the flattened list. *)
Upto(g, lists, m) ==
  g = [n \in 0 .. m |-> IF n = 0 THEN <<>> ELSE g[n - 1] \o lists[n]]

(* There is one, by induction over the number of lists. *)
LEMMA PrefixExists ==
  ASSUME NEW lists, NEW n \in Nat
  PROVE  \E g : Upto(g, lists, n)
<1> DEFINE T == {m \in Nat : ~\E g : Upto(g, lists, m)}
<1>1. SUFFICES ASSUME T # {} PROVE FALSE
  OBVIOUS
<1>2. PICK m \in T : \A y \in T : m <= y
  BY Zenon, <1>1, LeastNatural
<1>3. CASE m = 0
  <2> DEFINE g == [k \in 0 .. 0 |-> <<>>]
  <2>1. g = [k \in 0 .. 0 |-> IF k = 0 THEN <<>> ELSE g[k - 1] \o lists[k]]
    OBVIOUS
  <2> QED BY Zenon, <1>2, <1>3, <2>1 DEF Upto
<1>4. CASE m # 0
  <2>1. m - 1 \in Nat /\ m - 1 \notin T
    BY <1>2, <1>4
  <2>2. PICK g : Upto(g, lists, m - 1)
    BY <2>1
  <2> DEFINE J(a, b) == a \o b
             h == [k \in 0 .. m |-> IF k = m THEN J(g[m - 1], lists[m]) ELSE g[k]]
  <2>3. \A k \in 0 .. m - 1 : g[k] = IF k = 0 THEN <<>> ELSE J(g[k - 1], lists[k])
    BY <2>2, <1>2 DEF Upto
  <2>4. h = [k \in 0 .. m |-> IF k = 0 THEN <<>> ELSE J(h[k - 1], lists[k])]
    <3> HIDE DEF J
    <3> QED BY <2>3, <1>2, <1>4
  <2> QED BY Zenon, <2>4, <1>2 DEF Upto
<1> QED BY <1>3, <1>4

(* Flatten is the last of them. *)
LEMMA FlattenIs ==
  ASSUME NEW lists, Len(lists) \in Nat
  PROVE  \E g : Upto(g, lists, Len(lists)) /\ Flatten(lists) = g[Len(lists)]
<1> DEFINE C(g) == Upto(g, lists, Len(lists))
<1>1. \E g : C(g)
  BY PrefixExists
<1>2. Flatten(lists) = (CHOOSE g : C(g))[Len(lists)]
  BY Zenon DEF Flatten, Upto
<1> HIDE DEF C
<1>3. C(CHOOSE g : C(g))
  BY <1>1, Zenon
<1> QED BY <1>2, <1>3, Zenon DEF C

(* The place of each list in the flattened one: list i begins after off[i] *)
(* elements, the lists do not overlap, and there is nothing else.          *)
Layout(S, lists, off, m, q) ==
  /\ q \in Seq(S)
  /\ \A i \in 1 .. m : off[i] \in Nat /\ off[i] + Len(lists[i]) <= Len(q)
  /\ \A i \in 1 .. m : \A k \in 1 .. Len(lists[i]) : q[off[i] + k] = lists[i][k]
  /\ \A i, j \in 1 .. m : i < j => off[i] + Len(lists[i]) <= off[j]
  /\ \A x \in 1 .. Len(q) :
       \E i \in 1 .. m : \E k \in 1 .. Len(lists[i]) : x = off[i] + k

(* One more list. *)
LEMMA LayoutGrows ==
  ASSUME NEW S, NEW lists, NEW m \in Nat, NEW off, NEW q, Layout(S, lists, off, m, q),
         lists[m + 1] \in Seq(S), \A i \in 1 .. m : Len(lists[i]) \in Nat
  PROVE  \E o : Layout(S, lists, o, m + 1, q \o lists[m + 1])
<1> DEFINE o == [i \in 1 .. m + 1 |-> IF i = m + 1 THEN Len(q) ELSE off[i]]
           t == lists[m + 1]
           r == q \o t
<1>1. q \in Seq(S) /\ t \in Seq(S)
  BY DEF Layout
<1>2. /\ r \in Seq(S) /\ Len(r) = Len(q) + Len(t)
      /\ Len(q) \in Nat /\ Len(t) \in Nat
      /\ \A i \in 1 .. Len(q) : r[i] = q[i]
      /\ \A i \in Len(q) + 1 .. Len(q) + Len(t) : r[i] = t[i - Len(q)]
  BY <1>1, Joined, Zenon
<1>3. /\ \A i \in 1 .. m : o[i] = off[i] /\ i \in 1 .. m + 1 /\ i < m + 1
      /\ o[m + 1] = Len(q)
      /\ \A i \in 1 .. m + 1 : i = m + 1 \/ i \in 1 .. m
  OBVIOUS
<1> HIDE DEF o, r
<1>4. ASSUME NEW i \in 1 .. m + 1 PROVE o[i] \in Nat /\ o[i] + Len(lists[i]) <= Len(r)
  <2>1. CASE i \in 1 .. m
    <3>1. off[i] \in Nat /\ off[i] + Len(lists[i]) <= Len(q) /\ o[i] = off[i] /\ Len(lists[i]) \in Nat
      BY <1>3, <2>1 DEF Layout
    <3> QED BY ONLY <3>1, <1>2
  <2>2. CASE i = m + 1
    BY <1>2, <1>3, <2>2
  <2> QED BY <1>3, <2>1, <2>2
<1>5. ASSUME NEW i \in 1 .. m + 1, NEW k \in 1 .. Len(lists[i]) PROVE r[o[i] + k] = lists[i][k]
  <2>1. CASE i \in 1 .. m
    <3>1. /\ off[i] \in Nat /\ off[i] + Len(lists[i]) <= Len(q) /\ o[i] = off[i]
          /\ Len(lists[i]) \in Nat /\ q[off[i] + k] = lists[i][k]
      BY <1>3, <2>1 DEF Layout
    <3>2. off[i] + k \in 1 .. Len(q)
      BY ONLY SMTT(30), <3>1, <1>2, k \in 1 .. Len(lists[i])
    <3> QED BY ONLY <3>1, <3>2, <1>2
  <2>2. CASE i = m + 1
    <3>1. o[i] = Len(q) /\ k \in 1 .. Len(t) /\ lists[i] = t
      BY <1>3, <2>2
    <3>2. Len(q) + k \in Len(q) + 1 .. Len(q) + Len(t) /\ (Len(q) + k) - Len(q) = k
      BY ONLY <3>1, <1>2
    <3>3. r[Len(q) + k] = t[(Len(q) + k) - Len(q)]
      BY ONLY <3>2, <1>2
    <3> QED BY ONLY <3>1, <3>2, <3>3
  <2> QED BY <1>3, <2>1, <2>2
<1>6. ASSUME NEW i \in 1 .. m + 1, NEW j \in 1 .. m + 1, i < j
      PROVE  o[i] + Len(lists[i]) <= o[j]
  <2>1. i \in 1 .. m
    BY <1>6
  <2>2. CASE j \in 1 .. m
    BY <1>3, <1>6, <2>1, <2>2 DEF Layout
  <2>3. CASE j = m + 1
    BY <1>3, <2>1, <2>3 DEF Layout
  <2> QED BY <1>3, <2>2, <2>3
<1>7. ASSUME NEW x \in 1 .. Len(r)
      PROVE  \E i \in 1 .. m + 1 : \E k \in 1 .. Len(lists[i]) : x = o[i] + k
  <2>1. CASE x \in 1 .. Len(q)
    <3>1. PICK i \in 1 .. m : \E k \in 1 .. Len(lists[i]) : x = off[i] + k
      BY <2>1 DEF Layout
    <3> QED BY <3>1, <1>3
  <2>2. CASE x \notin 1 .. Len(q)
    <3>1. x - Len(q) \in 1 .. Len(t) /\ x = Len(q) + (x - Len(q)) /\ m + 1 \in 1 .. m + 1
      BY ONLY <1>2, <2>2, x \in 1 .. Len(r), m \in Nat
    <3>2. x - Len(q) \in 1 .. Len(lists[m + 1]) /\ x = o[m + 1] + (x - Len(q))
      BY <3>1, <1>3
    <3> QED BY Zenon, <3>1, <3>2
  <2> QED BY <2>1, <2>2
<1>8. Layout(S, lists, o, m + 1, r)
  BY <1>2, <1>4, <1>5, <1>6, <1>7, Zenon DEF Layout
<1> QED BY <1>8 DEF r

(* Where the elements of a flattened list come from. *)
LEMMA FlattenLayout ==
  ASSUME NEW S, NEW lists \in Seq(Seq(S))
  PROVE  \E off : Layout(S, lists, off, Len(lists), Flatten(lists))
<1>1. Len(lists) \in Nat /\ \A i \in 1 .. Len(lists) : lists[i] \in Seq(S) /\ Len(lists[i]) \in Nat
  OBVIOUS
<1>2. PICK g : Upto(g, lists, Len(lists)) /\ Flatten(lists) = g[Len(lists)]
  BY <1>1, FlattenIs
<1> DEFINE N == Len(lists)
           Good(m) == \E off : Layout(S, lists, off, m, g[m])
           T == {m \in Nat : m <= N /\ ~Good(m)}
<1>3. g[0] = <<>> /\ \A m \in 0 .. N - 1 : g[m + 1] = g[m] \o lists[m + 1]
  <2> DEFINE J(a, b) == a \o b
  <2>1. g = [n \in 0 .. N |-> IF n = 0 THEN <<>> ELSE J(g[n - 1], lists[n])]
    BY <1>2 DEF Upto
  <2> HIDE DEF J
  <2>2. g[0] = <<>> /\ \A m \in 0 .. N - 1 : g[m + 1] = J(g[m], lists[m + 1])
    BY ONLY <2>1, <1>1
  <2> QED BY Zenon, <2>2 DEF J
<1>4. Good(0)
  <2>1. Layout(S, lists, <<>>, 0, <<>>)
    BY DEF Layout
  <2> QED BY Zenon, <2>1, <1>3
<1>5. ASSUME NEW m \in Nat, m < N, Good(m) PROVE Good(m + 1)
  <2>1. PICK off : Layout(S, lists, off, m, g[m])
    BY <1>5
  <2>2. m + 1 \in 1 .. N /\ m \in 0 .. N - 1 /\ \A i \in 1 .. m : i \in 1 .. N
    BY <1>1, <1>5
  <2>3. g[m + 1] = g[m] \o lists[m + 1] /\ lists[m + 1] \in Seq(S)
    BY ONLY Zenon, <1>1, <1>3, <2>2
  <2>4. \A i \in 1 .. m : Len(lists[i]) \in Nat
    BY ONLY <1>1, <2>2
  <2>5. \E o : Layout(S, lists, o, m + 1, g[m] \o lists[m + 1])
    BY Zenon, <2>1, <2>3, <2>4, LayoutGrows
  <2> QED BY Zenon, <2>3, <2>5
<1> HIDE DEF Good
<1>6. T = {}
  <2>1. SUFFICES ASSUME T # {} PROVE FALSE
    OBVIOUS
  <2>2. PICK m \in T : \A y \in T : m <= y
    <3>1. T \in SUBSET Nat
      OBVIOUS
    <3> QED BY Zenon, <2>1, <3>1, LeastNatural
  <2>3. m # 0
    BY <1>4
  <2>4. m - 1 \in Nat /\ m - 1 < N /\ m - 1 \notin T /\ (m - 1) + 1 = m
    BY <1>1, <2>2, <2>3
  <2>5. Good(m - 1)
    BY <2>4, <1>1
  <2>6. Good(m)
    BY <1>5, <2>4, <2>5
  <2> QED BY <2>6
<1>7. Good(N)
  BY <1>1, <1>6
<1> QED BY Zenon, <1>2, <1>7 DEF Good

(* A flattened list has no repetition if its lists have none and have      *)
(* nothing in common.                                                      *)
LEMMA FlattenInjective ==
  ASSUME NEW S, NEW lists \in Seq(Seq(S)),
         \A i \in 1 .. Len(lists) : IsInjective(lists[i]),
         \A i, j \in 1 .. Len(lists) : i < j => Range(lists[i]) \cap Range(lists[j]) = {}
  PROVE  IsInjective(Flatten(lists))
<1> DEFINE q == Flatten(lists)
           N == Len(lists)
<1>1. PICK off : Layout(S, lists, off, N, q)
  BY FlattenLayout
<1>2. /\ N \in Nat
      /\ \A i \in 1 .. N : lists[i] \in Seq(S) /\ Len(lists[i]) \in Nat
                           /\ DOMAIN lists[i] = 1 .. Len(lists[i])
  OBVIOUS
<1> HIDE DEF q
<1>3. SUFFICES ASSUME NEW x \in 1 .. Len(q), NEW y \in 1 .. Len(q), q[x] = q[y] PROVE x = y
  <2>1. q \in Seq(S)
    BY <1>1 DEF Layout
  <2>2. DOMAIN q = 1 .. Len(q)
    BY <2>1
  <2> QED BY <2>2 DEF IsInjective, q
<1>4a. PICK i \in 1 .. N : \E k \in 1 .. Len(lists[i]) : x = off[i] + k
  BY Zenon, <1>1 DEF Layout
<1>4. PICK k \in 1 .. Len(lists[i]) : x = off[i] + k
  BY <1>4a
<1>5a. PICK j \in 1 .. N : \E l \in 1 .. Len(lists[j]) : y = off[j] + l
  BY Zenon, <1>1 DEF Layout
<1>5. PICK l \in 1 .. Len(lists[j]) : y = off[j] + l
  BY <1>5a
<1>6. lists[i][k] = lists[j][l]
  BY Zenon, <1>1, <1>3, <1>4, <1>5 DEF Layout
<1>7. ~(i < j) /\ ~(j < i)
  <2>1. lists[i][k] \in Range(lists[i]) /\ lists[j][l] \in Range(lists[j])
    BY <1>2, <1>4, <1>5, Zenon DEF Range
  <2> QED BY ONLY Zenon, <1>4, <1>5, <1>6, <2>1,
                  \A a, b \in 1 .. N : a < b => Range(lists[a]) \cap Range(lists[b]) = {}
<1>8. i = j
  BY ONLY <1>2, <1>4, <1>5, <1>7
<1>9. k = l
  <2>1. IsInjective(lists[i]) /\ k \in DOMAIN lists[i] /\ l \in DOMAIN lists[i]
    BY <1>2, <1>4, <1>5, <1>8
  <2> QED BY <2>1, <1>6, <1>8, Zenon DEF IsInjective
<1> QED BY <1>4, <1>5, <1>8, <1>9

(* And the other way round: when the elements are told apart by their      *)
(* first component, different lists have none in common.                   *)
Distinct(q) == \A x, y \in 1 .. Len(q) : q[x][1] = q[y][1] => x = y

(* Lists whose concatenation is Distinct share no first component.         *)
LEMMA FlattenParts ==
  ASSUME NEW S, NEW lists \in Seq(Seq(S)), Distinct(Flatten(lists)),
         NEW i \in 1 .. Len(lists), NEW j \in 1 .. Len(lists), i < j,
         NEW k \in 1 .. Len(lists[i]), NEW l \in 1 .. Len(lists[j])
  PROVE  lists[i][k][1] # lists[j][l][1]
<1> DEFINE q == Flatten(lists)
<1>1. PICK off : Layout(S, lists, off, Len(lists), q)
  BY FlattenLayout
<1>2. Len(lists[i]) \in Nat /\ Len(lists[j]) \in Nat
  OBVIOUS
<1> HIDE DEF q
<1>3. /\ off[i] \in Nat /\ off[j] \in Nat /\ off[i] + Len(lists[i]) <= off[j]
      /\ off[j] + Len(lists[j]) <= Len(q) /\ off[i] + Len(lists[i]) <= Len(q)
      /\ q[off[i] + k] = lists[i][k] /\ q[off[j] + l] = lists[j][l] /\ q \in Seq(S)
  BY Zenon, <1>1 DEF Layout
<1>4. Len(q) \in Nat
  BY <1>3
<1>5. /\ off[i] + k \in 1 .. Len(q) /\ off[j] + l \in 1 .. Len(q)
      /\ off[i] + k # off[j] + l
  <2>1. /\ off[i] \in Nat /\ off[j] \in Nat /\ off[i] + Len(lists[i]) <= off[j]
        /\ off[j] + Len(lists[j]) <= Len(q) /\ off[i] + Len(lists[i]) <= Len(q)
    BY <1>3
  <2>2. k \in Nat /\ 1 <= k /\ k <= Len(lists[i]) /\ l \in Nat /\ 1 <= l /\ l <= Len(lists[j])
    BY <1>2
  <2>3. off[i] + k \in 1 .. Len(q)
    <3>1. off[i] \in Nat /\ off[i] + Len(lists[i]) <= Len(q)
      BY <2>1
    <3> QED BY ONLY SMTT(30), <1>2, <1>4, <3>1, <2>2
  <2>4. off[j] + l \in 1 .. Len(q)
    BY ONLY SMTT(30), <1>2, <1>4, <2>1, <2>2
  <2>5. off[i] + k < off[j] + l
    BY ONLY SMTT(30), <1>2, <1>4, <2>1, <2>2
  <2> QED BY ONLY <2>3, <2>4, <2>5
<1>6. \A x, y \in 1 .. Len(q) : q[x][1] = q[y][1] => x = y
  BY DEF q, Distinct
<1> QED BY ONLY Zenon, <1>3, <1>5, <1>6

(* The elements of a flattened list. *)
LEMMA FlattenRange ==
  ASSUME NEW S, NEW lists \in Seq(Seq(S))
  PROVE  /\ Flatten(lists) \in Seq(S)
         /\ Range(Flatten(lists)) = UNION {Range(lists[i]) : i \in 1 .. Len(lists)}
<1> DEFINE q == Flatten(lists)
           N == Len(lists)
<1>1. PICK off : Layout(S, lists, off, N, q)
  BY FlattenLayout
<1>2. /\ N \in Nat
      /\ \A i \in 1 .. N : lists[i] \in Seq(S) /\ Len(lists[i]) \in Nat
                           /\ DOMAIN lists[i] = 1 .. Len(lists[i])
  OBVIOUS
<1> HIDE DEF q
<1>3. q \in Seq(S)
  BY <1>1 DEF Layout
<1>4. DOMAIN q = 1 .. Len(q) /\ Len(q) \in Nat
  BY <1>3
<1>5. ASSUME NEW x \in 1 .. Len(q)
      PROVE  \E i \in 1 .. N : \E k \in 1 .. Len(lists[i]) : q[x] = lists[i][k]
  <2>1. PICK i \in 1 .. N : \E k \in 1 .. Len(lists[i]) : x = off[i] + k
    BY <1>1 DEF Layout
  <2>2. PICK k \in 1 .. Len(lists[i]) : x = off[i] + k
    BY <2>1
  <2>3. q[off[i] + k] = lists[i][k]
    BY <1>1 DEF Layout
  <2> QED BY ONLY Zenon, <2>2, <2>3
<1>6. ASSUME NEW i \in 1 .. N, NEW k \in 1 .. Len(lists[i])
      PROVE  off[i] + k \in 1 .. Len(q) /\ q[off[i] + k] = lists[i][k]
  <2>1. /\ off[i] \in Nat /\ off[i] + Len(lists[i]) <= Len(q)
        /\ q[off[i] + k] = lists[i][k]
    BY Zenon, <1>1 DEF Layout
  <2> QED BY <2>1, <1>2, <1>4
<1>7. Range(q) = UNION {Range(lists[i]) : i \in 1 .. N}
  <2>1. Range(q) \subseteq UNION {Range(lists[i]) : i \in 1 .. N}
    <3>1. ASSUME NEW x \in 1 .. Len(q) PROVE \E i \in 1 .. N : q[x] \in Range(lists[i])
      <4>1. PICK i \in 1 .. N : \E k \in 1 .. Len(lists[i]) : q[x] = lists[i][k]
        BY <1>5
      <4>2. DOMAIN lists[i] = 1 .. Len(lists[i])
        BY <1>2
      <4> QED BY <4>1, <4>2, Zenon DEF Range
    <3>2. \A z \in Range(q) : \E x \in 1 .. Len(q) : z = q[x]
      BY <1>4, Zenon DEF Range
    <3> QED BY <3>1, <3>2
  <2>2. UNION {Range(lists[i]) : i \in 1 .. N} \subseteq Range(q)
    <3>1. ASSUME NEW i \in 1 .. N, NEW z \in Range(lists[i]) PROVE z \in Range(q)
      <4>1. PICK k \in 1 .. Len(lists[i]) : z = lists[i][k]
        BY <1>2, <3>1, Zenon DEF Range
      <4> QED BY <4>1, <1>4, <1>6, Zenon DEF Range
    <3> QED BY <3>1
  <2> QED BY <2>1, <2>2
<1> QED BY <1>3, <1>7 DEF q

-----------------------------------------------------------------------------
(* The invariant of the frames.                                            *)

InUse == {f \in Conventional : uses[f] # {}}

Shape ==
  /\ phase \in {"config", "kernel", "apps", "memory", "map", "exit", "init", "run", "panic"}
  /\ DOMAIN mem = Frame
  /\ frames \in Seq(Frame) /\ recycled \in Seq(Frame) /\ used \in Int
  /\ code \in [Proc -> [status : {"none", "loaded", "exited"}, image : Image \cup {<<>>}]]
  /\ \A p \in Proc : code[p].status # "none" => code[p].image \in Image

KernelJob == job = [space |-> "kernel", todo |-> job.todo]
ProcJob ==
  /\ job.space \in Proc
  /\ job = [space |-> job.space, image |-> job.image, todo |-> job.todo]
  /\ job.image \in Image
Jobs ==
  /\ phase = "map" => KernelJob
  /\ phase = "run" => job = Idle \/ KernelJob \/ ProcJob
  /\ phase \notin {"map", "run"} => job = Idle

OneUse == \A f \in Frame : \A u, v \in uses[f] : u = v

(* From load_elf to free_elf the file of the kernel is in adjacent frames, *)
(* as many as free_elf gives back.                                         *)
ElfInMemory ==
  /\ phase \in {"config", "kernel"} => Using(<<"elf">>) = {}
  /\ phase \in {"apps", "memory", "map"} =>
       \E e \in Frame : Using(<<"elf">>) = e .. e + LoadPages(FileSize(KernelImage)) - 1

InBoot ==
  phase \notin {"run", "panic"} =>
    /\ \A f \in Conventional : uses[f] = {}
    /\ \A p \in Proc : Owned(p) = {}

AtRun ==
  phase = "run" =>
    /\ IsInjective(Pool)
    /\ Range(Pool) \subseteq Conventional \ InUse
    /\ frames_in_use = Cardinality(InUse)
    /\ \A p \in Proc : Owned(p) \subseteq InUse

FrameInv == Shape /\ Jobs /\ OneUse /\ ElfInMemory /\ InBoot /\ AtRun

(* The pool is a list of frames. *)
LEMMA PoolType ==
  ASSUME Shape
  PROVE  Pool \in Seq(Frame) /\ Len(Pool) \in Nat /\ DOMAIN Pool = 1 .. Len(Pool)
         /\ Pool = Stacked(recycled, frames) /\ Len(Pool) = Len(recycled) + Len(frames)
<1>1. Pool = Stacked(recycled, frames) /\ recycled \in Seq(Frame) /\ frames \in Seq(Frame)
  BY Zenon DEF Pool, Stacked, Shape
<1>2. Pool \in Seq(Frame) /\ Len(Pool) = Len(recycled) + Len(frames)
  BY <1>1, StackedIs
<1> QED BY <1>1, <1>2

(* The frames a page is given are free, and different.                     *)
LEMMA GrantedFrames ==
  ASSUME FrameInv, phase \in {"map", "run"}, NEW n \in {1, 2}, Granted(n) # <<>>
  PROVE  /\ DOMAIN Granted(n) = 1 .. n
         /\ \A i \in 1 .. n : Granted(n)[i] \in Conventional /\ uses[Granted(n)[i]] = {}
         /\ \A i, j \in 1 .. n : Granted(n)[i] = Granted(n)[j] => i = j
         /\ phase = "run" => n <= Len(Pool) /\ \A i \in 1 .. n : Granted(n)[i] = Pool[i]
<1>1. CASE phase = "run"
  <2>1. n <= Len(Pool) /\ Granted(n) = SubSeq(Pool, 1, n)
    <3>1. Granted(n) = IF Len(Pool) < n THEN <<>> ELSE SubSeq(Pool, 1, n)
      BY <1>1, Zenon DEF Granted, InKernel
    <3>2. Len(Pool) \in Nat
      BY PoolType DEF FrameInv
    <3> QED BY <3>1, <3>2
  <2>2. Pool \in Seq(Frame) /\ Len(Pool) \in Nat /\ DOMAIN Pool = 1 .. Len(Pool)
    BY PoolType DEF FrameInv
  <2>3. /\ SubSeq(Pool, 1, n) \in Seq(Frame) /\ Len(SubSeq(Pool, 1, n)) = n - 1 + 1
        /\ \A i \in 1 .. n - 1 + 1 : SubSeq(Pool, 1, n)[i] = Pool[1 + i - 1]
    BY ONLY <2>1, <2>2, Sliced, n \in {1, 2}
  <2>4. DOMAIN Granted(n) = 1 .. n /\ \A i \in 1 .. n : Granted(n)[i] = Pool[i]
    <3> DEFINE g == SubSeq(Pool, 1, n)
    <3>1. g = Granted(n)
      BY <2>1
    <3> HIDE DEF g
    <3> QED BY <2>3, <3>1 DEF g
  <2>5. \A i \in 1 .. n : i \in 1 .. Len(Pool)
    BY <2>1, <2>2
  <2>6. /\ IsInjective(Pool) /\ Range(Pool) \subseteq Conventional \ InUse
    BY <1>1 DEF FrameInv, AtRun
  <2>7. \A i \in 1 .. Len(Pool) : Pool[i] \in Conventional \ InUse
    BY <2>2, <2>6, Zenon DEF Range
  <2>8. \A i \in 1 .. Len(Pool) : Pool[i] \in Conventional /\ uses[Pool[i]] = {}
    BY <2>7, Zenon DEF InUse
  <2>9. \A i, j \in 1 .. Len(Pool) : Pool[i] = Pool[j] => i = j
    BY <2>2, <2>6, Zenon DEF IsInjective
  <2> QED BY ONLY Zenon, <2>1, <2>4, <2>5, <2>8, <2>9
<1>2. CASE phase = "map"
  <2>1. Starts(n) # {} /\ Granted(n) = [i \in 1 .. n |-> Min(Starts(n)) + i - 1]
    BY <1>2 DEF Granted, InKernel
  <2>2. Starts(n) \in SUBSET Nat /\ Starts(n) \subseteq Frame
    BY LoaderAssumption DEF Starts, Frame
  <2> DEFINE m == Min(Starts(n))
  <2>3. m \in Starts(n)
    BY <2>1, <2>2, MinIsLeast
  <2> HIDE DEF m
  <2>4. m \in Nat /\ m .. m + n - 1 \subseteq Conventional
    BY <2>2, <2>3 DEF Starts
  <2>5. \A f \in Conventional : uses[f] = {}
    BY <1>2 DEF FrameInv, InBoot
  <2>6. /\ DOMAIN Granted(n) = 1 .. n
        /\ \A i \in 1 .. n : Granted(n)[i] = m + i - 1
    BY <2>1 DEF m
  <2>7. \A i \in 1 .. n : m + i - 1 \in m .. m + n - 1
    BY ONLY <2>4, n \in {1, 2}
  <2>8. \A i, j \in 1 .. n : m + i - 1 = m + j - 1 => i = j
    BY ONLY <2>4, n \in {1, 2}
  <2> QED BY ONLY <1>2, <2>4, <2>5, <2>6, <2>7, <2>8
<1> QED BY <1>1, <1>2

(* A page was mapped: a frame for it, and one for the table if there was   *)
(* none.                                                                   *)
Placed(a, T, space, page, data) ==
  /\ a \in Conventional /\ T \subseteq Conventional /\ a \notin T
  /\ \A f \in T \cup {a} : uses[f] = {}
  /\ T = {} \/ \E b : T = {b}
  /\ \A f \in Frame : uses'[f] = IF f = a THEN {<<space, "page", page>>}
                                 ELSE IF f \in T THEN {<<space, "table">>}
                                 ELSE uses[f]
  /\ mem' = [mem EXCEPT ![a] = data]
  /\ job' = [job EXCEPT !.todo = Tail(@)]
  /\ phase' = phase /\ code' = code
  /\ Using(<<space, "page", page>>) = {}

PlacedInBoot(a, T) ==
  /\ frames' = frames /\ recycled' = recycled /\ used' = used
  /\ Conventional' = Conventional \ (T \cup {a})

PlacedInRun(a, T) ==
  /\ recycled' \in Seq(Frame) /\ frames' \in Seq(Frame) /\ used' \in Int
  /\ Conventional' = Conventional
  /\ IsInjective(Pool')
  /\ Range(Pool') \subseteq Range(Pool) \ (T \cup {a})
  /\ frames_in_use' = frames_in_use + Cardinality(T \cup {a})

(* Taking the first n frames of the pool. *)
LEMMA PoolTaken ==
  ASSUME FrameInv, phase = "run", NEW n \in Nat, n <= Len(Pool), allocate_frame(n)
  PROVE  /\ recycled' \in Seq(Frame) /\ frames' \in Seq(Frame) /\ used' \in Int
         /\ IsInjective(Pool') /\ Range(Pool') \subseteq Range(Pool)
         /\ \A i \in 1 .. n : Pool[i] \in Range(Pool) /\ Pool[i] \notin Range(Pool')
         /\ frames_in_use' = frames_in_use + n
<1>1. /\ recycled \in Seq(Frame) /\ frames \in Seq(Frame) /\ used \in Int
      /\ IsInjective(Pool)
  BY DEF FrameInv, Shape, AtRun
<1>2. /\ recycled' \in Seq(Frame) /\ frames' \in Seq(Frame) /\ used' \in Int
      /\ Len(Pool') = Len(Pool) - n
      /\ \A i \in 1 .. Len(Pool') : Pool'[i] = Pool[i + n]
      /\ frames_in_use' = frames_in_use + n
  BY <1>1, Granting
<1>3. Pool \in Seq(Frame) /\ Pool' \in Seq(Frame)
  <2>1. Pool = Stacked(recycled, frames) /\ Pool' = Stacked(recycled', frames')
    BY Zenon DEF Pool, Stacked
  <2>2. Stacked(recycled, frames) \in Seq(Frame)
    BY <1>1, StackedIs
  <2>3. Stacked(recycled', frames') \in Seq(Frame)
    BY ONLY <1>2, StackedIs
  <2> QED BY <2>1, <2>2, <2>3
<1> DEFINE s == Pool
           t == Pool'
<1>4. /\ s \in Seq(Frame) /\ t \in Seq(Frame) /\ IsInjective(s) /\ n <= Len(s)
      /\ Len(t) = Len(s) - n /\ \A i \in 1 .. Len(t) : t[i] = s[i + n]
  BY <1>1, <1>2, <1>3
<1> HIDE DEF s, t
<1>5. /\ IsInjective(t) /\ Range(t) \subseteq Range(s)
      /\ \A i \in 1 .. n : s[i] \in Range(s) /\ s[i] \notin Range(t)
  BY ONLY Zenon, <1>4, Leftover, n \in Nat
<1> QED BY <1>2, <1>5 DEF s, t

(* map_to, unless it panics, places the page. *)
LEMMA Placing ==
  ASSUME FrameInv, phase \in {"map", "run"}, NEW space, NEW page, NEW data,
         map_to(space, page, data), phase' # "panic"
  PROVE  \E a : \E T : /\ Placed(a, T, space, page, data)
                       /\ phase = "map" => PlacedInBoot(a, T)
                       /\ phase = "run" => PlacedInRun(a, T)
<1> DEFINE n == IF Using(<<space, "table">>) = {} THEN 2 ELSE 1
           fs == Granted(n)
           a == fs[1]
           T == IF n = 2 THEN {fs[2]} ELSE {}
<1>1. /\ ~(Using(<<space, "page", page>>) # {} \/ fs = <<>>)
      /\ uses' = [f \in Frame |->
                     IF f = fs[1] THEN uses[f] \cup {<<space, "page", page>>}
                     ELSE IF f \in Range(fs) THEN uses[f] \cup {<<space, "table">>}
                     ELSE uses[f]]
      /\ mem' = [mem EXCEPT ![fs[1]] = data]
      /\ IF InKernel THEN allocate_frame(n) /\ UNCHANGED map
         ELSE map' = Marked(Range(fs), "LOADER_DATA") /\ UNCHANGED allocVars
      /\ job' = [job EXCEPT !.todo = Tail(@)]
      /\ UNCHANGED <<phase, lines, config, dir, apps, code>>
  BY Zenon DEF map_to, panic
<1>2. n \in {1, 2}
  OBVIOUS
<1> HIDE DEF n
<1>3. /\ DOMAIN fs = 1 .. n
      /\ \A i \in 1 .. n : fs[i] \in Conventional /\ uses[fs[i]] = {}
      /\ \A i, j \in 1 .. n : fs[i] = fs[j] => i = j
      /\ phase = "run" => n <= Len(Pool) /\ \A i \in 1 .. n : fs[i] = Pool[i]
  BY Zenon, <1>1, <1>2, GrantedFrames
<1> HIDE DEF fs
<1>4. /\ a \in Conventional /\ T \subseteq Conventional /\ a \notin T
      /\ \A f \in T \cup {a} : uses[f] = {}
      /\ T = {} \/ \E b : T = {b}
  <2>1. CASE n = 1
    BY <1>3, <2>1
  <2>2. CASE n = 2
    BY <1>3, <2>2
  <2> QED BY <1>2, <2>1, <2>2
<1>5. Range(fs) = T \cup {a}
  <2>1. CASE n = 1
    <3>1. \A i \in 1 .. 1 : i = 1
      OBVIOUS
    <3> QED BY <1>3, <2>1, <3>1 DEF Range
  <2>2. CASE n = 2
    <3>1. (\A i \in 1 .. 2 : i = 1 \/ i = 2) /\ 1 \in 1 .. 2 /\ 2 \in 1 .. 2
      OBVIOUS
    <3> QED BY <1>3, <2>2, <3>1 DEF Range
  <2> QED BY <1>2, <2>1, <2>2
<1> HIDE DEF a, T
<1>6. \A f \in Frame : uses'[f] = IF f = a THEN {<<space, "page", page>>}
                                 ELSE IF f \in T THEN {<<space, "table">>}
                                 ELSE uses[f]
  <2> DEFINE pg == <<space, "page", page>>
             tb == <<space, "table">>
  <2>1. uses' = [f \in Frame |-> IF f = a THEN uses[f] \cup {pg}
                                 ELSE IF f \in T \cup {a} THEN uses[f] \cup {tb}
                                 ELSE uses[f]]
    BY <1>1, <1>5, Zenon DEF a
  <2> HIDE DEF pg, tb
  <2>2. \A f \in Frame : uses'[f] = IF f = a THEN {pg} ELSE IF f \in T THEN {tb} ELSE uses[f]
    BY ONLY <2>1, <1>4
  <2> QED BY <2>2 DEF pg, tb
<1>7. Placed(a, T, space, page, data)
  <2>1. mem' = [mem EXCEPT ![a] = data] /\ phase' = phase /\ code' = code
    BY <1>1 DEF a
  <2>2. job' = [job EXCEPT !.todo = Tail(@)]
    BY <1>1
  <2>3. Using(<<space, "page", page>>) = {}
    BY <1>1, Zenon
  <2> QED BY <1>4, <1>6, <2>1, <2>2, <2>3, Zenon DEF Placed
<1>8. ASSUME phase = "map" PROVE PlacedInBoot(a, T)
  <2>1. map' = Marked(T \cup {a}, "LOADER_DATA") /\ UNCHANGED allocVars
    BY <1>1, <1>5, <1>8 DEF InKernel
  <2>2. Conventional' = Conventional \ (T \cup {a})
    BY <2>1 DEF Conventional, Marked
  <2> QED BY <2>1, <2>2 DEF PlacedInBoot, allocVars
<1>9. ASSUME phase = "run" PROVE PlacedInRun(a, T)
  <2>1. allocate_frame(n) /\ map' = map /\ n \in Nat /\ n <= Len(Pool)
    BY <1>1, <1>2, <1>3, <1>9 DEF InKernel
  <2>2. /\ recycled' \in Seq(Frame) /\ frames' \in Seq(Frame) /\ used' \in Int
        /\ IsInjective(Pool') /\ Range(Pool') \subseteq Range(Pool)
        /\ \A i \in 1 .. n : Pool[i] \in Range(Pool) /\ Pool[i] \notin Range(Pool')
        /\ frames_in_use' = frames_in_use + n
    BY <1>9, <2>1, PoolTaken
  <2>3. \A f \in T \cup {a} : f \notin Range(Pool')
    <3>1. \A i \in 1 .. n : fs[i] \notin Range(Pool')
      BY <1>3, <1>9, <2>2
    <3> QED BY <1>3, <1>5, <3>1 DEF Range
  <2>4. Cardinality(T \cup {a}) = n
    <3>1. IsFiniteSet(T) /\ (n = 1 => Cardinality(T) = 0) /\ (n = 2 => Cardinality(T) = 1)
      <4>1. CASE n = 1
        <5>1. T = {}
          BY <4>1 DEF T
        <5> QED BY <4>1, <5>1, FS_EmptySet
      <4>2. CASE n = 2
        <5>1. T = {fs[2]}
          BY <4>2 DEF T
        <5>2. IsFiniteSet({fs[2]}) /\ Cardinality({fs[2]}) = 1
          BY Zenon, FS_Singleton
        <5> QED BY <4>2, <5>1, <5>2
      <4> QED BY <1>2, <4>1, <4>2
    <3>2. Cardinality(T \cup {a}) = Cardinality(T) + 1
      BY <1>4, <3>1, FS_AddElement
    <3> QED BY <1>2, <3>1, <3>2
  <2>5. Conventional' = Conventional
    BY <2>1 DEF Conventional
  <2> QED BY <2>2, <2>3, <2>4, <2>5 DEF PlacedInRun
<1> QED BY <1>7, <1>8, <1>9, Zenon

(* A frame of the firmware's map that a run of frames was taken from. *)
Filed(run, use) ==
  /\ run \subseteq Conventional
  /\ \A f \in Frame : uses'[f] = IF f \in run THEN {use} ELSE uses[f]
  /\ Conventional' = Conventional \ run

Booting == phase \notin {"run", "panic"}

(* The firmware finds frames nobody uses. *)
LEMMA RunIsFree ==
  ASSUME FrameInv, Booting, NEW n, NEW run \in Runs(n), NEW use,
         map' = Marked(run, "LOADER_DATA"), uses' = Used(run, use)
  PROVE  Filed(run, use) /\ \E e \in Frame : run = e .. e + n - 1
<1>1. PICK e \in Starts(n) : run = e .. e + n - 1
  BY Zenon DEF Runs
<1>2. e \in Frame /\ run \subseteq Conventional
  BY <1>1 DEF Starts
<1>3. \A f \in Conventional : uses[f] = {}
  BY DEF FrameInv, InBoot, Booting
<1>4. \A f \in Frame : uses'[f] = IF f \in run THEN {use} ELSE uses[f]
  BY <1>2, <1>3 DEF Used
<1>5. Conventional' = Conventional \ run
  BY DEF Conventional, Marked
<1> QED BY Zenon, <1>1, <1>2, <1>4, <1>5 DEF Filed

(* What it means for the frames. *)
LEMMA FiledFrames ==
  ASSUME FrameInv, Booting, NEW run, NEW use, Filed(run, use), use[1] \notin Proc
  PROVE  /\ OneUse'
         /\ \A f \in Conventional' : uses'[f] = {}
         /\ \A p \in Proc : Owned(p)' = {}
         /\ use # <<"elf">> => Using(<<"elf">>)' = Using(<<"elf">>)
         /\ use = <<"elf">> /\ Using(<<"elf">>) = {} => Using(<<"elf">>)' = run
<1>1. /\ \A f \in Conventional : f \in Frame /\ uses[f] = {}
      /\ \A p \in Proc : Owned(p) = {}
      /\ \A f \in Frame : \A u, v \in uses[f] : u = v
  BY DEF FrameInv, InBoot, Booting, OneUse, Conventional
<1>2. /\ \A f \in Frame : uses'[f] = IF f \in run THEN {use} ELSE uses[f]
      /\ run \subseteq Conventional /\ Conventional' = Conventional \ run
  BY DEF Filed
<1>3. OneUse'
  BY <1>1, <1>2 DEF OneUse
<1>4. \A f \in Conventional' : uses'[f] = {}
  BY <1>1, <1>2
<1>5. ASSUME NEW p \in Proc PROVE Owned(p)' = {}
  BY <1>1, <1>2 DEF Owned
<1>6. ASSUME use # <<"elf">> PROVE Using(<<"elf">>)' = Using(<<"elf">>)
  <2> DEFINE elf == <<"elf">>
  <2>1. use # elf
    BY <1>6
  <2> HIDE DEF elf
  <2>2. Using(elf)' = Using(elf)
    BY <1>1, <1>2, <2>1 DEF Using
  <2> QED BY <2>2 DEF elf
<1>7. ASSUME use = <<"elf">>, Using(<<"elf">>) = {} PROVE Using(<<"elf">>)' = run
  <2> DEFINE elf == <<"elf">>
  <2>1. use = elf /\ Using(elf) = {}
    BY <1>7
  <2> HIDE DEF elf
  <2>2. Using(elf)' = run
    BY <1>1, <1>2, <2>1 DEF Using
  <2> QED BY <2>2 DEF elf
<1> QED BY <1>3, <1>4, <1>5, <1>6, <1>7

(* After a panic nothing is used any more. *)
LEMMA PanicFrames == ASSUME FrameInv, panic PROVE FrameInv'
<1>1. /\ phase' = "panic" /\ job' = Idle /\ mem' = mem /\ uses' = uses /\ code' = code
      /\ frames' = frames /\ recycled' = recycled /\ used' = used
  BY DEF panic, allocVars
<1>2. Shape'
  BY <1>1 DEF FrameInv, Shape
<1>3. Jobs'
  BY <1>1 DEF Jobs
<1>4. OneUse'
  BY <1>1 DEF FrameInv, OneUse
<1>5. ElfInMemory' /\ InBoot' /\ AtRun'
  BY <1>1 DEF ElfInMemory, InBoot, AtRun
<1> QED BY <1>2, <1>3, <1>4, <1>5 DEF FrameInv

(* The kernel's file has a size. *)
LEMMA FileSizeType == FileSize(KernelImage) \in Nat
<1> DEFINE N == Len(KernelImage)
           G(i) == offset(KernelImage[i]) + file_size(KernelImage[i])
           Bounded(m) == \E b \in Nat : \A i \in 1 .. m : G(i) <= b
           T == {m \in Nat : m <= N /\ ~Bounded(m)}
<1>1. /\ N \in Nat /\ DOMAIN KernelImage = 1 .. N
      /\ \A i \in 1 .. N : KernelImage[i] \in Nat \X Nat \X Nat \X Nat
  BY SMTT(30), LoaderAssumption
<1>2. \A i \in 1 .. N : G(i) \in Nat
  BY <1>1 DEF offset, file_size
<1>3. FileSize(KernelImage) = Max({0} \cup {G(i) : i \in 1 .. N})
  <2>1. {offset(s) + file_size(s) : s \in Range(KernelImage)} = {G(i) : i \in 1 .. N}
    BY <1>1, Zenon DEF Range
  <2> QED BY <2>1, Zenon DEF FileSize
<1> HIDE DEF G
<1>4. Bounded(0)
  <2>1. 1 .. 0 = {} /\ 0 \in Nat
    OBVIOUS
  <2> QED BY Zenon, <2>1
<1>5. ASSUME NEW m \in Nat, m < N, Bounded(m) PROVE Bounded(m + 1)
  <2>1. PICK b \in Nat : \A i \in 1 .. m : G(i) <= b
    BY <1>5
  <2>2. m + 1 \in 1 .. N /\ G(m + 1) \in Nat /\ b + G(m + 1) \in Nat
    BY <1>1, <1>2, <1>5
  <2>3. ASSUME NEW i \in 1 .. m + 1 PROVE G(i) <= b + G(m + 1)
    <3>1. CASE i = m + 1
      BY ONLY <2>2, <3>1, b \in Nat
    <3>2. CASE i # m + 1
      <4>1. i \in 1 .. m /\ i \in 1 .. N
        BY ONLY <3>2, <2>3, <2>2, m \in Nat, <1>1
      <4>2. G(i) <= b /\ G(i) \in Nat
        BY <4>1, <2>1, <1>2
      <4> QED BY ONLY <2>2, <4>2, b \in Nat
    <3> QED BY <3>1, <3>2
  <2> QED BY <2>2, <2>3
<1> HIDE DEF Bounded
<1>6. T = {}
  <2>1. SUFFICES ASSUME T # {} PROVE FALSE
    OBVIOUS
  <2>2. PICK m \in T : \A y \in T : m <= y
    <3>1. T \in SUBSET Nat
      OBVIOUS
    <3> QED BY Zenon, <2>1, <3>1, LeastNatural
  <2>3. m # 0
    BY <1>4
  <2>4. m - 1 \in Nat /\ m - 1 < N /\ m - 1 \notin T /\ (m - 1) + 1 = m
    BY <1>1, <2>2, <2>3
  <2>5. Bounded(m - 1)
    BY <2>4, <1>1
  <2>6. Bounded(m)
    BY <1>5, <2>4, <2>5
  <2> QED BY <2>6
<1>7. PICK b \in Nat : \A i \in 1 .. N : G(i) <= b
  <2>1. Bounded(N)
    BY <1>1, <1>6
  <2> QED BY <2>1 DEF Bounded
<1> DEFINE U == {0} \cup {G(i) : i \in 1 .. N}
<1>8. U \in SUBSET (0 .. b) /\ U # {}
  BY <1>2, <1>7
<1>9. Max(U) \in U
  BY Zenon, <1>8, MaxIsGreatest
<1> QED BY <1>3, <1>8, <1>9

-----------------------------------------------------------------------------
(* The steps of the boot loader.                                           *)

(* A file was loaded, or there was no room. *)
LEMMA LoadFile ==
  ASSUME FrameInv, phase \in {"config", "kernel", "apps"},
         NEW size, NEW use, NEW next, load_file(size, use, next),
         use[1] \notin Proc,
         \/ phase = "config" /\ next.phase = "kernel" /\ use # <<"elf">>
         \/ phase = "apps" /\ next.phase = "apps" /\ use # <<"elf">>
         \/ /\ phase = "kernel" /\ next.phase \in {"apps", "memory"}
            /\ use = <<"elf">> /\ size = FileSize(KernelImage)
  PROVE  FrameInv'
<1>1. CASE panic
  BY <1>1, PanicFrames
<1>2. CASE ~panic
  <2>1. /\ \E run \in Runs(LoadPages(size)) :
            map' = Marked(run, "LOADER_DATA") /\ uses' = Used(run, use)
        /\ phase' = next.phase
        /\ mem' = mem /\ job' = job /\ code' = code
        /\ frames' = frames /\ recycled' = recycled /\ used' = used
    BY <1>2 DEF load_file, allocVars
  <2>2. PICK run \in Runs(LoadPages(size)) :
            map' = Marked(run, "LOADER_DATA") /\ uses' = Used(run, use)
    BY <2>1
  <2>3. Booting
    BY DEF Booting
  <2>4. Filed(run, use) /\ \E e \in Frame : run = e .. e + LoadPages(size) - 1
    BY Zenon, <2>2, <2>3, RunIsFree
  <2>5. /\ OneUse'
        /\ \A f \in Conventional' : uses'[f] = {}
        /\ \A p \in Proc : Owned(p)' = {}
        /\ use # <<"elf">> => Using(<<"elf">>)' = Using(<<"elf">>)
        /\ use = <<"elf">> /\ Using(<<"elf">>) = {} => Using(<<"elf">>)' = run
    BY <2>3, <2>4, FiledFrames
  <2>6. phase' \in {"kernel", "apps", "memory"}
    BY <2>1
  <2>7. Shape' /\ Jobs'
    BY Zenon, <2>1, <2>6 DEF FrameInv, Shape, Jobs
  <2>8. InBoot' /\ AtRun'
    BY <2>5, <2>6 DEF InBoot, AtRun
  <2>9. ElfInMemory'
    <3> DEFINE elf == <<"elf">>
               L == LoadPages(FileSize(KernelImage))
    <3>1. /\ phase \in {"config", "kernel"} => Using(elf) = {}
          /\ phase \in {"apps", "memory", "map"} => \E e \in Frame : Using(elf) = e .. e + L - 1
      BY DEF FrameInv, ElfInMemory
    <3>2. /\ use # elf => Using(elf)' = Using(elf)
          /\ use = elf /\ Using(elf) = {} => Using(elf)' = run
      BY <2>5
    <3>3. use = elf => \E e \in Frame : run = e .. e + L - 1
      BY <2>4
    <3>4. \/ phase = "config" /\ phase' = "kernel" /\ use # elf
          \/ phase = "apps" /\ phase' = "apps" /\ use # elf
          \/ phase = "kernel" /\ phase' \in {"apps", "memory"} /\ use = elf
      BY <2>1
    <3> HIDE DEF elf, L
    <3>5. /\ phase' \in {"config", "kernel"} => Using(elf)' = {}
          /\ phase' \in {"apps", "memory", "map"} =>
               \E e \in Frame : Using(elf)' = e .. e + L - 1
      BY ONLY <3>1, <3>2, <3>3, <3>4
    <3> QED BY <3>5 DEF ElfInMemory, elf, L
  <2> QED BY <2>5, <2>7, <2>8, <2>9 DEF FrameInv
<1> QED BY <1>1, <1>2

(* Reading the configuration keeps the invariant.                          *)
LEMMA LoadConfig == ASSUME FrameInv, load_config PROVE FrameInv'
<1>1. /\ phase = "config"
      /\ load_file(Len(lines), <<"config">>, Then("kernel", parse(lines)))
  BY DEF load_config
<1>2. Then("kernel", parse(lines)).phase = "kernel"
  BY DEF Then
<1>3. <<"config">>[1] \notin Proc /\ <<"config">> # <<"elf">>
  BY LoaderAssumption
<1> HIDE DEF Then
<1> QED BY <1>1, <1>2, <1>3, LoadFile

(* Loading the file of the kernel into free frames keeps the invariant.    *)
LEMMA LoadKernel == ASSUME FrameInv, load_kernel PROVE FrameInv'
<1> DEFINE next == Then(IF config.load_apps THEN "apps" ELSE "memory", config)
<1>1. phase = "kernel" /\ load_file(FileSize(KernelImage), <<"elf">>, next)
  BY Zenon DEF load_kernel
<1>2. next.phase \in {"apps", "memory"}
  BY DEF Then
<1>3. <<"elf">>[1] \notin Proc
  BY LoaderAssumption
<1> HIDE DEF next
<1> QED BY <1>1, <1>2, <1>3, LoadFile

(* A step that changes neither the frames nor the job. *)
LEMMA SameFrames ==
  ASSUME FrameInv, UNCHANGED <<map, uses, mem, job, code, allocVars>>,
         \/ phase \in {"apps", "memory"} /\ phase' \in {"apps", "memory"}
         \/ phase \in {"exit", "init"} /\ phase' \in {"exit", "init"}
  PROVE  FrameInv'
<1>1. /\ map' = map /\ mem' = mem /\ job' = job /\ uses' = uses /\ code' = code
      /\ frames' = frames /\ recycled' = recycled /\ used' = used
  BY DEF allocVars
<1>2. Shape' /\ Jobs' /\ OneUse'
  BY <1>1 DEF FrameInv, Shape, Jobs, OneUse
<1>3. /\ Conventional' = Conventional /\ Using(<<"elf">>)' = Using(<<"elf">>)
      /\ \A p \in Proc : Owned(p)' = Owned(p)
  BY <1>1 DEF Conventional, Using, Owned
<1>4. InBoot' /\ AtRun'
  BY <1>1, <1>3 DEF FrameInv, InBoot, AtRun
<1>5. ElfInMemory'
  BY <1>3 DEF FrameInv, ElfInMemory
<1> QED BY <1>2, <1>4, <1>5 DEF FrameInv

(* Loading an application into free frames keeps the invariant.            *)
LEMMA LoadApps == ASSUME FrameInv, load_apps PROVE FrameInv'
<1>1. phase = "apps"
  BY DEF load_apps
<1>2. CASE /\ dir' = Tail(dir)
           /\ UNCHANGED <<phase, lines, config, apps, map, uses, mem, job, code, allocVars>>
  BY <1>1, <1>2, SameFrames
<1> DEFINE next == [phase |-> "apps", config |-> config, dir |-> Tail(dir), apps |-> apps + 1]
<1>3. CASE load_file(Head(dir).size, <<"app", apps>>, next)
  <2>1. next.phase = "apps"
    OBVIOUS
  <2>2. <<"app", apps>>[1] \notin Proc /\ <<"app", apps>> # <<"elf">>
    BY LoaderAssumption
  <2> HIDE DEF next
  <2> QED BY <1>1, <1>3, <2>1, <2>2, LoadFile
<1>4. CASE panic
  BY <1>4, PanicFrames
<1> QED BY <1>2, <1>3, <1>4, Zenon DEF load_apps

(* Going on when all applications are loaded keeps the invariant.          *)
LEMMA AppsLoaded == ASSUME FrameInv, apps_loaded PROVE FrameInv'
BY SameFrames DEF apps_loaded, bootVars

(* Handing the memory map over keeps the invariant.                        *)
LEMMA ExitBootServices == ASSUME FrameInv, exit_boot_services PROVE FrameInv'
BY SameFrames DEF exit_boot_services, bootVars

(* Taking a frame for the table of physical memory keeps the invariant.    *)
LEMMA MapPhysicalMemory == ASSUME FrameInv, map_physical_memory PROVE FrameInv'
<1> DEFINE use == <<"kernel", "table">>
<1>1. CASE panic
  BY <1>1, PanicFrames
<1>2. CASE ~panic
  <2>1. /\ phase = "memory" /\ phase' = "map"
        /\ \E run \in Runs(1) : map' = Marked(run, "LOADER_DATA") /\ uses' = Used(run, use)
        /\ job' = [space |-> "kernel", todo |-> load_elf(KernelImage) \o KernelStack]
        /\ mem' = mem /\ code' = code
        /\ frames' = frames /\ recycled' = recycled /\ used' = used
    BY <1>2 DEF map_physical_memory, allocVars
  <2>2. PICK run \in Runs(1) : map' = Marked(run, "LOADER_DATA") /\ uses' = Used(run, use)
    BY <2>1
  <2>3. Booting
    BY <2>1 DEF Booting
  <2>4. Filed(run, use)
    BY <2>2, <2>3, RunIsFree
  <2>5. use[1] \notin Proc /\ use # <<"elf">>
    BY LoaderAssumption
  <2> HIDE DEF use
  <2>6. /\ OneUse'
        /\ \A f \in Conventional' : uses'[f] = {}
        /\ \A p \in Proc : Owned(p)' = {}
        /\ Using(<<"elf">>)' = Using(<<"elf">>)
    BY <2>3, <2>4, <2>5, FiledFrames
  <2>7. Shape'
    BY <2>1 DEF FrameInv, Shape
  <2>8. Jobs'
    BY ZenonT(30), <2>1 DEF Jobs, KernelJob
  <2>9. InBoot' /\ AtRun' /\ ElfInMemory'
    BY <2>1, <2>6 DEF FrameInv, InBoot, AtRun, ElfInMemory
  <2> QED BY Zenon, <2>6, <2>7, <2>8, <2>9 DEF FrameInv
<1> QED BY <1>1, <1>2

(* What free_elf gives back is what load_elf took. *)
LEMMA FreeElf == ASSUME FrameInv, free_elf PROVE FrameInv'
<1> DEFINE elf == <<"elf">>
           L == LoadPages(FileSize(KernelImage))
           U == Using(elf) \cup {FRAMES - 1}
           run == Min(U) .. Min(U) + L - 1
<1>1. /\ phase = "map" /\ phase' = "exit" /\ job' = Idle
      /\ map' = Marked(run, "CONVENTIONAL")
      /\ uses' = [f \in Frame |-> uses[f] \ {elf}]
      /\ mem' = mem /\ code' = code
      /\ frames' = frames /\ recycled' = recycled /\ used' = used
  BY DEF free_elf, allocVars, FreePages, LoadPages
<1>2. PICK e \in Frame : Using(elf) = e .. e + L - 1
  BY <1>1 DEF FrameInv, ElfInMemory
<1>3. L \in Nat /\ L >= 1
  <2> DEFINE size == FileSize(KernelImage)
  <2>1. size \in Nat /\ PAGE \in Nat \ {0}
    BY FileSizeType, LoaderAssumption
  <2> HIDE DEF size
  <2>2. size \div PAGE \in Nat
    BY <2>1
  <2> QED BY <2>2 DEF LoadPages, size
<1> HIDE DEF L
<1>4. Using(elf) \subseteq Frame /\ Frame \subseteq Nat /\ e \in Nat /\ e <= FRAMES - 1
      /\ FRAMES - 1 \in Nat
  BY LoaderAssumption DEF Using, Frame
<1>5. Min(U) = e
  <2>1. U \in SUBSET Nat /\ e \in U /\ \A y \in U : y \in Nat /\ e <= y
    BY <1>2, <1>3, <1>4
  <2>2. Min(U) \in U /\ \A y \in U : Min(U) <= y
    BY <2>1, MinIsLeast
  <2> HIDE DEF U
  <2>3. Min(U) \in Nat /\ Min(U) <= e /\ e <= Min(U)
    BY ONLY ZenonT(30), <2>1, <2>2
  <2> QED BY ONLY <2>3, <1>4
<1>6. run = Using(elf)
  BY <1>2, <1>5
<1> HIDE DEF U, run, elf
<1>7. /\ \A f \in Conventional : f \in Frame /\ uses[f] = {}
      /\ \A p \in Proc : Owned(p) = {}
      /\ \A f \in Frame : \A u, v \in uses[f] : u = v
  BY <1>1 DEF FrameInv, InBoot, OneUse, Conventional
<1>8. /\ \A f \in Frame : uses'[f] \subseteq uses[f]
      /\ \A f \in Using(elf) : uses'[f] = {}
  <2>1. \A f \in Using(elf) : f \in Frame /\ elf \in uses[f]
    BY DEF Using
  <2> QED BY <1>1, <1>7, <2>1
<1>9. \A f \in Conventional' : uses'[f] = {}
  <2>1. \A f \in Conventional' : f \in Conventional \/ f \in run
    BY Zenon, <1>1 DEF Conventional, Marked
  <2> QED BY Zenon, <1>6, <1>7, <1>8, <2>1
<1>10. \A p \in Proc : Owned(p)' = {}
  BY <1>7, <1>8 DEF Owned
<1>11. Shape' /\ Jobs' /\ OneUse'
  BY ZenonT(30), <1>1, <1>7, <1>8 DEF FrameInv, Shape, Jobs, OneUse
<1>12. ElfInMemory' /\ InBoot' /\ AtRun'
  BY <1>1, <1>9, <1>10 DEF ElfInMemory, InBoot, AtRun
<1> QED BY <1>11, <1>12 DEF FrameInv

(* The kernel takes over what the memory map calls CONVENTIONAL.           *)
LEMMA InitMemory == ASSUME FrameInv, init_memory PROVE FrameInv'
<1>1. /\ phase = "init" /\ phase' = "run"
      /\ frames' = create_frame_iter /\ recycled' = <<>> /\ used' = 0
      /\ job' = [space |-> "kernel", todo |-> init_user_heap]
      /\ map' = map /\ uses' = uses /\ mem' = mem /\ code' = code
  BY DEF init_memory, bootVars
<1>2. /\ \A f \in Conventional : f \in Frame /\ uses[f] = {}
      /\ \A p \in Proc : Owned(p) = {}
  BY <1>1 DEF FrameInv, InBoot, Conventional
<1>3. /\ frames' \in Seq(Frame) /\ IsInjective(frames') /\ Range(frames') = Conventional
  <2>1. Conventional \in SUBSET Frame
    BY DEF Conventional
  <2> QED BY <1>1, <2>1, AscendingLists DEF create_frame_iter
<1>4. recycled' \in Seq(Frame) /\ Len(recycled') = 0
  BY <1>1
<1>5. Pool' = frames'
  <2>1. Pool' = [i \in 1 .. 0 |-> recycled'[0 + 1 - i]] \o frames'
    BY <1>4, Zenon DEF Pool
  <2>2. [i \in 1 .. 0 |-> recycled'[0 + 1 - i]] = <<>>
    OBVIOUS
  <2>3. <<>> \o frames' = frames'
    BY <1>3
  <2> QED BY <2>1, <2>2, <2>3
<1>6. Conventional' = Conventional /\ InUse' = {} /\ \A p \in Proc : Owned(p)' = {}
  BY <1>1, <1>2 DEF Conventional, InUse, Owned
<1>7. frames_in_use' = Cardinality(InUse')
  <2>1. Cardinality(InUse') = 0
    BY <1>6, FS_EmptySet
  <2>2. frames_in_use' = 0
    <3>1. used' = 0 /\ Len(recycled') = 0
      BY <1>1, <1>4
    <3> QED BY ONLY <3>1 DEF frames_in_use
  <2> QED BY <2>1, <2>2
<1>8. AtRun'
  BY Zenon, <1>3, <1>5, <1>6, <1>7 DEF AtRun
<1>9. Shape' /\ OneUse'
  BY <1>1, <1>3, <1>4 DEF FrameInv, Shape, OneUse
<1>10. Jobs'
  BY <1>1 DEF Jobs, KernelJob
<1>11. ElfInMemory' /\ InBoot'
  BY <1>1 DEF ElfInMemory, InBoot
<1> QED BY <1>8, <1>9, <1>10, <1>11 DEF FrameInv

-----------------------------------------------------------------------------
(* The steps of the kernel.                                                *)

(* A job is done. *)
LEMMA Loaded == ASSUME FrameInv, loaded PROVE FrameInv'
<1>1. /\ phase = "run" /\ phase' = "run" /\ job # Idle /\ job' = Idle
      /\ code' = [p \in Proc |-> IF p = job.space THEN [status |-> "loaded", image |-> job.image]
                                 ELSE code[p]]
      /\ map' = map /\ uses' = uses /\ mem' = mem
      /\ frames' = frames /\ recycled' = recycled /\ used' = used
  BY DEF loaded, bootVars, allocVars
<1>2. \A p \in Proc : p = job.space => job.image \in Image
  BY <1>1, LoaderAssumption DEF FrameInv, Jobs, KernelJob, ProcJob
<1>3. Shape'
  <2>1. code \in [Proc -> [status : {"none", "loaded", "exited"}, image : Image \cup {<<>>}]]
        /\ \A p \in Proc : code[p].status # "none" => code[p].image \in Image
    BY Zenon DEF FrameInv, Shape
  <2>2. code' \in [Proc -> [status : {"none", "loaded", "exited"}, image : Image \cup {<<>>}]]
    BY Zenon, <1>1, <1>2, <2>1
  <2>3. \A p \in Proc : code'[p].status # "none" => code'[p].image \in Image
    BY Zenon, <1>1, <1>2, <2>1
  <2> QED BY <1>1, <2>2, <2>3 DEF FrameInv, Shape
<1>4. Jobs' /\ OneUse' /\ ElfInMemory' /\ InBoot'
  BY Zenon, <1>1 DEF FrameInv, Jobs, OneUse, ElfInMemory, InBoot
<1>5. /\ Pool' = Pool /\ Conventional' = Conventional /\ frames_in_use' = frames_in_use
      /\ InUse' = InUse /\ \A p \in Proc : Owned(p)' = Owned(p)
  BY Zenon, <1>1 DEF Pool, Conventional, frames_in_use, InUse, Owned
<1>6. AtRun'
  BY Zenon, <1>1, <1>5 DEF FrameInv, AtRun
<1> QED BY Zenon, <1>3, <1>4, <1>6 DEF FrameInv

(* Frames that nobody used are used by one space from now on. *)
LEMMA InUseGrows ==
  ASSUME FrameInv, phase = "run", NEW G \in SUBSET Conventional, \A f \in G : uses[f] = {},
         NEW space,
         \A f \in G : uses'[f] # {} /\ \A u, v \in uses'[f] : u = v /\ u[1] = space,
         \A f \in Frame \ G : uses'[f] = uses[f],
         Conventional' = Conventional, phase' = "run",
         IsInjective(Pool'), Range(Pool') \subseteq Range(Pool) \ G,
         frames_in_use' = frames_in_use + Cardinality(G)
  PROVE  AtRun' /\ OneUse'
<1>1. /\ Range(Pool) \subseteq Conventional \ InUse
      /\ frames_in_use = Cardinality(InUse)
      /\ \A p \in Proc : Owned(p) \subseteq InUse
      /\ \A f \in Frame : \A u, v \in uses[f] : u = v
  BY DEF FrameInv, AtRun, OneUse
<1>2. Conventional \subseteq Frame /\ InUse \subseteq Frame /\ G \subseteq Frame
  BY DEF Conventional, InUse
<1>3. InUse' = InUse \cup G /\ InUse \cap G = {}
  BY Zenon, <1>2 DEF InUse
<1>4. Cardinality(InUse') = Cardinality(InUse) + Cardinality(G)
  <2>1. IsFiniteSet(InUse) /\ IsFiniteSet(G) /\ Cardinality(InUse) \in Nat /\ Cardinality(G) \in Nat
    BY <1>2, FinitelyMany
  <2>2. Cardinality(InUse \cup G) = Cardinality(InUse) + Cardinality(G) - Cardinality(InUse \cap G)
    BY <2>1, FS_Union, Zenon
  <2>3. Cardinality(InUse \cap G) = 0
    BY Zenon, <1>3, FS_EmptySet
  <2> QED BY <1>3, <2>1, <2>2, <2>3
<1>5. Range(Pool') \subseteq Conventional' \ InUse'
  BY Zenon, <1>1, <1>3
<1>6. ASSUME NEW p \in Proc PROVE Owned(p)' \subseteq InUse'
  <2>1. \A f \in Owned(p)' : f \in G \/ f \in Owned(p)
    BY Zenon DEF Owned
  <2> QED BY Zenon, <1>1, <1>3, <2>1
<1>7. OneUse'
  BY <1>1 DEF OneUse
<1> QED BY ZenonT(30), <1>1, <1>4, <1>5, <1>6, <1>7 DEF AtRun

(* A page of the kernel or of a process is mapped. *)
LEMMA MapPage == ASSUME FrameInv, map_page PROVE FrameInv'
<1> DEFINE space == job.space
           page == Head(job.todo)[1]
           data == Head(job.todo)[2]
<1>1. /\ job # Idle /\ job.todo # <<>> /\ map_to(space, page, data)
  BY DEF map_page
<1>2. phase \in {"map", "run"}
  BY <1>1 DEF FrameInv, Jobs
<1>3. CASE phase' = "panic"
  <2>1. panic
    BY <1>1, <1>2, <1>3 DEF map_to
  <2> QED BY <2>1, PanicFrames
<1>4. CASE phase' # "panic"
  <2> HIDE DEF space, page, data
  <2>1. PICK a, T : /\ Placed(a, T, space, page, data)
                    /\ phase = "map" => PlacedInBoot(a, T)
                    /\ phase = "run" => PlacedInRun(a, T)
    BY <1>1, <1>2, <1>4, Placing
  <2> DEFINE pg == <<space, "page", page>>
             tb == <<space, "table">>
             elf == <<"elf">>
  <2>2. /\ a \in Conventional /\ T \subseteq Conventional /\ a \notin T
        /\ \A f \in T \cup {a} : uses[f] = {}
        /\ \A f \in Frame : uses'[f] = IF f = a THEN {pg} ELSE IF f \in T THEN {tb} ELSE uses[f]
        /\ mem' = [mem EXCEPT ![a] = data] /\ phase' = phase /\ code' = code
        /\ job' = [job EXCEPT !.todo = Tail(@)]
    BY Zenon, <2>1 DEF Placed
  <2>3. pg[1] = space /\ tb[1] = space /\ pg # elf /\ tb # elf
    OBVIOUS
  <2> HIDE DEF pg, tb
  <2>4. Jobs'
    <3>1. \/ KernelJob
          \/ phase = "run" /\ ProcJob
      BY <1>1, <1>2 DEF FrameInv, Jobs
    <3>2. CASE KernelJob
      <4>1. job' = [space |-> "kernel", todo |-> Tail(job.todo)]
        <5> DEFINE td == job.todo
        <5>1. job = [space |-> "kernel", todo |-> td]
          BY <3>2 DEF KernelJob
        <5> HIDE DEF td
        <5>2. job' = [space |-> "kernel", todo |-> Tail(td)]
          BY ONLY Zenon, <5>1, <2>2
        <5> QED BY <5>2 DEF td
      <4>2. KernelJob'
        BY <4>1 DEF KernelJob
      <4> QED BY <1>2, <2>2, <4>2 DEF Jobs
    <3>3. CASE phase = "run" /\ ProcJob
      <4>1. job' = [space |-> job.space, image |-> job.image, todo |-> Tail(job.todo)]
        BY Zenon, <2>2, <3>3 DEF ProcJob
      <4>2. ProcJob'
        BY <3>3, <4>1 DEF ProcJob
      <4> QED BY <2>2, <3>3, <4>2 DEF Jobs
    <3> QED BY <3>1, <3>2, <3>3
  <2>5. DOMAIN mem' = Frame
    BY <2>2 DEF FrameInv, Shape
  <2>6. CASE phase = "map"
    <3>1. /\ frames' = frames /\ recycled' = recycled /\ used' = used
          /\ Conventional' = Conventional \ (T \cup {a})
      BY <2>1, <2>6 DEF PlacedInBoot
    <3>2. Shape'
      BY <2>2, <2>5, <3>1 DEF FrameInv, Shape
    <3>3. space \notin Proc
      BY <2>6, LoaderAssumption DEF FrameInv, Jobs, KernelJob, space
    <3>4. /\ \A f \in Conventional : f \in Frame /\ uses[f] = {}
          /\ \A p \in Proc : Owned(p) = {}
          /\ \A f \in Frame : \A u, v \in uses[f] : u = v
      BY <2>6 DEF FrameInv, InBoot, OneUse, Conventional
    <3>5. OneUse'
      BY <2>2, <3>4 DEF OneUse
    <3>6. \A p \in Proc : Owned(p)' = {}
      BY <2>2, <2>3, <3>3, <3>4 DEF Owned
    <3>7. \A f \in Conventional' : uses'[f] = {}
      BY <2>2, <3>1, <3>4
    <3>8. Using(elf)' = Using(elf)
      <4> HIDE DEF elf
      <4> QED BY <2>2, <2>3, <3>4 DEF Using
    <3>9. ElfInMemory' /\ InBoot' /\ AtRun'
      BY Zenon, <2>2, <2>6, <3>6, <3>7, <3>8 DEF FrameInv, ElfInMemory, InBoot, AtRun
    <3> QED BY <2>4, <3>2, <3>5, <3>9 DEF FrameInv
  <2>7. CASE phase = "run"
    <3> DEFINE G == T \cup {a}
    <3>1. /\ recycled' \in Seq(Frame) /\ frames' \in Seq(Frame) /\ used' \in Int
          /\ Conventional' = Conventional
          /\ IsInjective(Pool')
          /\ Range(Pool') \subseteq Range(Pool) \ G
          /\ frames_in_use' = frames_in_use + Cardinality(G)
      BY <2>1, <2>7 DEF PlacedInRun
    <3>2. Shape'
      BY <2>2, <2>5, <3>1 DEF FrameInv, Shape
    <3>3. /\ G \in SUBSET Conventional /\ \A f \in G : uses[f] = {}
          /\ \A f \in G : uses'[f] # {} /\ \A u, v \in uses'[f] : u = v /\ u[1] = space
          /\ \A f \in Frame \ G : uses'[f] = uses[f]
      <4>1. Conventional \subseteq Frame
        BY DEF Conventional
      <4> QED BY <2>2, <2>3, <4>1
    <3> HIDE DEF G
    <3>4. AtRun' /\ OneUse'
      BY Zenon, <2>2, <2>7, <3>1, <3>3, InUseGrows
    <3>5. ElfInMemory' /\ InBoot'
      BY <2>2, <2>7 DEF ElfInMemory, InBoot
    <3> QED BY Zenon, <2>4, <3>2, <3>4, <3>5 DEF FrameInv
  <2> QED BY Zenon, <1>2, <2>6, <2>7
<1> QED BY <1>3, <1>4

(* A process is given its root table. *)
LEMMA Spawn ==
  ASSUME FrameInv, NEW p \in Proc, NEW image \in Image, spawn(p, image)
  PROVE  FrameInv'
<1>1. CASE panic
  BY <1>1, PanicFrames
<1>2. CASE ~panic
  <2> DEFINE use == <<p, "root">>
             h == Head(Pool)
  <2>1. /\ phase = "run" /\ phase' = "run" /\ Pool # <<>> /\ allocate_frame(1)
        /\ uses' = Used({h}, use)
        /\ job' = [space |-> p, image |-> image,
                   todo |-> load_elf(image) \o map_pages(STACK_PAGE, 1)]
        /\ map' = map /\ mem' = mem /\ code' = code
    BY <1>2 DEF spawn, bootVars
  <2>2. Pool \in Seq(Frame) /\ Len(Pool) \in Nat /\ DOMAIN Pool = 1 .. Len(Pool)
    BY PoolType DEF FrameInv
  <2>3. 1 \in Nat /\ 1 <= Len(Pool) /\ h = Pool[1]
    BY <2>1, <2>2
  <2>4. /\ recycled' \in Seq(Frame) /\ frames' \in Seq(Frame) /\ used' \in Int
        /\ IsInjective(Pool') /\ Range(Pool') \subseteq Range(Pool)
        /\ \A i \in 1 .. 1 : Pool[i] \in Range(Pool) /\ Pool[i] \notin Range(Pool')
        /\ frames_in_use' = frames_in_use + 1
    BY <2>1, <2>3, PoolTaken
  <2>5. h \in Range(Pool) /\ h \notin Range(Pool')
    BY <2>3, <2>4
  <2>6. h \in Conventional /\ h \in Frame /\ uses[h] = {}
    <3>1. Range(Pool) \subseteq Conventional \ InUse
      BY <2>1 DEF FrameInv, AtRun
    <3> QED BY Zenon, <2>5, <3>1 DEF InUse, Conventional
  <2>7. use[1] = p
    BY SMTT(30)
  <2> HIDE DEF use, h
  <2>8. AtRun' /\ OneUse'
    <3> DEFINE G == {h}
    <3>1. /\ G \in SUBSET Conventional /\ \A f \in G : uses[f] = {}
          /\ \A f \in G : uses'[f] # {} /\ \A u, v \in uses'[f] : u = v /\ u[1] = p
          /\ \A f \in Frame \ G : uses'[f] = uses[f]
      BY Zenon, <2>1, <2>6, <2>7 DEF Used
    <3>2. Cardinality(G) = 1
      BY FS_Singleton
    <3>3. Conventional' = Conventional
      BY <2>1 DEF Conventional
    <3>4. Range(Pool') \subseteq Range(Pool) \ G
      BY Zenon, <2>4, <2>5
    <3> HIDE DEF G
    <3> QED BY ZenonT(30), <2>1, <2>4, <3>1, <3>2, <3>3, <3>4, InUseGrows
  <2>9. Shape' /\ ElfInMemory' /\ InBoot'
    BY Zenon, <2>1, <2>4 DEF FrameInv, Shape, ElfInMemory, InBoot
  <2>10. Jobs'
    BY <2>1 DEF Jobs, ProcJob
  <2> QED BY Zenon, <2>8, <2>9, <2>10 DEF FrameInv
<1> QED BY <1>1, <1>2

(* What unmap_range returns: frames of the pages, in their order, up to    *)
(* one that is not mapped or comes a second time.                          *)
IsUnmapped(p, pages, un) ==
  /\ un \in Seq(Frame) /\ Len(un) <= Len(pages)
  /\ \A i \in 1 .. Len(un) : <<p, "page", pages[i]>> \in uses[un[i]]
  /\ \A i, j \in 1 .. Len(un) : pages[i] = pages[j] => i = j
  /\ \/ Len(un) = Len(pages)
     \/ \E i \in 1 .. Len(pages) : \/ Using(<<p, "page", pages[i]>>) = {}
                                   \/ \E j \in 1 .. i - 1 : pages[j] = pages[i]

(* That is what unmap_range returns.                                       *)
LEMMA UnmapRange ==
  ASSUME NEW p, NEW pages, Len(pages) \in Nat
  PROVE  IsUnmapped(p, pages, unmap_range(p, pages))
<1> DEFINE U(i) == Using(<<p, "page", pages[i]>>)
           mapped(i) == U(i) # {} /\ \A j \in 1 .. i - 1 : pages[j] # pages[i]
           N == Len(pages)
           K == {i \in 0 .. N : \A j \in 1 .. i : mapped(j)}
           n == Max(K)
           un == [i \in 1 .. n |-> CHOOSE f \in U(i) : TRUE]
<1>1. unmap_range(p, pages) = un
  BY Zenon DEF unmap_range
<1>2. n \in 0 .. N /\ (\A j \in 1 .. n : mapped(j)) /\ (n = N \/ ~mapped(n + 1))
  <2>1. K \in SUBSET (0 .. N) /\ 0 \in K
    OBVIOUS
  <2>2. n \in K /\ \A y \in K : n >= y
    BY Zenon, <2>1, MaxIsGreatest
  <2>3. n \in 0 .. N /\ \A j \in 1 .. n : mapped(j)
    BY Zenon, <2>2
  <2> HIDE DEF mapped, n
  <2>4. ASSUME n # N, mapped(n + 1) PROVE FALSE
    <3>1. n + 1 \in 0 .. N /\ \A j \in 1 .. n + 1 : j = n + 1 \/ j \in 1 .. n
      BY <2>3, <2>4
    <3>2. n + 1 \in K
      BY <2>3, <2>4, <3>1
    <3>3. n >= n + 1
      BY <2>2, <3>2
    <3> QED BY <2>3, <3>3
  <2> QED BY <2>3, <2>4
<1> HIDE DEF n
<1>3. ASSUME NEW i \in 1 .. n PROVE un[i] \in U(i) /\ un[i] \in Frame
  <2>1. U(i) # {} /\ U(i) \subseteq Frame
    BY <1>2 DEF Using
  <2>2. un[i] = CHOOSE f \in U(i) : TRUE
    OBVIOUS
  <2> HIDE DEF U, un
  <2> QED BY Zenon, <2>1, <2>2
<1>4. un \in Seq(Frame) /\ Len(un) = n
  <2>1. n \in Nat /\ DOMAIN un = 1 .. n
    BY <1>2
  <2>2. un \in [1 .. n -> Frame]
    BY <1>3, Zenon
  <2> HIDE DEF un
  <2> QED BY <2>1, <2>2
<1>5. \A i \in 1 .. n : <<p, "page", pages[i]>> \in uses[un[i]]
  <2> HIDE DEF un
  <2> QED BY <1>3, Zenon DEF Using
<1>6. ASSUME NEW i \in 1 .. n, NEW j \in 1 .. n, pages[i] = pages[j] PROVE i = j
  <2>1. mapped(i) /\ mapped(j) /\ i \in Nat /\ j \in Nat
    BY <1>2
  <2>2. ~(i < j) /\ ~(j < i)
    BY <1>6, <2>1
  <2> QED BY <2>1, <2>2
<1>7. \/ n = N
      \/ \E i \in 1 .. N : U(i) = {} \/ \E j \in 1 .. i - 1 : pages[j] = pages[i]
  <2>1. CASE n # N
    <3>1. n + 1 \in 1 .. N /\ ~mapped(n + 1)
      BY <1>2, <2>1
    <3> HIDE DEF U
    <3> QED BY <3>1
  <2> QED BY <2>1
<1> HIDE DEF un
<1>8. IsUnmapped(p, pages, un)
  <2>1. Len(un) <= Len(pages)
    BY <1>2, <1>4
  <2> QED BY Zenon, <1>4, <1>5, <1>6, <1>7, <2>1 DEF IsUnmapped
<1> QED BY <1>1, <1>8

(* The list from the other end. *)
LEMMA Reversed ==
  ASSUME NEW S, NEW r \in Seq(S)
  PROVE  LET v == [i \in 1 .. Len(r) |-> r[Len(r) + 1 - i]]
         IN  v \in Seq(S) /\ Range(v) = Range(r) /\ (IsInjective(v) <=> IsInjective(r))
<1> DEFINE v == [i \in 1 .. Len(r) |-> r[Len(r) + 1 - i]]
<1>1. Len(r) \in Nat /\ DOMAIN r = 1 .. Len(r) /\ \A i \in 1 .. Len(r) : r[i] \in S
  OBVIOUS
<1>2. \A i \in 1 .. Len(r) : /\ Len(r) + 1 - i \in 1 .. Len(r)
                             /\ Len(r) + 1 - (Len(r) + 1 - i) = i
  BY ONLY <1>1
<1>3. /\ DOMAIN v = 1 .. Len(r) /\ v \in Seq(S)
      /\ \A i \in 1 .. Len(r) : v[i] = r[Len(r) + 1 - i]
      /\ \A i \in 1 .. Len(r) : r[i] = v[Len(r) + 1 - i]
  BY <1>1, <1>2
<1> HIDE DEF v
<1>4. Range(v) = Range(r)
  <2>1. \A i \in 1 .. Len(r) : v[i] \in Range(r) /\ r[i] \in Range(v)
    BY <1>1, <1>2, <1>3 DEF Range
  <2> QED BY <1>1, <1>3, <2>1, Zenon DEF Range
<1>5. ASSUME IsInjective(v) PROVE IsInjective(r)
  <2>1. ASSUME NEW i \in 1 .. Len(r), NEW j \in 1 .. Len(r), r[i] = r[j] PROVE i = j
    <3>1. v[Len(r) + 1 - i] = v[Len(r) + 1 - j]
      BY <1>3, <2>1
    <3>2. Len(r) + 1 - i = Len(r) + 1 - j
      BY <1>2, <1>3, <1>5, <3>1, Zenon DEF IsInjective
    <3> QED BY <1>1, <3>2
  <2> QED BY <1>1, <2>1 DEF IsInjective
<1>6. ASSUME IsInjective(r) PROVE IsInjective(v)
  <2>1. ASSUME NEW i \in 1 .. Len(r), NEW j \in 1 .. Len(r), v[i] = v[j] PROVE i = j
    <3>1. r[Len(r) + 1 - i] = r[Len(r) + 1 - j]
      BY <1>3, <2>1
    <3>2. Len(r) + 1 - i = Len(r) + 1 - j
      BY <1>1, <1>2, <1>6, <3>1, Zenon DEF IsInjective
    <3> QED BY <1>1, <3>2
  <2> QED BY Zenon, <1>3, <2>1 DEF IsInjective
<1> QED BY <1>3, <1>4, <1>5, <1>6 DEF v

(* The parts of an injective sequence are injective and disjoint. *)
LEMMA JoinedSplit ==
  ASSUME NEW S, NEW s \in Seq(S), NEW t \in Seq(S), IsInjective(s \o t)
  PROVE  IsInjective(s) /\ IsInjective(t) /\ Range(s) \cap Range(t) = {}
<1> DEFINE q == s \o t
<1>1. /\ q \in Seq(S) /\ Len(q) = Len(s) + Len(t)
      /\ Len(s) \in Nat /\ Len(t) \in Nat
      /\ \A i \in 1 .. Len(s) : q[i] = s[i]
      /\ \A i \in Len(s) + 1 .. Len(s) + Len(t) : q[i] = t[i - Len(s)]
  BY Joined, Zenon
<1> HIDE DEF q
<1>2. DOMAIN s = 1 .. Len(s) /\ DOMAIN t = 1 .. Len(t) /\ DOMAIN q = 1 .. Len(q)
  BY <1>1
<1>3. \A i, j \in 1 .. Len(q) : q[i] = q[j] => i = j
  BY Zenon, <1>2 DEF IsInjective, q
<1>4. \A i \in 1 .. Len(s) : i \in 1 .. Len(q) /\ q[i] = s[i] /\ i <= Len(s)
  BY ONLY <1>1
<1>5. \A i \in 1 .. Len(t) : i + Len(s) \in 1 .. Len(q) /\ q[i + Len(s)] = t[i] /\ i + Len(s) > Len(s)
  <2>1. ASSUME NEW i \in 1 .. Len(t) PROVE q[i + Len(s)] = t[i]
    <3>1. i + Len(s) \in Len(s) + 1 .. Len(s) + Len(t) /\ (i + Len(s)) - Len(s) = i
      BY ONLY <1>1, <2>1
    <3>2. q[i + Len(s)] = t[(i + Len(s)) - Len(s)]
      BY ONLY <1>1, <3>1
    <3> QED BY ONLY <3>1, <3>2
  <2>2. ASSUME NEW i \in 1 .. Len(t) PROVE i + Len(s) \in 1 .. Len(q) /\ i + Len(s) > Len(s)
    BY ONLY <1>1, <2>2
  <2> QED BY <2>1, <2>2
<1>6. IsInjective(s)
  BY ONLY <1>2, <1>3, <1>4 DEF IsInjective
<1>7. IsInjective(t)
  <2>1. ASSUME NEW i \in 1 .. Len(t), NEW j \in 1 .. Len(t), t[i] = t[j] PROVE i = j
    <3>1. i + Len(s) = j + Len(s)
      BY ONLY <1>3, <1>5, <2>1
    <3> QED BY ONLY <1>1, <2>1, <3>1
  <2> QED BY <1>2, <2>1 DEF IsInjective
<1>8. \A i \in 1 .. Len(s), j \in 1 .. Len(t) : s[i] # t[j]
  <2>1. ASSUME NEW i \in 1 .. Len(s), NEW j \in 1 .. Len(t), s[i] = t[j] PROVE FALSE
    <3>1. i = j + Len(s)
      BY ONLY <1>3, <1>4, <1>5, <2>1
    <3> QED BY ONLY <1>1, <1>4, <1>5, <2>1, <3>1
  <2> QED BY <2>1
<1>9. Range(s) \cap Range(t) = {}
  BY <1>2, <1>8, Zenon DEF Range
<1> QED BY <1>6, <1>7, <1>9

(* Both ways of putting it. *)
JoinedWell(S, s, t) ==
  /\ s \o t \in Seq(S) /\ Len(s \o t) = Len(s) + Len(t)
  /\ IsInjective(s \o t) /\ Range(s \o t) = Range(s) \cup Range(t)

(* Lists without repetitions or common members join to such a list.        *)
LEMMA JoinsWell ==
  ASSUME NEW S, NEW s \in Seq(S), NEW t \in Seq(S), IsInjective(s), IsInjective(t),
         Range(s) \cap Range(t) = {}
  PROVE  JoinedWell(S, s, t)
<1>1. s \o t \in Seq(S) /\ Len(s \o t) = Len(s) + Len(t)
  BY Joined
<1>2. IsInjective(s \o t)
  BY JoinedInjective, Zenon
<1>3. Range(s \o t) = Range(s) \cup Range(t)
  BY RangeConcatenation
<1> QED BY <1>1, <1>2, <1>3, Zenon DEF JoinedWell

(* What is in the pool, and when it has no repetition. *)
LEMMA StackedParts ==
  ASSUME NEW S, NEW r \in Seq(S), NEW f \in Seq(S)
  PROVE  /\ Range(Stacked(r, f)) = Range(r) \cup Range(f)
         /\ IsInjective(Stacked(r, f)) <=>
              IsInjective(r) /\ IsInjective(f) /\ Range(r) \cap Range(f) = {}
<1> DEFINE v == [i \in 1 .. Len(r) |-> r[Len(r) + 1 - i]]
<1>1. v \in Seq(S) /\ Range(v) = Range(r) /\ (IsInjective(v) <=> IsInjective(r))
  BY Reversed, Zenon
<1>2. Stacked(r, f) = v \o f
  BY DEF Stacked
<1> HIDE DEF v
<1>3. Range(v \o f) = Range(v) \cup Range(f)
  BY <1>1, RangeConcatenation
<1>4. ASSUME IsInjective(v \o f)
      PROVE  IsInjective(v) /\ IsInjective(f) /\ Range(v) \cap Range(f) = {}
  BY <1>1, <1>4, JoinedSplit, Zenon
<1>5. ASSUME IsInjective(v) /\ IsInjective(f) /\ Range(v) \cap Range(f) = {}
      PROVE  IsInjective(v \o f)
  BY <1>1, <1>5, JoinedInjective, Zenon
<1> QED BY <1>1, <1>2, <1>3, <1>4, <1>5

(* Frames that nobody has come back to the pool. *)
LEMMA PoolGrows ==
  ASSUME NEW S, NEW r \in Seq(S), NEW f \in Seq(S), NEW g \in Seq(S),
         IsInjective(Stacked(r, f)), IsInjective(g), Range(g) \cap Range(Stacked(r, f)) = {}
  PROVE  /\ IsInjective(Stacked(r \o g, f))
         /\ Range(Stacked(r \o g, f)) = Range(Stacked(r, f)) \cup Range(g)
         /\ r \o g \in Seq(S) /\ Len(r \o g) = Len(r) + Len(g)
<1>1. /\ Range(Stacked(r, f)) = Range(r) \cup Range(f)
      /\ IsInjective(r) /\ IsInjective(f) /\ Range(r) \cap Range(f) = {}
  BY SMTT(30), StackedParts
<1>2. r \o g \in Seq(S) /\ Len(r \o g) = Len(r) + Len(g)
  BY Joined
<1>3. IsInjective(r \o g) /\ Range(r \o g) = Range(r) \cup Range(g)
  <2>1. Range(r) \cap Range(g) = {}
    BY <1>1
  <2>2. JoinedWell(S, r, g)
    BY <1>1, <2>1, JoinsWell, Zenon
  <2> QED BY <2>2 DEF JoinedWell
<1> DEFINE w == r \o g
<1> HIDE DEF w
<1>4. w \in Seq(S) /\ IsInjective(w) /\ Range(w) \cap Range(f) = {}
  BY Zenon, <1>1, <1>2, <1>3 DEF w
<1>5. IsInjective(Stacked(w, f)) /\ Range(Stacked(w, f)) = Range(w) \cup Range(f)
  BY <1>1, <1>4, StackedParts
<1> QED BY Zenon, <1>1, <1>2, <1>3, <1>5 DEF w

-----------------------------------------------------------------------------
(* The exit of a process.                                                  *)

ExitPages(p) ==
  <<STACK_PAGE>> \o Flatten([i \in DOMAIN code[p].image |-> CodeRange(code[p].image[i])])
LeftOf(p, unmapped) ==
  {f \in Frame \ Range(unmapped) : \E u \in uses[f] : u[1] = p /\ u[2] = "page"}
TablesOf(p, left) ==
  Ascending(IF left = {} THEN Using(<<p, "table">>) ELSE {}) \o Ascending(Using(<<p, "root">>))
FreedOf(p, unmapped, n) ==
  unmapped \o IF Len(unmapped) = n THEN TablesOf(p, LeftOf(p, unmapped)) ELSE <<>>
Freed(p) == FreedOf(p, unmap_range(p, ExitPages(p)), Len(ExitPages(p)))

(* exit in these words. *)
LEMMA ExitIs ==
  ASSUME NEW p, exit(p)
  PROVE  /\ phase = "run" /\ job = Idle
         /\ code[p].status = "loaded"
         /\ recycled' = recycled \o Freed(p)
         /\ uses' = [f \in Frame |->
                       IF f \in Range(Freed(p)) THEN {u \in uses[f] : u[1] # p} ELSE uses[f]]
         /\ code' = [code EXCEPT ![p].status = "exited"]
         /\ UNCHANGED <<phase, bootVars, mem, job, frames, used>>
BY Zenon DEF exit, Freed, FreedOf, TablesOf, LeftOf, ExitPages

(* Its frames, each of them once. *)
LEMMA FreedFrames ==
  ASSUME FrameInv, NEW p, NEW pages, NEW un, IsUnmapped(p, pages, un), NEW n
  PROVE  /\ FreedOf(p, un, n) \in Seq(Frame) /\ IsInjective(FreedOf(p, un, n))
         /\ Range(FreedOf(p, un, n)) \subseteq Owned(p)
         /\ Len(un) = n =>
              Range(FreedOf(p, un, n))
                = Range(un) \cup (IF LeftOf(p, un) = {} THEN Using(<<p, "table">>) ELSE {})
                    \cup Using(<<p, "root">>)
<1>1. /\ un \in Seq(Frame)
      /\ \A i \in 1 .. Len(un) : <<p, "page", pages[i]>> \in uses[un[i]]
      /\ \A i, j \in 1 .. Len(un) : pages[i] = pages[j] => i = j
  BY Zenon DEF IsUnmapped
<1>2. \A f \in Frame : \A u, v \in uses[f] : u = v
  BY DEF FrameInv, OneUse
<1>3. DOMAIN un = 1 .. Len(un) /\ \A i \in 1 .. Len(un) : un[i] \in Frame
  BY <1>1
<1>4. IsInjective(un)
  <2>1. ASSUME NEW i \in 1 .. Len(un), NEW j \in 1 .. Len(un), un[i] = un[j] PROVE i = j
    <3>1. <<p, "page", pages[i]>> = <<p, "page", pages[j]>>
      <4>1. /\ <<p, "page", pages[i]>> \in uses[un[i]] /\ <<p, "page", pages[j]>> \in uses[un[i]]
            /\ un[i] \in Frame
        BY <1>1, <1>3, <2>1, Zenon
      <4> QED BY <1>2, <4>1, Zenon
    <3>2. pages[i] = pages[j]
      BY <3>1
    <3> QED BY <1>1, <3>2
  <2> QED BY <1>3, <2>1 DEF IsInjective
<1>5. ASSUME NEW f \in Range(un)
      PROVE  f \in Frame /\ \E u \in uses[f] : u[1] = p /\ u[2] = "page"
  <2>1. PICK i \in 1 .. Len(un) : f = un[i]
    BY Zenon, <1>3 DEF Range
  <2> QED BY ZenonT(30), <1>1, <1>3, <2>1
<1> DEFINE X == IF LeftOf(p, un) = {} THEN Using(<<p, "table">>) ELSE {}
           Y == Using(<<p, "root">>)
<1>6. /\ X \in SUBSET Frame /\ Y \in SUBSET Frame
      /\ \A f \in X : \E u \in uses[f] : u[1] = p /\ u[2] = "table"
      /\ \A f \in Y : \E u \in uses[f] : u[1] = p /\ u[2] = "root"
  BY Zenon DEF Using
<1>7. X \cap Y = {} /\ Range(un) \cap (X \cup Y) = {}
  BY SMTT(30), <1>2, <1>5, <1>6
<1>8. /\ Ascending(X) \in Seq(Frame) /\ IsInjective(Ascending(X)) /\ Range(Ascending(X)) = X
      /\ Ascending(Y) \in Seq(Frame) /\ IsInjective(Ascending(Y)) /\ Range(Ascending(Y)) = Y
  BY <1>6, AscendingLists
<1> DEFINE tables == Ascending(X) \o Ascending(Y)
<1>9. tables = TablesOf(p, LeftOf(p, un))
  BY DEF TablesOf
<1> HIDE DEF X, Y
<1>10. tables \in Seq(Frame) /\ IsInjective(tables) /\ Range(tables) = X \cup Y
  <2>1. JoinedWell(Frame, Ascending(X), Ascending(Y))
    <3>1. Range(Ascending(X)) \cap Range(Ascending(Y)) = {}
      BY <1>7, <1>8
    <3> QED BY <3>1, <1>8, JoinsWell, Zenon
  <2> QED BY <1>8, <2>1 DEF JoinedWell
<1> HIDE DEF tables
<1> DEFINE more == IF Len(un) = n THEN tables ELSE <<>>
<1>11. /\ more \in Seq(Frame) /\ IsInjective(more) /\ Range(more) \subseteq X \cup Y
       /\ Len(un) = n => Range(more) = X \cup Y
  BY <1>10 DEF IsInjective, Range
<1>12. FreedOf(p, un, n) = un \o more
  BY <1>9 DEF FreedOf
<1> HIDE DEF more
<1>13. /\ un \o more \in Seq(Frame)
       /\ IsInjective(un \o more) /\ Range(un \o more) = Range(un) \cup Range(more)
  <2>1. Range(un) \cap Range(more) = {}
    BY <1>7, <1>11
  <2>2. JoinedWell(Frame, un, more)
    BY <1>1, <1>4, <1>11, <2>1, JoinsWell, Zenon
  <2> QED BY <2>2 DEF JoinedWell
<1>14. Range(un) \cup Range(more) \subseteq Owned(p)
  BY Zenon, <1>5, <1>6, <1>11 DEF Owned
<1>15. Len(un) = n => Range(un \o more) = Range(un) \cup X \cup Y
  BY <1>11, <1>13
<1> QED BY <1>12, <1>13, <1>14, <1>15 DEF X, Y

(* A range of pages. *)
LEMMA PagesType ==
  ASSUME NEW first \in Nat, NEW last \in Int, last >= first - 1
  PROVE  /\ Pages(first, last) \in Seq(Nat) /\ IsInjective(Pages(first, last))
         /\ Len(Pages(first, last)) = last - first + 1
         /\ \A i \in 1 .. last - first + 1 : Pages(first, last)[i] = first + i - 1
         /\ Range(Pages(first, last)) = first .. last
<1> DEFINE N == last - first + 1
           s == [i \in 1 .. N |-> first + i - 1]
<1>1. N \in Nat
  OBVIOUS
<1>2. \A i \in 1 .. N : first + i - 1 \in Nat /\ first + i - 1 \in first .. last
  OBVIOUS
<1>3. s \in Seq(Nat) /\ Len(s) = N /\ DOMAIN s = 1 .. N /\ \A i \in 1 .. N : s[i] = first + i - 1
  <2> HIDE DEF N
  <2> QED BY <1>1, <1>2
<1>4. \A i, j \in 1 .. N : first + i - 1 = first + j - 1 => i = j
  OBVIOUS
<1>5. \A x \in first .. last : x - first + 1 \in 1 .. N /\ first + (x - first + 1) - 1 = x
  OBVIOUS
<1>6. Pages(first, last) = s
  BY DEF Pages
<1> HIDE DEF s, N
<1>7. IsInjective(s)
  BY <1>3, <1>4 DEF IsInjective
<1>8. Range(s) = first .. last
  <2>1. \A i \in 1 .. N : s[i] \in first .. last
    BY <1>2, <1>3
  <2>2. \A x \in first .. last : s[x - first + 1] = x
    BY <1>3, <1>5
  <2>3. \A x \in first .. last : \E i \in 1 .. N : x = s[i]
    BY <1>5, <2>2, Zenon
  <2> QED BY <1>3, <2>1, <2>3, Zenon DEF Range
<1> QED BY <1>3, <1>6, <1>7, <1>8 DEF N

(* The numbers of a segment of an image.                                   *)
Segment(s) ==
  /\ vaddr(s) \in Nat /\ offset(s) \in Nat /\ file_size(s) \in Nat /\ mem_size(s) \in Nat
  /\ vaddr(s) % PAGE = 0 /\ offset(s) % PAGE = 0
  /\ file_size(s) <= mem_size(s) /\ vaddr(s) + file_size(s) > 0

(* Image holds sequences of such segments.                                 *)
LEMMA Segments ==
  ASSUME NEW image \in Image
  PROVE  /\ image \in Seq(Nat \X Nat \X Nat \X Nat)
         /\ Len(image) \in Nat /\ DOMAIN image = 1 .. Len(image)
         /\ \A i \in 1 .. Len(image) : Segment(image[i])
<1>1. image \in Seq(Nat \X Nat \X Nat \X Nat)
  BY LoaderAssumption
<1>2. /\ Len(image) \in Nat /\ DOMAIN image = 1 .. Len(image)
      /\ \A i \in 1 .. Len(image) : image[i] \in Nat \X Nat \X Nat \X Nat
  BY <1>1
<1>3. ASSUME NEW i \in 1 .. Len(image) PROVE Segment(image[i])
  <2>1. image[i] \in Range(image)
    BY Zenon, <1>2 DEF Range
  <2>2. /\ vaddr(image[i]) % PAGE = 0 /\ offset(image[i]) % PAGE = 0
        /\ file_size(image[i]) <= mem_size(image[i])
        /\ vaddr(image[i]) + file_size(image[i]) > 0
    BY Zenon, <2>1, LoaderAssumption
  <2>3. /\ vaddr(image[i]) \in Nat /\ offset(image[i]) \in Nat
        /\ file_size(image[i]) \in Nat /\ mem_size(image[i]) \in Nat
    BY <1>2 DEF vaddr, offset, file_size, mem_size
  <2> QED BY <2>2, <2>3 DEF Segment
<1> QED BY <1>1, <1>2, <1>3

(* Pages of addresses.                                                     *)
LEMMA Dividing ==
  ASSUME NEW a \in Nat, NEW d \in Nat \ {0}
  PROVE  /\ a \div d \in Nat /\ a % d \in 0 .. d - 1
         /\ a = (a \div d) * d + (a % d)
OBVIOUS

(* Division keeps the order.                                               *)
LEMMA DividingMonotone ==
  ASSUME NEW a \in Nat, NEW b \in Nat, NEW d \in Nat \ {0}, a <= b
  PROVE  a \div d <= b \div d
OBVIOUS

(* The pages load_segment reports. *)
LEMMA CodeRangeType ==
  ASSUME NEW s, Segment(s)
  PROVE  /\ CodeRange(s) \in Seq(Nat) /\ IsInjective(CodeRange(s))
         /\ Range(CodeRange(s)) = vaddr(s) \div PAGE .. (vaddr(s) + mem_size(s) - 1) \div PAGE
<1> DEFINE v == vaddr(s)
           m == mem_size(s)
<1>1. v \in Nat /\ m \in Nat /\ v + m - 1 \in Nat /\ PAGE \in Nat \ {0} /\ v % PAGE = 0
  BY LoaderAssumption DEF Segment
<1> DEFINE first == v \div PAGE
           last == (v + m - 1) \div PAGE
<1> HIDE DEF v, m
<1>2. first \in Nat /\ last \in Nat
  BY <1>1, Dividing
<1>3. last >= first - 1
  <2>1. CASE m = 0
    <3>1. v - 1 \in Nat /\ v = first * PAGE
      BY <1>1, <2>1, Dividing
    <3>2. last = (v - 1) \div PAGE
      BY <1>1, <2>1
    <3> QED BY <1>1, <1>2, <3>1, <3>2
  <2>2. CASE m # 0
    <3>1. v <= v + m - 1
      BY <1>1, <2>2
    <3>2. first <= last
      BY <1>1, <3>1, DividingMonotone
    <3> QED BY <1>2, <3>2
  <2> QED BY <2>1, <2>2
<1>4. CodeRange(s) = Pages(first, last)
  BY DEF CodeRange, containing, v, m
<1> HIDE DEF first, last
<1>5. /\ Pages(first, last) \in Seq(Nat) /\ IsInjective(Pages(first, last))
      /\ Range(Pages(first, last)) = first .. last
  BY <1>2, <1>3, PagesType
<1> QED BY Zenon, <1>4, <1>5 DEF first, last, v, m

(* The pages a process gives back when it exits. *)
LEMMA ExitPagesType ==
  ASSUME NEW p, code[p].image \in Image
  PROVE  LET image == code[p].image
             lists == [i \in DOMAIN image |-> CodeRange(image[i])]
         IN  /\ lists \in Seq(Seq(Nat)) /\ Len(lists) = Len(image)
             /\ Flatten(lists) \in Seq(Nat)
             /\ ExitPages(p) = <<STACK_PAGE>> \o Flatten(lists)
             /\ ExitPages(p) \in Seq(Nat) /\ Len(ExitPages(p)) \in Nat
<1> DEFINE image == code[p].image
           lists == [i \in DOMAIN image |-> CodeRange(image[i])]
<1> HIDE DEF image
<1>1. /\ Len(image) \in Nat /\ DOMAIN image = 1 .. Len(image)
      /\ \A i \in 1 .. Len(image) : Segment(image[i])
  BY Segments DEF image
<1>2. \A i \in 1 .. Len(image) : CodeRange(image[i]) \in Seq(Nat)
  BY <1>1, CodeRangeType
<1>3. lists \in Seq(Seq(Nat)) /\ Len(lists) = Len(image)
  BY <1>1, <1>2
<1>4. ExitPages(p) = <<STACK_PAGE>> \o Flatten(lists)
  BY DEF ExitPages, image
<1> HIDE DEF lists
<1>5. Flatten(lists) \in Seq(Nat)
  BY <1>3, FlattenRange
<1>6. <<STACK_PAGE>> \in Seq(Nat)
  BY LoaderAssumption
<1>7. <<STACK_PAGE>> \o Flatten(lists) \in Seq(Nat)
  BY <1>5, <1>6, Joined
<1>8. Len(ExitPages(p)) \in Nat
  BY SMTT(30), <1>4, <1>7
<1> QED BY Zenon, <1>3, <1>4, <1>5, <1>7, <1>8 DEF lists, image

(* The frames of a process come back. *)
LEMMA ExitFreed ==
  ASSUME FrameInv, NEW p \in Proc, code[p].status = "loaded"
  PROVE  /\ Freed(p) \in Seq(Frame) /\ IsInjective(Freed(p))
         /\ Range(Freed(p)) \subseteq Owned(p)
<1>1. code[p].image \in Image
  BY Zenon DEF FrameInv, Shape
<1>2. Len(ExitPages(p)) \in Nat
  BY Zenon, <1>1, ExitPagesType
<1>3. IsUnmapped(p, ExitPages(p), unmap_range(p, ExitPages(p)))
  BY <1>2, UnmapRange
<1> QED BY Zenon, <1>3, FreedFrames DEF Freed

(* Giving the frames of a process back keeps the invariant.                *)
LEMMA Exit == ASSUME FrameInv, NEW p \in Proc, exit(p) PROVE FrameInv'
<1> DEFINE fr == Freed(p)
           G == Range(fr)
<1>1. /\ phase = "run" /\ job = Idle /\ code[p].status = "loaded"
      /\ recycled' = recycled \o fr
      /\ uses' = [f \in Frame |-> IF f \in G THEN {u \in uses[f] : u[1] # p} ELSE uses[f]]
      /\ code' = [code EXCEPT ![p].status = "exited"]
      /\ phase' = phase /\ map' = map /\ mem' = mem /\ job' = job /\ frames' = frames /\ used' = used
  BY ExitIs DEF bootVars
<1>2. fr \in Seq(Frame) /\ IsInjective(fr) /\ G \subseteq Owned(p)
  BY <1>1, ExitFreed
<1> HIDE DEF fr
<1>3. /\ recycled \in Seq(Frame) /\ frames \in Seq(Frame) /\ used \in Int
      /\ code \in [Proc -> [status : {"none", "loaded", "exited"}, image : Image \cup {<<>>}]]
      /\ \A q \in Proc : code[q].status # "none" => code[q].image \in Image
      /\ \A f \in Frame : \A u, v \in uses[f] : u = v
      /\ IsInjective(Pool)
      /\ Range(Pool) \subseteq Conventional \ InUse
      /\ frames_in_use = Cardinality(InUse)
      /\ \A q \in Proc : Owned(q) \subseteq InUse
  BY Zenon, <1>1 DEF FrameInv, Shape, OneUse, AtRun
<1>4. G \subseteq InUse /\ G \subseteq Frame /\ InUse \subseteq Conventional /\ Conventional \subseteq Frame
  BY <1>2, <1>3 DEF InUse, Conventional
<1>5. /\ \A f \in G : uses'[f] = {}
      /\ \A f \in Frame \ G : uses'[f] = uses[f]
      /\ \A f \in Frame : uses'[f] \subseteq uses[f]
  <2>1. \A f \in G : \E u \in uses[f] : u[1] = p
    BY Zenon, <1>2 DEF Owned
  <2> QED BY <1>1, <1>3, <1>4, <2>1
<1>6. Conventional' = Conventional /\ InUse' = InUse \ G
  <2>1. Conventional' = Conventional
    BY <1>1 DEF Conventional
  <2> QED BY <1>4, <1>5, <2>1 DEF InUse
<1>7. /\ IsInjective(Pool') /\ Range(Pool') = Range(Pool) \cup G
      /\ recycled' \in Seq(Frame) /\ Len(recycled') = Len(recycled) + Len(fr)
  <2>1. Pool = Stacked(recycled, frames) /\ Pool' = Stacked(recycled \o fr, frames)
    BY <1>1, Zenon DEF Pool, Stacked
  <2>2. IsInjective(Stacked(recycled, frames)) /\ Range(fr) \cap Range(Stacked(recycled, frames)) = {}
    BY Zenon, <1>3, <1>4, <2>1
  <2>3. /\ IsInjective(Stacked(recycled \o fr, frames))
        /\ Range(Stacked(recycled \o fr, frames)) = Range(Stacked(recycled, frames)) \cup Range(fr)
        /\ recycled \o fr \in Seq(Frame) /\ Len(recycled \o fr) = Len(recycled) + Len(fr)
    <3>1. recycled \in Seq(Frame) /\ frames \in Seq(Frame) /\ fr \in Seq(Frame) /\ IsInjective(fr)
      BY Zenon, <1>2, <1>3
    <3> QED BY ONLY <3>1, <2>2, PoolGrows
  <2> QED BY <1>1, <2>1, <2>3
<1>8. frames_in_use' = Cardinality(InUse')
  <2>1. IsFiniteSet(InUse) /\ Cardinality(InUse) \in Nat
    BY ZenonT(30), <1>4, FinitelyMany
  <2>2. Cardinality(G) = Len(fr) /\ Len(fr) \in Nat /\ Len(recycled) \in Nat
    BY <1>2, <1>3, CountInjective
  <2>3. Cardinality(InUse \ G) = Cardinality(InUse) - Cardinality(InUse \cap G)
    BY <2>1, FS_Difference, Zenon
  <2>4. InUse \cap G = G
    BY SMTT(30), <1>4
  <2>5. used - Len(recycled) = Cardinality(InUse)
    BY Zenon, <1>3 DEF frames_in_use
  <2>6. used' - Len(recycled') = Cardinality(InUse) - Cardinality(G)
    BY ONLY <1>1, <1>7, <2>1, <2>2, <2>5, <1>3
  <2> QED BY Zenon, <1>6, <2>3, <2>4, <2>6 DEF frames_in_use
<1>9. AtRun'
  <2>1. Range(Pool') \subseteq Conventional' \ InUse'
    BY Zenon, <1>3, <1>4, <1>6, <1>7
  <2>2. ASSUME NEW q \in Proc PROVE Owned(q)' \subseteq InUse'
    <3>1. Owned(q)' \subseteq Owned(q) /\ Owned(q)' \cap G = {}
      BY <1>5 DEF Owned
    <3> QED BY ZenonT(30), <1>3, <1>6, <3>1
  <2> QED BY Zenon, <1>7, <1>8, <2>1, <2>2 DEF AtRun
<1>10. Shape'
  <2>1. code' \in [Proc -> [status : {"none", "loaded", "exited"}, image : Image \cup {<<>>}]]
    BY <1>1, <1>3
  <2>2. \A q \in Proc : code'[q].status # "none" => code'[q].image \in Image
    BY Zenon, <1>1, <1>3
  <2> QED BY Zenon, <1>1, <1>7, <2>1, <2>2 DEF FrameInv, Shape
<1>11. OneUse'
  BY <1>3, <1>5 DEF OneUse
<1>12. Jobs' /\ ElfInMemory' /\ InBoot'
  BY <1>1 DEF FrameInv, Jobs, ElfInMemory, InBoot
<1> QED BY <1>9, <1>10, <1>11, <1>12 DEF FrameInv

-----------------------------------------------------------------------------
(* The invariant of frames holds initially.                                *)
LEMMA FramesInit == Init => FrameInv
<1> SUFFICES ASSUME Init PROVE FrameInv
  BY Zenon
<1>1. /\ phase = "config" /\ job = Idle
      /\ map = [f \in Frame |-> IF f \in Reserved THEN "RESERVED" ELSE "CONVENTIONAL"]
      /\ uses = [f \in Frame |-> IF f \in Reserved THEN {<<"firmware">>} ELSE {}]
      /\ mem = [f \in Frame |-> [from |-> 0, count |-> 0, zeroed |-> FALSE]]
      /\ code = [p \in Proc |-> [status |-> "none", image |-> <<>>]]
      /\ frames = <<>> /\ recycled = <<>> /\ used = 0
  BY DEF Init
<1>2. Shape
  <2>1. code \in [Proc -> [status : {"none", "loaded", "exited"}, image : Image \cup {<<>>}]]
    BY Zenon, <1>1
  <2> QED BY <1>1, <2>1 DEF Shape
<1>3. Jobs /\ AtRun
  BY <1>1 DEF Jobs, AtRun
<1> DEFINE fw == <<"firmware">>
<1>4. fw # <<"elf">> /\ fw[1] \notin Proc
  BY Zenon, LoaderAssumption
<1>5. uses = [f \in Frame |-> IF f \in Reserved THEN {fw} ELSE {}]
  BY <1>1
<1> HIDE DEF fw
<1>6. OneUse
  BY Zenon, <1>5 DEF OneUse
<1>7. ElfInMemory
  BY Zenon, <1>1, <1>4, <1>5 DEF ElfInMemory, Using
<1>8. InBoot
  BY <1>1, <1>4, <1>5 DEF InBoot, Conventional, Owned
<1> QED BY Zenon, <1>2, <1>3, <1>6, <1>7, <1>8 DEF FrameInv

(* Every step keeps the invariant of frames.                               *)
LEMMA FramesStep == FrameInv /\ [Next]_vars => FrameInv'
<1> SUFFICES ASSUME FrameInv, [Next]_vars PROVE FrameInv'
  OBVIOUS
<1>1. CASE UNCHANGED vars
  <2>1. /\ phase' = phase /\ map' = map /\ uses' = uses /\ mem' = mem /\ job' = job /\ code' = code
        /\ frames' = frames /\ recycled' = recycled /\ used' = used
    BY Zenon, <1>1 DEF vars, bootVars, allocVars
  <2>2. Shape' /\ Jobs' /\ OneUse'
    BY Zenon, <2>1 DEF FrameInv, Shape, Jobs, OneUse, KernelJob, ProcJob
  <2>3. /\ Conventional' = Conventional /\ Using(<<"elf">>)' = Using(<<"elf">>)
        /\ \A p \in Proc : Owned(p)' = Owned(p)
    BY Zenon, <2>1 DEF Conventional, Using, Owned
  <2>4. Pool' = Pool /\ frames_in_use' = frames_in_use /\ InUse' = InUse
    BY SMTT(30), <2>1, <2>3 DEF Pool, frames_in_use, InUse
  <2>5. ElfInMemory' /\ InBoot' /\ AtRun'
    BY Zenon, <2>1, <2>3, <2>4 DEF FrameInv, ElfInMemory, InBoot, AtRun
  <2> QED BY <2>2, <2>5 DEF FrameInv
<1>2. ASSUME NEW p \in Proc, exit(p) \/ \E image \in Image : spawn(p, image) PROVE FrameInv'
  BY <1>2, Exit, Spawn
<1> QED
  BY Zenon, <1>1, <1>2, LoadConfig, LoadKernel, LoadApps, AppsLoaded, MapPhysicalMemory, MapPage,
     FreeElf, ExitBootServices, InitMemory, Loaded DEF Next

(* The invariant of frames always holds.                                   *)
LEMMA FramesInvariant == Spec => []FrameInv
BY FramesInit, FramesStep, PTL DEF Spec

(* FramesAccounted holds in every reachable state: no frame has two uses,  *)
(* what load_file, map_to or the kernel's allocator may hand out has none, *)
(* and the number that print_process_list shows is that of the frames in   *)
(* use, however many processes were spawned, exited or failed to load.     *)
THEOREM AllFramesAccounted == Spec => []FramesAccounted
<1>1. ASSUME FrameInv PROVE FramesAccounted
  <2>1. ASSUME NEW f \in Frame PROVE Cardinality(uses[f]) <= 1
    <3>1. \A u, v \in uses[f] : u = v
      BY Zenon, <1>1 DEF FrameInv, OneUse
    <3>2. CASE uses[f] = {}
      BY <3>2, FS_EmptySet
    <3>3. CASE uses[f] # {}
      <4>1. PICK u : uses[f] = {u}
        BY <3>1, <3>3
      <4>2. Cardinality({u}) = 1
        BY FS_Singleton
      <4> QED BY <4>1, <4>2
    <3> QED BY SMTT(30), <3>2, <3>3
  <2>2. phase \notin {"run", "panic"} => \A f \in Conventional : uses[f] = {}
    BY Zenon, <1>1 DEF FrameInv, InBoot
  <2>3. ASSUME phase = "run"
        PROVE  /\ IsInjective(Pool)
               /\ \A f \in Range(Pool) : uses[f] = {}
               /\ frames_in_use = Cardinality({f \in Conventional : uses[f] # {}})
    BY <1>1, <2>3 DEF FrameInv, AtRun, InUse
  <2> QED BY Zenon, <2>1, <2>2, <2>3 DEF FramesAccounted
<1> QED BY <1>1, FramesInvariant, PTL
=============================================================================
