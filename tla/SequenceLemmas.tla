--------------------------- MODULE SequenceLemmas ---------------------------
(***************************************************************************)
(* Facts about numbers and sequences that the proofs of several components *)
(* use and the library of TLAPS does not state.                            *)
(***************************************************************************)
EXTENDS Integers, SequencesExt, SequenceTheorems, WellFoundedInduction, TLAPS

-----------------------------------------------------------------------------
(* Numbers *)

(* Less is the order of the natural numbers as a relation. *)
Less == {p \in Nat \X Nat : p[1] < p[2]}

(* The order of the natural numbers is well founded. *)
LEMMA LessWellFounded == IsWellFoundedOn(Less, Nat)
  <1>1. OpToRel(<, Nat) = Less
    BY DEF OpToRel, Less
  <1> QED BY <1>1, NatLessThanWellFounded

(* A non-empty set of natural numbers has a least element. *)
LEMMA LeastElement ==
  ASSUME NEW S \in SUBSET Nat, S # {}
  PROVE  \E n \in S : \A m \in S : n <= m
  <1>1. PICK n \in S : \A m \in S : ~ (<<m, n>> \in Less)
    BY LessWellFounded, WFMin
  <1>2. ASSUME NEW m \in S PROVE n <= m
    <2>1. m \in Nat /\ n \in Nat
      OBVIOUS
    <2>2. ~ (<<m, n>> \in Less)
      BY <1>1
    <2>3. ~ (m < n)
      BY <2>1, <2>2 DEF Less
    <2> QED BY <2>1, <2>3
  <1> QED BY <1>2

(* One that is bounded has a greatest. *)
LEMMA GreatestElement ==
  ASSUME NEW b \in Nat, NEW S \in SUBSET 0..b, S # {}
  PROVE  Max(S) \in S /\ \A m \in S : m <= Max(S)
  <1> DEFINE T == {n \in Nat : \E m \in S : n = b - m}
  <1>1. T \in SUBSET Nat /\ T # {}
    <2>1. PICK m : m \in S
      OBVIOUS
    <2>2. b - m \in Nat
      BY <2>1
    <2>3. b - m \in T
      BY <2>1, <2>2
    <2> QED BY <2>3
  <1>2. PICK n \in T : \A k \in T : n <= k
    <2> HIDE DEF T
    <2> QED BY <1>1, LeastElement
  <1>3. PICK x \in S : n = b - x
    BY <1>2
  <1>4. ASSUME NEW m \in S PROVE x >= m
    <2>1. m \in 0..b /\ x \in 0..b /\ b - m \in Nat
      OBVIOUS
    <2>2. b - m \in T
      BY <2>1
    <2>3. b - x <= b - m
      BY <1>2, <1>3, <2>2
    <2> QED BY <2>1, <2>3
  <1>5. \E y \in S : \A m \in S : y >= m
    BY <1>4
  <1>6. Max(S) \in S /\ \A m \in S : Max(S) >= m
    BY <1>5 DEF Max
  <1>7. ASSUME NEW m \in S PROVE m <= Max(S)
    <2> DEFINE g == Max(S)
    <2>1. g \in 0..b /\ m \in 0..b /\ g >= m
      BY <1>6
    <2> HIDE DEF g
    <2>2. m <= g
      BY <2>1
    <2> QED BY <2>2 DEF g
  <1> QED BY <1>6, <1>7

-----------------------------------------------------------------------------
(* Sequences *)

(* r is q with e put in the i-th place *)
IsInserted(r, q, i, e) ==
    /\ Len(r) = Len(q) + 1
    /\ \A j \in 1..(i - 1) : r[j] = q[j]
    /\ r[i] = e
    /\ \A j \in i..Len(q) : r[j + 1] = q[j]

(* r is q without its i-th element *)
IsRemoved(r, q, i) ==
    /\ Len(r) = Len(q) - 1
    /\ \A j \in 1..(i - 1) : r[j] = q[j]
    /\ \A j \in i..(Len(q) - 1) : r[j] = q[j + 1]

(* r consists of a followed by c *)
Follows(r, a, c) ==
    /\ Len(r) = Len(a) + Len(c)
    /\ \A j \in 1..Len(a) : r[j] = a[j]
    /\ \A j \in 1..Len(c) : r[Len(a) + j] = c[j]

(* Concatenation, said of its parts. *)
LEMMA ConcatParts ==
  ASSUME NEW S, NEW a \in Seq(S), NEW c \in Seq(S)
  PROVE  a \o c \in Seq(S) /\ Follows(a \o c, a, c)
  <1>1. Len(a) \in Nat /\ Len(c) \in Nat
    OBVIOUS
  <1>2. /\ a \o c \in Seq(S) /\ Len(a \o c) = Len(a) + Len(c)
        /\ \A i \in 1..(Len(a) + Len(c)) :
              (a \o c)[i] = IF i <= Len(a) THEN a[i] ELSE c[i - Len(a)]
    BY ConcatProperties
  <1>3. ASSUME NEW j \in 1..Len(a) PROVE (a \o c)[j] = a[j]
    <2>1. j \in 1..(Len(a) + Len(c)) /\ j <= Len(a)
      BY <1>1
    <2> QED BY <1>2, <2>1
  <1>4. ASSUME NEW j \in 1..Len(c) PROVE (a \o c)[Len(a) + j] = c[j]
    <2>1. Len(a) + j \in 1..(Len(a) + Len(c)) /\ ~ (Len(a) + j <= Len(a)) /\ (Len(a) + j) - Len(a) = j
      BY <1>1
    <2> QED BY <1>2, <2>1
  <1> QED BY <1>2, <1>3, <1>4 DEF Follows

(* A part of a sequence. *)
LEMMA SubSeqParts ==
  ASSUME NEW S, NEW q \in Seq(S), NEW m \in 1..(Len(q) + 1), NEW n \in (m - 1)..Len(q)
  PROVE  /\ SubSeq(q, m, n) \in Seq(S) /\ Len(SubSeq(q, m, n)) = n - m + 1
         /\ \A j \in 1..(n - m + 1) : SubSeq(q, m, n)[j] = q[m + j - 1]
  <1>1. Len(q) \in Nat
    OBVIOUS
  <1>2. \A j \in 1..(n - m + 1) : m + j - 1 \in 1..Len(q)
    BY <1>1
  <1> QED BY <1>1, <1>2

(* InsertAt() inserts. *)
LEMMA InsertAtInserts ==
  ASSUME NEW S, NEW q \in Seq(S), NEW i \in 1..(Len(q) + 1), NEW e \in S
  PROVE  InsertAt(q, i, e) \in Seq(S) /\ IsInserted(InsertAt(q, i, e), q, i, e)
  <1> DEFINE a == SubSeq(q, 1, i - 1)
             b == <<e>>
             c == SubSeq(q, i, Len(q))
             ab == a \o b
             r == ab \o c
  <1>1. Len(q) \in Nat
    OBVIOUS
  <1>2. a \in Seq(S) /\ Len(a) = i - 1 /\ \A j \in 1..(i - 1) : a[j] = q[j]
    <2>1. 1 \in 1..(Len(q) + 1) /\ i - 1 \in (1 - 1)..Len(q) /\ i - 1 - 1 + 1 = i - 1
          /\ \A j \in 1..(i - 1) : 1 + j - 1 = j
      BY <1>1
    <2> QED BY <2>1, SubSeqParts
  <1>3. c \in Seq(S) /\ Len(c) = Len(q) - i + 1 /\ \A j \in 1..(Len(q) - i + 1) : c[j] = q[i + j - 1]
    <2>1. Len(q) \in (i - 1)..Len(q)
      BY <1>1
    <2> QED BY <2>1, SubSeqParts
  <1>4. b \in Seq(S) /\ Len(b) = 1 /\ b[1] = e
    OBVIOUS
  <1> HIDE DEF a, b, c
  <1>5. /\ ab \in Seq(S) /\ Len(ab) = i
        /\ \A j \in 1..(i - 1) : ab[j] = a[j]
        /\ ab[i] = e
    <2>1. /\ ab \in Seq(S) /\ Len(ab) = Len(a) + Len(b)
          /\ \A j \in 1..Len(a) : ab[j] = a[j]
          /\ \A j \in 1..Len(b) : ab[Len(a) + j] = b[j]
      <3>1. a \in Seq(S) /\ b \in Seq(S)
        BY <1>2, <1>4
      <3>2. ab \in Seq(S) /\ Follows(ab, a, b)
        BY <3>1, ConcatParts
      <3> HIDE DEF ab
      <3> QED BY <3>2 DEF Follows
    <2>2. 1 \in 1..Len(b) /\ Len(a) + 1 = i
      BY <1>1, <1>2, <1>4
    <2> HIDE DEF ab
    <2> QED BY <1>1, <1>2, <1>4, <2>1, <2>2
  <1> HIDE DEF ab
  <1>6. /\ r \in Seq(S) /\ Len(r) = i + (Len(q) - i + 1)
        /\ \A j \in 1..i : r[j] = ab[j]
        /\ \A j \in 1..(Len(q) - i + 1) : r[i + j] = c[j]
    <2>1. /\ r \in Seq(S) /\ Len(r) = Len(ab) + Len(c)
          /\ \A j \in 1..Len(ab) : r[j] = ab[j]
          /\ \A j \in 1..Len(c) : r[Len(ab) + j] = c[j]
      <3>1. ab \in Seq(S) /\ c \in Seq(S)
        BY <1>3, <1>5
      <3>2. r \in Seq(S) /\ Follows(r, ab, c)
        BY <3>1, ConcatParts
      <3> HIDE DEF r
      <3> QED BY <3>2 DEF Follows
    <2> HIDE DEF r
    <2> QED BY <1>3, <1>5, <2>1
  <1> HIDE DEF r
  <1>7. r[i] = e /\ \A j \in 1..(i - 1) : r[j] = q[j]
    <2>1. i \in 1..i /\ \A j \in 1..(i - 1) : j \in 1..i
      BY <1>1
    <2> QED BY <1>2, <1>5, <1>6, <2>1
  <1>8. ASSUME NEW j \in i..Len(q) PROVE r[j + 1] = q[j]
    <2>1. j - i + 1 \in 1..(Len(q) - i + 1) /\ i + (j - i + 1) = j + 1 /\ i + (j - i + 1) - 1 = j
      BY <1>1
    <2>2. r[i + (j - i + 1)] = c[j - i + 1] /\ c[j - i + 1] = q[i + (j - i + 1) - 1]
      BY <1>3, <1>6, <2>1
    <2> QED BY <2>1, <2>2
  <1>9. Len(r) = Len(q) + 1
    BY <1>1, <1>6
  <1>10. IsInserted(r, q, i, e)
    BY <1>7, <1>8, <1>9 DEF IsInserted
  <1>11. r = InsertAt(q, i, e)
    BY DEF r, ab, a, b, c, InsertAt
  <1> QED BY <1>6, <1>10, <1>11

(* RemoveAt() removes. *)
LEMMA RemoveAtRemoves ==
  ASSUME NEW S, NEW q \in Seq(S), NEW i \in 1..Len(q)
  PROVE  RemoveAt(q, i) \in Seq(S) /\ IsRemoved(RemoveAt(q, i), q, i)
  <1> DEFINE a == SubSeq(q, 1, i - 1)
             c == SubSeq(q, i + 1, Len(q))
             r == a \o c
  <1>1. Len(q) \in Nat
    OBVIOUS
  <1>2. a \in Seq(S) /\ Len(a) = i - 1 /\ \A j \in 1..(i - 1) : a[j] = q[j]
    <2>1. 1 \in 1..(Len(q) + 1) /\ i - 1 \in (1 - 1)..Len(q) /\ i - 1 - 1 + 1 = i - 1
          /\ \A j \in 1..(i - 1) : 1 + j - 1 = j
      BY <1>1
    <2> QED BY <2>1, SubSeqParts
  <1>3. c \in Seq(S) /\ Len(c) = Len(q) - i /\ \A j \in 1..(Len(q) - i) : c[j] = q[i + j]
    <2>1. /\ i + 1 \in 1..(Len(q) + 1) /\ Len(q) \in ((i + 1) - 1)..Len(q)
          /\ Len(q) - (i + 1) + 1 = Len(q) - i
          /\ \A j \in 1..(Len(q) - i) : (i + 1) + j - 1 = i + j
      BY <1>1
    <2> QED BY <2>1, SubSeqParts
  <1> HIDE DEF a, c
  <1>4. /\ r \in Seq(S) /\ Len(r) = (i - 1) + (Len(q) - i)
        /\ \A j \in 1..(i - 1) : r[j] = a[j]
        /\ \A j \in 1..(Len(q) - i) : r[(i - 1) + j] = c[j]
    <2>1. /\ r \in Seq(S) /\ Len(r) = Len(a) + Len(c)
          /\ \A j \in 1..Len(a) : r[j] = a[j]
          /\ \A j \in 1..Len(c) : r[Len(a) + j] = c[j]
      <3>1. a \in Seq(S) /\ c \in Seq(S)
        BY <1>2, <1>3
      <3>2. r \in Seq(S) /\ Follows(r, a, c)
        BY <3>1, ConcatParts
      <3> HIDE DEF r
      <3> QED BY <3>2 DEF Follows
    <2> HIDE DEF r
    <2> QED BY <1>2, <1>3, <2>1
  <1> HIDE DEF r
  <1>5. ASSUME NEW j \in i..(Len(q) - 1) PROVE r[j] = q[j + 1]
    <2>1. j - i + 1 \in 1..(Len(q) - i) /\ (i - 1) + (j - i + 1) = j /\ i + (j - i + 1) = j + 1
      BY <1>1
    <2>2. r[(i - 1) + (j - i + 1)] = c[j - i + 1] /\ c[j - i + 1] = q[i + (j - i + 1)]
      BY <1>3, <1>4, <2>1
    <2> QED BY <2>1, <2>2
  <1>6. Len(r) = Len(q) - 1
    BY <1>1, <1>4
  <1>7. IsRemoved(r, q, i)
    BY <1>2, <1>4, <1>5, <1>6 DEF IsRemoved
  <1>8. r = RemoveAt(q, i)
    BY DEF r, a, c, RemoveAt
  <1> QED BY <1>4, <1>7, <1>8
=============================================================================
