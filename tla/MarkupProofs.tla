---------------------------- MODULE MarkupProofs ----------------------------
(***************************************************************************)
(* For every source whose tags pair: its elements begin at different       *)
(* places, one for every number up to their count, and end within it; and  *)
(* splicing paired tags for a range that opens nothing in the end leaves a *)
(* source whose tags pair, with all other elements in their places; where  *)
(* the tags nest, they nest afterwards.  And for every sequence: where     *)
(* splicing puts its parts.                                                *)
(***************************************************************************)
EXTENDS Markup, FiniteSetTheorems, SequenceTheorems, TLAPS

(* A non-empty set of naturals within a bound has its minimum.             *)
LEMMA MinBounded ==
  ASSUME NEW bound \in Nat, NEW S \in SUBSET (0..bound), S # {}
  PROVE  Min(S) \in S /\ \A y \in S : Min(S) <= y
<1> DEFINE Below(x) == 0..x - 1
           T == {Below(x) : x \in S}
<1>1. T \subseteq FiniteSubsetsOf(0..bound)
  <2> SUFFICES ASSUME NEW x \in S
               PROVE  Below(x) \in FiniteSubsetsOf(0..bound)
    OBVIOUS
  <2>1. IsFiniteSet(Below(x))
    <3>1. x - 1 \in Int
      OBVIOUS
    <3> QED BY <3>1, FS_Interval
  <2>2. Below(x) \subseteq 0..bound
    OBVIOUS
  <2> QED BY <2>1, <2>2 DEF FiniteSubsetsOf
<1>2. PICK A \in T : \A B \in T : <<B, A>> \notin StrictSubsetOrdering(0..bound)
  <2>1. T # {}
    OBVIOUS
  <2>2. IsWellFoundedOn(StrictSubsetOrdering(0..bound), FiniteSubsetsOf(0..bound))
    BY FS_StrictSubsetOrderingWellFounded
  <2> HIDE DEF T
  <2> QED BY <1>1, <2>1, <2>2, WFMin
<1>3. PICK m \in S : A = Below(m)
  BY <1>2
<1>4. \A y \in S : m <= y
  <2> SUFFICES ASSUME NEW y \in S, y < m
               PROVE  FALSE
    OBVIOUS
  <2>1. Below(y) \subseteq A /\ y \in A /\ y \notin Below(y)
    BY <1>3
  <2>2. <<Below(y), A>> \in StrictSubsetOrdering(0..bound)
    BY <1>3, <2>1 DEF StrictSubsetOrdering
  <2> QED BY <1>2, <2>2
<1> QED BY <1>4 DEF Min

(* So it has its maximum. *)
LEMMA MaxBounded ==
  ASSUME NEW bound \in Nat, NEW S \in SUBSET (0..bound), S # {}
  PROVE  Max(S) \in S /\ \A y \in S : y <= Max(S)
<1> DEFINE T == {bound - x : x \in S}
           m == bound - Min(T)
<1>1. T \subseteq 0..bound /\ T # {}
  <2>1. \A x \in 0..bound : bound - x \in 0..bound
    OBVIOUS
  <2>2. T \subseteq 0..bound
    BY <2>1
  <2> QED BY <2>2
<1>2. Min(T) \in T /\ \A y \in T : Min(T) <= y
  <2> HIDE DEF T
  <2> QED BY <1>1, MinBounded
<1>3. m \in S
  <2>1. PICK x \in S : Min(T) = bound - x
    BY <1>2
  <2>2. x \in Nat /\ bound - (bound - x) = x
    BY <1>1
  <2> QED BY <2>1, <2>2
<1>4. ASSUME NEW y \in S
      PROVE  m >= y
  <2>1. Min(T) <= bound - y /\ Min(T) \in Nat /\ y \in Nat
    BY <1>1, <1>2
  <2> QED BY <2>1
<1>5. Max(S) \in S /\ \A y \in S : Max(S) >= y
  <2> HIDE DEF m
  <2> QED BY <1>3, <1>4 DEF Max
<1>6. S \subseteq Nat
  OBVIOUS
<1> QED BY <1>5, <1>6

(* The numbers up to n are n. *)
LEMMA UpToSize ==
  ASSUME NEW n \in Nat
  PROVE  IsFiniteSet(1..n) /\ Cardinality(1..n) = n
  BY FS_Interval

(* Counting the members of a finite set of positions from the left gives   *)
(* each number up to its size to one of them.                              *)
LEMMA EveryRankIsTaken ==
  ASSUME NEW length \in Nat, NEW S \in SUBSET (1..length)
  PROVE  /\ IsFiniteSet(S)
         /\ Cardinality(S) \in Nat
         /\ \A n \in 1..Cardinality(S) : \E i \in S : Cardinality(S \cap 1..i) = n
<1> DEFINE upTo(i) == S \cap 1..i
           rank == [i \in S |-> Cardinality(upTo(i))]
<1>1. IsFiniteSet(S)
  <2>1. IsFiniteSet(1..length)
    BY FS_Interval
  <2> QED BY <2>1, FS_Subset
<1>2. Cardinality(S) \in Nat
  BY <1>1, FS_CardinalityType
<1>3. ASSUME NEW i \in S
      PROVE  /\ IsFiniteSet(upTo(i)) /\ upTo(i) \subseteq S
             /\ Cardinality(upTo(i)) \in 1..Cardinality(S)
  <2>1. IsFiniteSet(upTo(i)) /\ Cardinality(upTo(i)) <= Cardinality(S)
    BY <1>1, FS_Subset
  <2>2. i \in upTo(i)
    OBVIOUS
  <2>3. Cardinality(upTo(i)) \in Nat
    BY <2>1, FS_CardinalityType
  <2>4. Cardinality(upTo(i)) # 0
    BY <2>1, <2>2, FS_EmptySet
  <2> QED BY <1>2, <2>1, <2>3, <2>4
<1>4. ASSUME NEW i \in S, NEW j \in S, i < j
      PROVE  Cardinality(upTo(i)) # Cardinality(upTo(j))
  <2>1. upTo(i) \subseteq upTo(j) /\ j \in upTo(j) /\ j \notin upTo(i)
    BY <1>4
  <2> HIDE DEF upTo
  <2> QED BY <1>3, <2>1, FS_Subset
<1>5. rank \in Injection(S, 1..Cardinality(S))
  <2>1. rank \in [S -> 1..Cardinality(S)]
    BY <1>3
  <2>2. ASSUME NEW i \in S, NEW j \in S, rank[i] = rank[j]
        PROVE  i = j
    <3>1. Cardinality(upTo(i)) = Cardinality(upTo(j))
      BY <2>2
    <3> HIDE DEF upTo
    <3>2. ~(i < j) /\ ~(j < i)
      BY <1>4, <3>1
    <3> QED BY <3>2
  <2> HIDE DEF rank
  <2> QED BY <2>1, <2>2 DEF Injection, IsInjective
<1>6. IsFiniteSet(1..Cardinality(S)) /\ Cardinality(1..Cardinality(S)) = Cardinality(S)
  BY <1>2, FS_Interval
<1>7. rank \in Surjection(S, 1..Cardinality(S))
  <2> HIDE DEF rank
  <2> QED BY <1>5, <1>6, FS_Injection
<1>8. ASSUME NEW n \in 1..Cardinality(S)
      PROVE  \E i \in S : rank[i] = n
  <2> HIDE DEF rank
  <2> QED BY <1>7 DEF Surjection
<1> QED BY <1>1, <1>2, <1>8

(* So does counting the members in front of each, from zero.               *)
LEMMA CountInFrontDiffers ==
  ASSUME NEW length \in Nat, NEW S \in SUBSET (1..length)
  PROVE  /\ \A i \in S : Cardinality(S \cap 1..i - 1) \in 0..Cardinality(S) - 1
         /\ \A i, j \in S : i < j => Cardinality(S \cap 1..i - 1)
                                        # Cardinality(S \cap 1..j - 1)
<1> DEFINE before(i) == S \cap 1..i - 1
<1>1. IsFiniteSet(S) /\ Cardinality(S) \in Nat
  BY EveryRankIsTaken
<1>2. ASSUME NEW i \in S
      PROVE  /\ IsFiniteSet(before(i)) /\ before(i) \subseteq S
             /\ Cardinality(before(i)) \in 0..Cardinality(S) - 1
  <2>1. before(i) \subseteq S /\ i \notin before(i)
    OBVIOUS
  <2> HIDE DEF before
  <2>2. IsFiniteSet(before(i)) /\ Cardinality(before(i)) <= Cardinality(S)
        /\ Cardinality(before(i)) # Cardinality(S)
    BY <1>1, <2>1, FS_Subset
  <2>3. Cardinality(before(i)) \in Nat
    BY <2>2, FS_CardinalityType
  <2> QED BY <1>1, <2>1, <2>2, <2>3
<1>3. ASSUME NEW i \in S, NEW j \in S, i < j
      PROVE  Cardinality(before(i)) # Cardinality(before(j))
  <2>1. before(i) \subseteq before(j) /\ i \in before(j) /\ i \notin before(i)
    BY <1>3
  <2> HIDE DEF before
  <2> QED BY <1>2, <2>1, FS_Subset
<1> QED BY <1>2, <1>3

(* nth counts a set of positions: one for every number up to its size, in  *)
(* their order.                                                            *)
LEMMA NthCounts ==
  ASSUME NEW length \in Nat, NEW S \in SUBSET (1..length)
  PROVE  /\ \A n \in 1..Cardinality(S) : nth(S, n) \in S
         /\ \A i \in S : \E n \in 1..Cardinality(S) : nth(S, n) = i
         /\ \A m, n \in 1..Cardinality(S) : m < n <=> nth(S, m) < nth(S, n)
<1> DEFINE rank(i) == Cardinality(S \cap 1..i)
<1>1. /\ IsFiniteSet(S) /\ Cardinality(S) \in Nat
      /\ \A n \in 1..Cardinality(S) : \E i \in S : rank(i) = n
  BY EveryRankIsTaken
<1>2. ASSUME NEW n \in 1..Cardinality(S)
      PROVE  nth(S, n) \in S /\ rank(nth(S, n)) = n
  BY <1>1 DEF nth
<1>3. ASSUME NEW i \in S, NEW j \in S, i < j
      PROVE  rank(i) < rank(j)
  <2> DEFINE I == S \cap 1..i
             J == S \cap 1..j
  <2>1. I \subseteq J /\ j \in J /\ j \notin I
    BY <1>3
  <2>2. IsFiniteSet(J) /\ Cardinality(J) \in Nat
    <3>1. J \subseteq S
      OBVIOUS
    <3> HIDE DEF J
    <3>2. IsFiniteSet(J)
      BY <1>1, <3>1, FS_Subset
    <3> QED BY <3>2, FS_CardinalityType
  <2> HIDE DEF I, J
  <2>3. IsFiniteSet(I) /\ Cardinality(I) <= Cardinality(J)
        /\ (Cardinality(J) = Cardinality(I) => J = I)
    BY <2>1, <2>2, FS_Subset
  <2>4. Cardinality(I) \in Nat
    BY <2>3, FS_CardinalityType
  <2>5. Cardinality(I) < Cardinality(J)
    BY <2>1, <2>2, <2>3, <2>4
  <2> QED BY <2>5 DEF I, J
<1>4. ASSUME NEW i \in S
      PROVE  rank(i) \in 1..Cardinality(S)
  <2> DEFINE I == S \cap 1..i
  <2>1. I \subseteq S /\ i \in I
    OBVIOUS
  <2> HIDE DEF I
  <2>2. IsFiniteSet(I) /\ Cardinality(I) <= Cardinality(S)
    BY <1>1, <2>1, FS_Subset
  <2>3. Cardinality(I) \in Nat /\ Cardinality(I) # 0
    BY <2>1, <2>2, FS_CardinalityType, FS_EmptySet
  <2> QED BY <1>1, <2>2, <2>3 DEF I
<1> HIDE DEF rank
<1>5. \A i, j \in S : rank(i) = rank(j) => i = j
  <2>1. ASSUME NEW i \in S, NEW j \in S, rank(i) = rank(j), i # j
        PROVE  FALSE
    <3>1. i < j \/ j < i
      BY <2>1
    <3>2. rank(i) \in Nat /\ rank(j) \in Nat
      BY <1>1, <1>4
    <3> QED BY <1>3, <2>1, <3>1, <3>2
  <2> QED BY <2>1
<1>6. ASSUME NEW i \in S
      PROVE  \E n \in 1..Cardinality(S) : nth(S, n) = i
  <2>1. nth(S, rank(i)) \in S /\ rank(nth(S, rank(i))) = rank(i)
    BY <1>2, <1>4
  <2> QED BY <1>4, <1>5, <2>1
<1>7. ASSUME NEW m \in 1..Cardinality(S), NEW n \in 1..Cardinality(S)
      PROVE  m < n <=> nth(S, m) < nth(S, n)
  <2> DEFINE i == nth(S, m)
             j == nth(S, n)
  <2>1. /\ i \in S /\ j \in S /\ rank(i) = m /\ rank(j) = n
        /\ i \in Nat /\ j \in Nat
    <3>1. i \in S /\ j \in S /\ rank(i) = m /\ rank(j) = n
      BY <1>2
    <3> HIDE DEF i, j
    <3> QED BY <3>1
  <2> HIDE DEF i, j
  <2>2. m \in Nat /\ n \in Nat
    BY <1>1
  <2>3. i < j => m < n
    BY <1>3, <2>1
  <2>4. j < i => n < m
    BY <1>3, <2>1
  <2>5. i = j => m = n
    BY <2>1
  <2> QED BY <2>1, <2>2, <2>3, <2>4, <2>5 DEF i, j
<1> QED BY <1>2, <1>6, <1>7

(* The elements of a source are counted by their starts, which differ.     *)
LEMMA StartsAreCounted ==
  ASSUME NEW source, Len(source) \in Nat
  PROVE  /\ Cardinality(Starts(source)) \in Nat
         /\ \A n \in 1..Cardinality(Starts(source)) :
              /\ startOf(source, n) \in Starts(source)
              /\ startOf(source, n) \in 1..Len(source)
              /\ Cardinality(Starts(source) \cap 1..startOf(source, n)) = n
<1>1. Starts(source) \subseteq 1..Len(source)
  BY DEF Starts, Positions
<1> DEFINE S == Starts(source)
<1> HIDE DEF S
<1>2. Cardinality(S) \in Nat
      /\ \A n \in 1..Cardinality(S) : \E i \in S : Cardinality(S \cap 1..i) = n
  BY <1>1, EveryRankIsTaken DEF S
<1>3. ASSUME NEW n \in 1..Cardinality(S)
      PROVE  /\ startOf(source, n) \in S
             /\ Cardinality(S \cap 1..startOf(source, n)) = n
  BY <1>2 DEF S, startOf, nth
<1> QED BY <1>1, <1>2, <1>3 DEF S

(* An element of a source whose tags pair ends after its start, within the *)
(* source; a self-closing one where it starts.                             *)
LEMMA EndsWithinSource ==
  ASSUME NEW source, Len(source) \in Nat, TagsPair(source), NEW i \in Starts(source)
  PROVE  /\ endOf(source, i) \in i..Len(source)
         /\ endOf(source, i) = i <=> source[i].kind = "void"
<1>1. i \in 1..Len(source)
  BY DEF Starts, Positions
<1>2. CASE source[i].kind = "void"
  BY <1>1, <1>2 DEF endOf
<1>3. CASE source[i].kind # "void"
  <2>1. Balanced(source, i) # {}
    BY <1>3 DEF Starts, Positions, TagsPair
  <2>2. Balanced(source, i) \subseteq i + 1..Len(source)
    BY DEF Balanced
  <2>3. Balanced(source, i) \subseteq 0..Len(source)
    BY <1>1, <2>2
  <2>4. Min(Balanced(source, i)) \in Balanced(source, i)
    BY <2>1, <2>3, MinBounded
  <2>5. endOf(source, i) \in i + 1..Len(source)
    BY <1>3, <2>2, <2>4 DEF endOf
  <2> QED BY <1>1, <1>3, <2>5
<1> QED BY <1>2, <1>3
-----------------------------------------------------------------------------
(* Two sequences behind one another. *)
LEMMA JoinedParts ==
  ASSUME NEW T, NEW a \in Seq(T), NEW b \in Seq(T)
  PROVE  /\ a \o b \in Seq(T)
         /\ Len(a \o b) = Len(a) + Len(b)
         /\ \A p \in 1..Len(a) : (a \o b)[p] = a[p]
         /\ \A p \in 1..Len(b) : (a \o b)[Len(a) + p] = b[p]
<1>1. Len(a) \in Nat /\ Len(b) \in Nat
  OBVIOUS
<1>2. ASSUME NEW p \in 1..Len(a)
      PROVE  (a \o b)[p] = a[p]
  <2>1. p \in 1..Len(a) + Len(b) /\ p <= Len(a)
    BY <1>1
  <2> QED BY <2>1, ConcatProperties
<1>3. ASSUME NEW p \in 1..Len(b)
      PROVE  (a \o b)[Len(a) + p] = b[p]
  <2>1. Len(a) + p \in 1..Len(a) + Len(b) /\ ~(Len(a) + p <= Len(a))
        /\ (Len(a) + p) - Len(a) = p
    BY <1>1
  <2> QED BY <2>1, ConcatProperties
<1> QED BY <1>2, <1>3, ConcatProperties

(* t is s with the range from begin to end replaced by r: what is in front *)
(* of the range stays, then comes r, and what is behind the range follows. *)
IsSplice(T, t, s, begin, end, r) ==
  /\ t \in Seq(T)
  /\ Len(t) = begin + Len(r) + (Len(s) - end)
  /\ \A p \in 1..begin : t[p] = s[p]
  /\ \A p \in 1..Len(r) : t[begin + p] = r[p]
  /\ \A p \in end + 1..Len(s) : t[begin + Len(r) + (p - end)] = s[p]

(* What SubSeq and concatenation make is a splice.                         *)
LEMMA SplicedParts ==
  ASSUME NEW T, NEW s \in Seq(T), NEW r \in Seq(T), NEW begin \in Nat, NEW end \in Nat,
         begin <= end, end <= Len(s)
  PROVE  IsSplice(T, SubSeq(s, 1, begin) \o r \o SubSeq(s, end + 1, Len(s)),
                  s, begin, end, r)
<1> DEFINE front == SubSeq(s, 1, begin)
           back == SubSeq(s, end + 1, Len(s))
<1>1. /\ front \in Seq(T) /\ Len(front) = begin
      /\ \A p \in 1..begin : front[p] = s[p]
  BY SubSeqProperties
<1>2. /\ back \in Seq(T) /\ Len(back) = Len(s) - end
      /\ \A p \in 1..Len(s) - end : back[p] = s[end + p]
  BY SubSeqProperties
<1> HIDE DEF front, back
<1> DEFINE head == front \o r
           t == head \o back
<1>3. /\ head \in Seq(T) /\ Len(head) = Len(front) + Len(r)
      /\ \A p \in 1..Len(front) : head[p] = front[p]
      /\ \A p \in 1..Len(r) : head[Len(front) + p] = r[p]
  <2>1. front \in Seq(T) /\ r \in Seq(T)
    BY <1>1
  <2> QED BY <2>1, JoinedParts
<1> HIDE DEF head
<1>4. /\ t \in Seq(T) /\ Len(t) = Len(head) + Len(back)
      /\ \A p \in 1..Len(head) : t[p] = head[p]
      /\ \A p \in 1..Len(back) : t[Len(head) + p] = back[p]
  <2>1. head \in Seq(T) /\ back \in Seq(T)
    BY <1>2, <1>3
  <2> QED BY <2>1, JoinedParts
<1> HIDE DEF t
<1>5. \A p \in 1..begin : t[p] = s[p]
  BY <1>1, <1>3, <1>4
<1>6. ASSUME NEW p \in 1..Len(r)
      PROVE  t[begin + p] = r[p]
  <2>1. begin + p \in 1..Len(head)
    BY <1>1, <1>3
  <2> QED BY <1>1, <1>3, <1>4, <2>1
<1>7. ASSUME NEW p \in end + 1..Len(s)
      PROVE  t[begin + Len(r) + (p - end)] = s[p]
  <2>1. p - end \in 1..Len(back) /\ end + (p - end) = p
    BY <1>2
  <2>2. back[p - end] = s[p]
    BY <1>2, <2>1
  <2>3. t[Len(head) + (p - end)] = back[p - end]
    BY <1>4, <2>1
  <2>4. Len(head) = begin + Len(r)
    BY <1>1, <1>3
  <2> QED BY <2>2, <2>3, <2>4
<1> QED BY <1>1, <1>2, <1>3, <1>4, <1>5, <1>6, <1>7 DEF t, head, front, back, IsSplice

(* What stands in s with the range from begin to end replaced by r. *)
Splice(s, begin, end, r) == SubSeq(s, 1, begin) \o r \o SubSeq(s, end + 1, Len(s))
-----------------------------------------------------------------------------
(* Every token has a mark of its own, with the revision of the edit that   *)
(* wrote it.                                                               *)
MarksSound(written, length, revision) ==
  /\ written \in Seq(Nat \X Nat)
  /\ Len(written) = length
  /\ \A p \in 1..length : written[p][1] <= revision
  /\ \A p, q \in 1..length : written[p] = written[q] => p = q

(* The marks that an edit gives to its replacement. *)
NewMarks(revision, size) == [i \in 1..size |-> <<revision, i>>]

(* Where the token at q is after the range from a to z was replaced by r   *)
(* tokens.                                                                 *)
Moved(a, z, r, q, p) ==
  \/ q <= a /\ p = q
  \/ q > z /\ p = a + r + (q - z)

MarksFollow(now, written, length, revision, a, z, r) ==
  /\ \A p \in 1..a + r + (length - z), q \in 1..length :
       now[p] = written[q] <=> Moved(a, z, r, q, p)
  /\ \A p \in 1..a + r + (length - z) :
       now[p] = <<revision + 1, 1>> <=> p = a + 1 /\ r > 0

(* A splice keeps the marks apart: each is found where its token has moved *)
(* to, and nowhere else, and those of the replacement are new.             *)
LEMMA MarksMove ==
  ASSUME NEW length \in Nat, NEW revision \in Nat, NEW written,
         MarksSound(written, length, revision),
         NEW a \in Nat, NEW z \in Nat, NEW r \in Nat, a <= z, z <= length
  PROVE  /\ MarksSound(Splice(written, a, z, NewMarks(revision + 1, r)),
                       a + r + (length - z), revision + 1)
         /\ MarksFollow(Splice(written, a, z, NewMarks(revision + 1, r)),
                        written, length, revision, a, z, r)
<1> DEFINE added == NewMarks(revision + 1, r)
           now == Splice(written, a, z, added)
           total == a + r + (length - z)
<1> HIDE DEF now
<1>1. /\ written \in Seq(Nat \X Nat) /\ Len(written) = length
      /\ \A p \in 1..length : written[p][1] <= revision
      /\ \A p, q \in 1..length : written[p] = written[q] => p = q
  BY DEF MarksSound
<1>2. /\ added \in Seq(Nat \X Nat) /\ Len(added) = r
      /\ \A i \in 1..r : added[i] = <<revision + 1, i>>
  BY DEF NewMarks
<1> HIDE DEF added
<1>3. /\ now \in Seq(Nat \X Nat) /\ Len(now) = total
      /\ \A p \in 1..a : now[p] = written[p]
      /\ \A p \in 1..r : now[a + p] = added[p]
      /\ \A p \in z + 1..length : now[a + r + (p - z)] = written[p]
  <2>1. /\ now \in Seq(Nat \X Nat) /\ Len(now) = a + Len(added) + (Len(written) - z)
        /\ \A p \in 1..a : now[p] = written[p]
        /\ \A p \in 1..Len(added) : now[a + p] = added[p]
        /\ \A p \in z + 1..Len(written) :
              now[a + Len(added) + (p - z)] = written[p]
    <3>1. /\ written \in Seq(Nat \X Nat) /\ added \in Seq(Nat \X Nat)
          /\ z <= Len(written)
      BY <1>1, <1>2
    <3>2. IsSplice(Nat \X Nat, now, written, a, z, added)
      BY <3>1, SplicedParts DEF now, Splice
    <3> QED BY <3>2 DEF IsSplice
  <2> QED BY <1>1, <1>2, <2>1
<1>4. total \in Nat
  BY <1>1
<1>5. ASSUME NEW p \in 1..total
      PROVE  \/ p \in 1..a /\ now[p] = written[p]
             \/ p - a \in 1..r /\ now[p] = <<revision + 1, p - a>>
             \/ /\ p > a + r
                /\ z + (p - a - r) \in z + 1..length
                /\ now[p] = written[z + (p - a - r)]
  <2>1. CASE p <= a
    BY <1>1, <1>3, <2>1
  <2>2. CASE p > a /\ p <= a + r
    <3>1. p - a \in 1..r /\ a + (p - a) = p
      BY <1>1, <1>4, <2>2
    <3>2. now[a + (p - a)] = <<revision + 1, p - a>>
      BY <1>2, <1>3, <3>1
    <3> QED BY <3>1, <3>2
  <2>3. CASE p > a + r
    <3> DEFINE q == z + (p - a - r)
    <3>1. q \in z + 1..length /\ a + r + (q - z) = p
      BY <1>1, <1>4, <2>3
    <3>2. now[a + r + (q - z)] = written[q]
      BY <1>3, <3>1
    <3> QED BY <2>3, <3>1, <3>2
  <2> QED BY <1>1, <1>4, <2>1, <2>2, <2>3
<1>6. ASSUME NEW p \in 1..total, NEW q \in 1..length
      PROVE  now[p] = written[q] <=> Moved(a, z, r, q, p)
  <2>1. written[q][1] # revision + 1
    BY <1>1
  <2>2. CASE p \in 1..a /\ now[p] = written[p]
    <3>1. p \in 1..length
      BY <1>1, <2>2
    <3>2. now[p] = written[q] <=> p = q
      BY <1>1, <2>2, <3>1
    <3>3. Moved(a, z, r, q, p) <=> p = q
      BY <1>1, <2>2 DEF Moved
    <3> QED BY <3>2, <3>3
  <2>3. CASE p - a \in 1..r /\ now[p] = <<revision + 1, p - a>>
    <3>1. now[p] # written[q]
      BY <2>1, <2>3
    <3>2. ~Moved(a, z, r, q, p)
      BY <1>1, <1>4, <2>3 DEF Moved
    <3> QED BY <3>1, <3>2
  <2>4. CASE /\ p > a + r
             /\ z + (p - a - r) \in z + 1..length
             /\ now[p] = written[z + (p - a - r)]
    <3> DEFINE o == z + (p - a - r)
    <3>1. o \in 1..length /\ o > z
      BY <1>1, <1>4, <2>4
    <3>2. now[p] = written[q] <=> o = q
      BY <1>1, <2>4, <3>1
    <3>3. p = a + r + (q - z) <=> o = q
      BY <1>4
    <3>4. ~(q <= a /\ p = q)
      BY <1>4, <2>4
    <3>5. Moved(a, z, r, q, p) <=> q > z /\ o = q
      BY <3>3, <3>4 DEF Moved
    <3> QED BY <3>1, <3>2, <3>5
  <2> QED BY <1>5, <2>2, <2>3, <2>4
<1>7. ASSUME NEW p \in 1..total
      PROVE  now[p] = <<revision + 1, 1>> <=> p = a + 1 /\ r > 0
  <2>1. ASSUME NEW q \in 1..length
        PROVE  written[q] # <<revision + 1, 1>>
    BY <1>1
  <2>2. CASE p \in 1..a /\ now[p] = written[p]
    <3>1. p \in 1..length /\ p # a + 1
      BY <1>1, <2>2
    <3> QED BY <2>1, <2>2, <3>1
  <2>3. CASE p - a \in 1..r /\ now[p] = <<revision + 1, p - a>>
    BY <1>1, <1>4, <2>3
  <2>4. CASE /\ p > a + r
             /\ z + (p - a - r) \in z + 1..length
             /\ now[p] = written[z + (p - a - r)]
    <3>1. z + (p - a - r) \in 1..length
      BY <1>1, <1>4, <2>4
    <3>2. ~(p = a + 1 /\ r > 0)
      BY <1>4, <2>4
    <3> QED BY <2>1, <2>4, <3>1, <3>2
  <2> QED BY <1>5, <2>2, <2>3, <2>4
<1>8. ASSUME NEW p \in 1..total
      PROVE  now[p][1] <= revision + 1
  <2>1. ASSUME NEW q \in 1..length
        PROVE  written[q][1] <= revision + 1
    <3>1. written[q] \in Nat \X Nat
      BY <1>1
    <3>2. written[q][1] \in Nat
      BY <3>1
    <3> QED BY <1>1, <3>2
  <2>2. 1..a \subseteq 1..length /\ z + 1..length \subseteq 1..length
    OBVIOUS
  <2>3. <<revision + 1, p - a>>[1] = revision + 1
    OBVIOUS
  <2> QED BY <1>5, <2>1, <2>2, <2>3
<1>9. ASSUME NEW p \in 1..total, NEW q \in 1..total, now[p] = now[q]
      PROVE  p = q
  <2>1. ASSUME NEW k \in 1..total, NEW l \in 1..length, now[k] = written[l],
               NEW m \in 1..total, now[m] = written[l]
        PROVE  k = m
    <3>1. Moved(a, z, r, l, k) /\ Moved(a, z, r, l, m)
      BY <1>6, <2>1
    <3> HIDE DEF total
    <3> QED BY <3>1 DEF Moved
  <2>2. ASSUME NEW l \in 1..length, now[p] = written[l]
        PROVE  p = q
    BY <1>9, <2>1, <2>2
  <2>3. CASE p \in 1..a /\ now[p] = written[p]
    <3>1. p \in 1..length
      BY <1>1, <2>3
    <3> QED BY <2>2, <2>3, <3>1
  <2>4. CASE p > a + r /\ z + (p - a - r) \in z + 1..length
               /\ now[p] = written[z + (p - a - r)]
    <3>1. z + (p - a - r) \in 1..length
      BY <1>1, <1>4, <2>4
    <3> QED BY <2>2, <2>4, <3>1
  <2>5. CASE p - a \in 1..r /\ now[p] = <<revision + 1, p - a>>
    <3>1. \A l \in 1..length : now[q] # written[l]
      BY <1>1, <1>9, <2>5
    <3>2. q - a \in 1..r /\ now[q] = <<revision + 1, q - a>>
      <4>1. 1..a \subseteq 1..length /\ z + 1..length \subseteq 1..length
        BY <1>1
      <4> QED BY <1>5, <3>1, <4>1
    <3>3. p - a = q - a
      <4>1. <<revision + 1, p - a>> = <<revision + 1, q - a>>
        BY <1>9, <2>5, <3>2
      <4> QED BY <4>1
    <3> QED BY <1>1, <1>4, <3>3
  <2> QED BY <1>5, <2>3, <2>4, <2>5
<1>10. MarksSound(now, total, revision + 1)
  BY <1>3, <1>8, <1>9 DEF MarksSound
<1> QED BY <1>6, <1>7, <1>10 DEF now, added, MarksFollow

(* An edit has moved both ends of element b to those of c. *)
MovedTo(edit, b, c) ==
  LET r == Len(edit.replacement)
  IN /\ Moved(edit.begin, edit.end, r, b.rawBegin + 1, c.rawBegin + 1)
     /\ Moved(edit.begin, edit.end, r, b.rawEnd, c.rawEnd)

(* b lies outside of the edit. *)
Apart(edit, b) ==
  /\ b.rawBegin # edit.begin \/ b.rawEnd # edit.end
  /\ \/ b.rawEnd <= edit.begin
     \/ b.rawBegin >= edit.end
     \/ b.rawBegin < edit.begin /\ b.rawEnd > edit.end
-----------------------------------------------------------------------------
(* The tags of a kind with a name in T, from i to k. *)
TagsIn(source, kind, T, i, k) ==
  {n \in i..k : source[n].kind = kind /\ source[n].tag \in T}

(* How many tags with a name in T are opened from i to k, less those closed. *)
Excess(source, T, i, k) ==
  Cardinality(TagsIn(source, "open", T, i, k)) - Cardinality(TagsIn(source, "close", T, i, k))

(* Tags are counted by numbers. *)
LEMMA TagsAreFinite ==
  ASSUME NEW source, NEW kind, NEW T, NEW i \in Int, NEW k \in Int
  PROVE  /\ IsFiniteSet(TagsIn(source, kind, T, i, k))
         /\ Cardinality(TagsIn(source, kind, T, i, k)) \in Nat
<1>1. IsFiniteSet(i..k) /\ TagsIn(source, kind, T, i, k) \subseteq i..k
  BY FS_Interval DEF TagsIn
<1>2. IsFiniteSet(TagsIn(source, kind, T, i, k))
  BY <1>1, FS_Subset
<1> QED BY <1>2, FS_CardinalityType

(* What two neighbouring ranges open adds up. *)
LEMMA ExcessAdds ==
  ASSUME NEW source, NEW T, NEW i \in Int, NEW j \in Int, NEW k \in Int,
         i <= j + 1, j <= k
  PROVE  /\ Excess(source, T, i, k) = Excess(source, T, i, j) + Excess(source, T, j + 1, k)
         /\ Excess(source, T, i, k) \in Int
         /\ Excess(source, T, i, j) \in Int
         /\ Excess(source, T, j + 1, k) \in Int
<1>1. ASSUME NEW kind
      PROVE  /\ Cardinality(TagsIn(source, kind, T, i, k)) =
                  Cardinality(TagsIn(source, kind, T, i, j))
                    + Cardinality(TagsIn(source, kind, T, j + 1, k))
             /\ Cardinality(TagsIn(source, kind, T, i, j)) \in Nat
             /\ Cardinality(TagsIn(source, kind, T, j + 1, k)) \in Nat
  <2> DEFINE A == TagsIn(source, kind, T, i, j)
             B == TagsIn(source, kind, T, j + 1, k)
             C == TagsIn(source, kind, T, i, k)
  <2>1. C = A \cup B /\ A \cap B = {}
    BY DEF TagsIn
  <2>2. /\ IsFiniteSet(A) /\ Cardinality(A) \in Nat
        /\ IsFiniteSet(B) /\ Cardinality(B) \in Nat
    <3>1. j + 1 \in Int
      OBVIOUS
    <3> QED BY <3>1, TagsAreFinite
  <2> HIDE DEF A, B, C
  <2>3. Cardinality(A \cup B) = Cardinality(A) + Cardinality(B) - Cardinality(A \cap B)
    BY <2>2, FS_Union
  <2>4. Cardinality(A \cap B) = 0 /\ Cardinality(C) = Cardinality(A \cup B)
    BY <2>1, FS_EmptySet
  <2>5. Cardinality(C) = Cardinality(A) + Cardinality(B)
    <3> DEFINE a == Cardinality(A)
               b == Cardinality(B)
    <3>1. a \in Nat /\ b \in Nat /\ Cardinality(C) = (a + b) - 0
      BY <2>2, <2>3, <2>4
    <3> HIDE DEF a, b
    <3>2. Cardinality(C) = a + b
      BY <3>1
    <3> QED BY <3>2 DEF a, b
  <2> QED BY <2>2, <2>5 DEF A, B, C
<1> DEFINE oij == Cardinality(TagsIn(source, "open", T, i, j))
           ojk == Cardinality(TagsIn(source, "open", T, j + 1, k))
           cij == Cardinality(TagsIn(source, "close", T, i, j))
           cjk == Cardinality(TagsIn(source, "close", T, j + 1, k))
<1>2. /\ Excess(source, T, i, k) = (oij + ojk) - (cij + cjk)
      /\ Excess(source, T, i, j) = oij - cij
      /\ Excess(source, T, j + 1, k) = ojk - cjk
      /\ oij \in Nat /\ ojk \in Nat /\ cij \in Nat /\ cjk \in Nat
  BY <1>1 DEF Excess
<1> HIDE DEF oij, ojk, cij, cjk
<1> QED BY <1>2

(* One token opens at most one tag, and closes at most one. *)
LEMMA ExcessOfOne ==
  ASSUME NEW source, NEW T, NEW i \in Int
  PROVE  Excess(source, T, i, i) =
           IF source[i].tag \in T /\ source[i].kind = "open" THEN 1
           ELSE IF source[i].tag \in T /\ source[i].kind = "close" THEN -1
           ELSE 0
<1>1. \A kind : TagsIn(source, kind, T, i, i) =
                  IF source[i].tag \in T /\ source[i].kind = kind THEN {i} ELSE {}
  BY DEF TagsIn
<1>2. Cardinality({i}) = 1 /\ Cardinality({}) = 0
  BY FS_Singleton, FS_EmptySet
<1>3. /\ Cardinality(TagsIn(source, "open", T, i, i)) =
           IF source[i].tag \in T /\ source[i].kind = "open" THEN 1 ELSE 0
      /\ Cardinality(TagsIn(source, "close", T, i, i)) =
           IF source[i].tag \in T /\ source[i].kind = "close" THEN 1 ELSE 0
  BY <1>1, <1>2
<1> QED BY <1>3 DEF Excess

(* The tokens from i to k stand in new where they stood, moved by d. *)
MovedBy(new, source, i, k, d) == \A p \in i..k : new[p + d] = source[p]

(* Tokens that are moved open as much where they are then. *)
LEMMA ExcessMoves ==
  ASSUME NEW source, NEW new, NEW T, NEW i \in Int, NEW k \in Int, NEW d \in Int,
         MovedBy(new, source, i, k, d),
         NEW j \in Int, j = i + d, NEW m \in Int, m = k + d
  PROVE  Excess(new, T, j, m) = Excess(source, T, i, k)
<1>1. ASSUME NEW kind
      PROVE  Cardinality(TagsIn(new, kind, T, i + d, k + d)) =
               Cardinality(TagsIn(source, kind, T, i, k))
  <2> DEFINE A == TagsIn(source, kind, T, i, k)
             B == TagsIn(new, kind, T, i + d, k + d)
             f == [p \in A |-> p + d]
  <2>1. A \subseteq Int
    BY DEF TagsIn
  <2>2. \A p \in A : p + d \in B
    BY DEF TagsIn, MovedBy
  <2>3. ASSUME NEW q \in B
        PROVE  \E p \in A : f[p] = q
    <3>1. q \in i + d..k + d /\ new[q].kind = kind /\ new[q].tag \in T
      BY DEF TagsIn
    <3>2. q - d \in i..k /\ (q - d) + d = q
      BY <3>1
    <3>3. q - d \in A
      BY <3>1, <3>2 DEF TagsIn, MovedBy
    <3> QED BY <3>2, <3>3
  <2>4. f \in [A -> B] /\ \A p \in A : f[p] = p + d
    BY <2>2
  <2>5. IsFiniteSet(A)
    BY TagsAreFinite
  <2> HIDE DEF A, B, f
  <2>6. f \in Surjection(A, B)
    BY <2>3, <2>4 DEF Surjection
  <2>7. f \in Injection(A, B)
    BY <2>1, <2>4 DEF Injection, IsInjective
  <2>8. Cardinality(B) = Cardinality(A)
    BY <2>5, <2>6, <2>7, FS_Surjection
  <2> QED BY <2>8 DEF A, B
<1> QED BY <1>1 DEF Excess

(* The excess changes by one at a time. *)
LEMMA ExcessSteps ==
  ASSUME NEW source, NEW T, NEW i \in Int, NEW k \in Int, i <= k
  PROVE  /\ Excess(source, T, i, k) = Excess(source, T, i, k - 1) + Excess(source, T, k, k)
         /\ Excess(source, T, i, k) \in Int /\ Excess(source, T, i, k - 1) \in Int
         /\ Excess(source, T, k, k) \in {-1, 0, 1}
<1> DEFINE j == k - 1
<1>1. j \in Int /\ j + 1 = k /\ i <= j + 1 /\ j <= k
  OBVIOUS
<1>2. Excess(source, T, k, k) \in {-1, 0, 1}
  BY ExcessOfOne
<1> HIDE DEF j
<1>3. /\ Excess(source, T, i, k) = Excess(source, T, i, j) + Excess(source, T, j + 1, k)
      /\ Excess(source, T, i, k) \in Int /\ Excess(source, T, i, j) \in Int
  BY <1>1, ExcessAdds
<1> QED BY <1>1, <1>2, <1>3 DEF j

(* What opens one tag at i and in the end none has a first place where it  *)
(* is closed again: the excess falls by one at a time.                     *)
LEMMA ExcessReturns ==
  ASSUME NEW source, NEW T, NEW i \in Nat, NEW length \in Nat, Excess(source, T, i, i) = 1,
         NEW z \in i..length, Excess(source, T, i, z) <= 0
  PROVE  \E m \in i + 1..length :
           /\ Excess(source, T, i, m) = 0
           /\ \A k \in i..m - 1 : Excess(source, T, i, k) > 0
<1> DEFINE S == {k \in i..length : Excess(source, T, i, k) <= 0}
           m == Min(S)
<1>1. m \in S /\ \A k \in S : m <= k
  <2>1. S \subseteq 0..length /\ z \in S
    OBVIOUS
  <2> HIDE DEF S
  <2> QED BY <2>1, MinBounded
<1> HIDE DEF m
<1>2. m \in i..length /\ Excess(source, T, i, m) <= 0
  BY <1>1
<1>3. m # i
  BY <1>2
<1>4. m \in i + 1..length /\ m - 1 \in i..length /\ (m - 1) + 1 = m
  BY <1>2, <1>3
<1>5. ASSUME NEW k \in i..m - 1
      PROVE  Excess(source, T, i, k) > 0
  <2>1. k \in i..length /\ k < m /\ k \in Int /\ i <= k + 1
    BY <1>4
  <2>2. ~(Excess(source, T, i, k) <= 0)
    BY <1>1, <2>1
  <2>3. Excess(source, T, i, k) \in Int
    BY <2>1, ExcessAdds
  <2> QED BY <2>2, <2>3
<1>6. Excess(source, T, i, m) = 0
  <2> DEFINE before == Excess(source, T, i, m - 1)
             step == Excess(source, T, m, m)
             after == Excess(source, T, i, m)
  <2>1. m \in Int /\ i <= m
    BY <1>4
  <2>2. after = before + step /\ before \in Int /\ step \in {-1, 0, 1}
    BY <2>1, ExcessSteps
  <2>4. before > 0
    BY <1>4, <1>5
  <2>5. after <= 0
    BY <1>2
  <2> HIDE DEF before, step, after
  <2>6. after = 0
    BY <2>2, <2>4, <2>5
  <2> QED BY <2>6 DEF after
<1> QED BY <1>4, <1>5, <1>6

(* The tag opened at i is closed at e: there for the first time none of    *)
(* its name that was opened from i on is still open.                       *)
Closes(source, i, e) ==
  /\ e \in i + 1..Len(source)
  /\ Excess(source, {source[i].tag}, i, e) = 0
  /\ \A k \in i..e - 1 : Excess(source, {source[i].tag}, i, k) > 0

(* An element that is not self-closing ends where its tag is closed.       *)
LEMMA EndsWhereClosed ==
  ASSUME NEW source, Len(source) \in Nat, NEW i \in Positions(source, "open")
  PROVE  /\ Balanced(source, i) # {} => Closes(source, i, endOf(source, i))
         /\ \A e : Closes(source, i, e) => Balanced(source, i) # {} /\ endOf(source, i) = e
         /\ i \in 1..Len(source) /\ source[i].kind = "open"
         /\ Excess(source, {source[i].tag}, i, i) = 1
<1> DEFINE T == {source[i].tag}
           B == Balanced(source, i)
<1>1. i \in 1..Len(source) /\ source[i].kind = "open"
  BY DEF Positions
<1>2. \A k : k \in B <=> k \in i + 1..Len(source) /\ Excess(source, T, i, k) = 0
  <2>1. ASSUME NEW k \in i + 1..Len(source)
        PROVE  k \in B <=> Excess(source, T, i, k) = 0
    <3> DEFINE o == Cardinality(TagsIn(source, "open", T, i, k))
               c == Cardinality(TagsIn(source, "close", T, i, k))
    <3>1. o \in Nat /\ c \in Nat
      BY <1>1, TagsAreFinite
    <3>2. \A kind : TagsIn(source, kind, T, i, k) =
                      {n \in i..k : source[n].kind = kind /\ source[n].tag = source[i].tag}
      BY DEF TagsIn
    <3>3. k \in B <=> o = c
      BY <3>2 DEF Balanced
    <3>4. Excess(source, T, i, k) = o - c
      BY DEF Excess
    <3> HIDE DEF o, c, B, T
    <3> QED BY <3>1, <3>3, <3>4
  <2>2. B \subseteq i + 1..Len(source)
    BY DEF Balanced
  <2> QED BY <2>1, <2>2
<1>3. Excess(source, T, i, i) = 1
  BY <1>1, ExcessOfOne
<1>4. B # {} => Min(B) \in B /\ \A k \in B : Min(B) <= k
  <2>1. B \subseteq 0..Len(source)
    BY <1>1, <1>2
  <2> HIDE DEF B
  <2> QED BY <2>1, MinBounded
<1>5. endOf(source, i) = Min(B)
  BY <1>1 DEF endOf
<1>6. ASSUME B # {}
      PROVE  Closes(source, i, Min(B))
  <2> DEFINE e == Min(B)
  <2>1. e \in i + 1..Len(source) /\ Excess(source, T, i, e) = 0 /\ \A k \in B : e <= k
    BY <1>2, <1>4, <1>6
  <2> HIDE DEF e, B
  <2>2. ASSUME NEW k \in i..e - 1
        PROVE  Excess(source, T, i, k) > 0
    <3>1. k \in i..Len(source) /\ k < e /\ k \in Int /\ i <= k + 1 /\ k \in Nat
      BY <1>1, <2>1
    <3>2. Excess(source, T, i, k) \in Int
      BY <1>1, <3>1, ExcessAdds
    <3>3. ASSUME Excess(source, T, i, k) <= 0
          PROVE  FALSE
      <4>1. PICK m \in i + 1..k : Excess(source, T, i, m) = 0
        BY <1>1, <1>3, <3>1, <3>3, ExcessReturns
      <4>2. m \in B /\ m < e
        BY <1>1, <1>2, <2>1, <3>1, <4>1
      <4> QED BY <2>1, <3>1, <4>2
    <3> QED BY <3>2, <3>3
  <2> QED BY <2>1, <2>2 DEF Closes, e
<1>7. ASSUME NEW e, Closes(source, i, e)
      PROVE  B # {} /\ Min(B) = e
  <2>1. e \in i + 1..Len(source) /\ Excess(source, T, i, e) = 0
        /\ \A k \in i..e - 1 : Excess(source, T, i, k) > 0
    BY <1>7 DEF Closes
  <2>2. e \in B
    BY <1>2, <2>1
  <2>3. Min(B) \in i + 1..Len(source) /\ Excess(source, T, i, Min(B)) = 0 /\ Min(B) <= e
    BY <1>2, <1>4, <2>2
  <2> DEFINE m == Min(B)
  <2> HIDE DEF m, B
  <2>4. ~(m < e)
    <3>1. m < e => m \in i..e - 1
      BY <1>1, <2>1, <2>3 DEF m
    <3>2. ~(Excess(source, T, i, m) > 0)
      BY <2>3 DEF m
    <3> QED BY <2>1, <3>1, <3>2
  <2> QED BY <1>1, <2>1, <2>2, <2>3, <2>4 DEF m
<1> QED BY <1>1, <1>3, <1>5, <1>6, <1>7

(* Where all tags pair, every opening tag is closed by one of its name,    *)
(* and each closing tag closes one.                                        *)
LEMMA ClosersMatch ==
  ASSUME NEW source, Len(source) \in Nat, TagsPair(source)
  PROVE  /\ \A i \in Positions(source, "open") :
              /\ Closes(source, i, endOf(source, i))
              /\ endOf(source, i) \in Positions(source, "close")
              /\ source[endOf(source, i)].tag = source[i].tag
         /\ \A i, j \in Positions(source, "open") : endOf(source, i) = endOf(source, j) => i = j
         /\ \A k \in Positions(source, "close") :
              \E i \in Positions(source, "open") : endOf(source, i) = k
<1> DEFINE O == Positions(source, "open")
           C == Positions(source, "close")
<1>1. ASSUME NEW i \in O
      PROVE  /\ Closes(source, i, endOf(source, i))
             /\ endOf(source, i) \in C
             /\ source[endOf(source, i)].tag = source[i].tag
             /\ i \in 1..Len(source)
  <2> DEFINE e == endOf(source, i)
             T == {source[i].tag}
  <2>1. Closes(source, i, e) /\ i \in 1..Len(source)
    BY EndsWhereClosed DEF TagsPair
  <2> HIDE DEF e, O
  <2>2. /\ e \in i + 1..Len(source) /\ Excess(source, T, i, e) = 0
        /\ \A k \in i..e - 1 : Excess(source, T, i, k) > 0
    BY <2>1 DEF Closes
  <2>3. e \in Int /\ i \in Int /\ i <= e /\ e - 1 \in i..e - 1
    BY <2>1, <2>2
  <2>4. /\ Excess(source, T, i, e) = Excess(source, T, i, e - 1) + Excess(source, T, e, e)
        /\ Excess(source, T, i, e - 1) \in Int
        /\ Excess(source, T, e, e) \in {-1, 0, 1}
    BY <2>3, ExcessSteps
  <2>5. Excess(source, T, i, e - 1) > 0
    BY <2>2, <2>3
  <2>6. Excess(source, T, e, e) = -1
    <3> DEFINE step == Excess(source, T, e, e)
               before == Excess(source, T, i, e - 1)
    <3>1. 0 = before + step /\ before > 0 /\ before \in Int /\ step \in {-1, 0, 1}
      BY <2>2, <2>4, <2>5
    <3> HIDE DEF step, before
    <3>2. step = -1
      BY <3>1
    <3> QED BY <3>2 DEF step
  <2>7. source[e].tag \in T /\ source[e].kind = "close"
    BY <2>3, <2>6, ExcessOfOne
  <2> QED BY <2>1, <2>2, <2>7 DEF Positions, e
<1>2. ASSUME NEW i \in O, NEW j \in O, endOf(source, i) = endOf(source, j), i < j
      PROVE  FALSE
  <2> DEFINE e == endOf(source, i)
             T == {source[i].tag}
  <2>1. T = {source[j].tag}
    BY <1>1, <1>2
  <2>2. /\ e \in i + 1..Len(source) /\ e \in j + 1..Len(source)
        /\ Excess(source, T, i, e) = 0 /\ Excess(source, T, j, e) = 0
        /\ \A k \in i..e - 1 : Excess(source, T, i, k) > 0
        /\ i \in 1..Len(source) /\ j \in 1..Len(source)
    BY <1>1, <1>2, <2>1 DEF Closes
  <2> DEFINE l == j - 1
  <2>3. /\ l \in Int /\ i \in Int /\ e \in Int /\ i <= l + 1 /\ l <= e /\ l + 1 = j
        /\ l \in i..e - 1
    BY <1>2, <2>2
  <2> HIDE DEF e, l, T
  <2>4. /\ Excess(source, T, i, e) = Excess(source, T, i, l) + Excess(source, T, l + 1, e)
        /\ Excess(source, T, i, l) \in Int
    BY <2>3, ExcessAdds
  <2>5. Excess(source, T, i, l) > 0
    BY <2>2, <2>3
  <2> QED BY <2>2, <2>3, <2>4, <2>5
<1>3. \A i, j \in O : endOf(source, i) = endOf(source, j) => i = j
  <2>1. O \subseteq Nat
    BY DEF Positions
  <2> QED BY <1>2, <2>1
<1>4. ASSUME NEW k \in C
      PROVE  \E i \in O : endOf(source, i) = k
  <2> DEFINE f == [i \in O |-> endOf(source, i)]
  <2>1. f \in [O -> C]
    BY <1>1
  <2>2. f \in Injection(O, C)
    BY <1>3, <2>1 DEF Injection, IsInjective
  <2>3. IsFiniteSet(C)
    <3>1. C \subseteq 1..Len(source) /\ IsFiniteSet(1..Len(source))
      BY UpToSize DEF Positions
    <3> QED BY <3>1, FS_Subset
  <2>4. Cardinality(O) = Cardinality(C)
    BY DEF TagsPair
  <2>5. f \in Surjection(O, C)
    <3> HIDE DEF f, O, C
    <3> QED BY <2>2, <2>3, <2>4, FS_Injection
  <2>6. PICK i \in O : f[i] = k
    <3> HIDE DEF f
    <3> QED BY <2>5 DEF Surjection
  <2> QED BY <2>6
<1> HIDE DEF O, C
<1> QED BY <1>1, <1>3, <1>4 DEF O, C

(* A range opens no less than it closes if nothing that ends in it begins  *)
(* in front of it; as much if nothing that begins in it ends behind it.    *)
LEMMA ExcessOfRange ==
  ASSUME NEW source, Len(source) \in Nat, TagsPair(source),
         NEW i \in Nat, NEW k \in Nat, i >= 1, k <= Len(source),
         \A j \in Positions(source, "open") : endOf(source, j) \in i..k => j >= i,
         NEW T
  PROVE  /\ Excess(source, T, i, k) >= 0
         /\ (\A j \in Positions(source, "open") : j \in i..k => endOf(source, j) <= k)
              => Excess(source, T, i, k) = 0
<1> DEFINE A == TagsIn(source, "open", T, i, k)
           B == TagsIn(source, "close", T, i, k)
           D == {j \in A : endOf(source, j) <= k}
           f == [j \in D |-> endOf(source, j)]
<1>1. IsFiniteSet(A) /\ Cardinality(A) \in Nat /\ IsFiniteSet(B) /\ Cardinality(B) \in Nat
  BY TagsAreFinite
<1>2. /\ \A j \in A : j \in Positions(source, "open") /\ j \in i..k /\ source[j].tag \in T
      /\ \A j \in B : j \in Positions(source, "close") /\ j \in i..k /\ source[j].tag \in T
      /\ \A j \in Positions(source, "open") : j \in i..k /\ source[j].tag \in T => j \in A
      /\ \A j \in Positions(source, "close") : j \in i..k /\ source[j].tag \in T => j \in B
  BY DEF TagsIn, Positions
<1>3. ASSUME NEW j \in Positions(source, "open")
      PROVE  /\ endOf(source, j) \in Positions(source, "close")
             /\ endOf(source, j) \in j + 1..Len(source) /\ j \in Nat
             /\ source[endOf(source, j)].tag = source[j].tag
  <2>1. /\ Closes(source, j, endOf(source, j))
        /\ endOf(source, j) \in Positions(source, "close")
        /\ source[endOf(source, j)].tag = source[j].tag
    BY ClosersMatch
  <2>2. j \in Nat
    BY DEF Positions
  <2>3. endOf(source, j) \in j + 1..Len(source)
    BY <2>1 DEF Closes
  <2> QED BY <2>1, <2>2, <2>3
<1> HIDE DEF A, B
<1>4. ASSUME NEW j \in D
      PROVE  endOf(source, j) \in B
  <2>1. j \in Positions(source, "open") /\ j \in i..k /\ source[j].tag \in T
        /\ endOf(source, j) <= k
    BY <1>2
  <2>2. endOf(source, j) \in i..k
    BY <1>3, <2>1
  <2> QED BY <1>2, <1>3, <2>1, <2>2
<1>5. ASSUME NEW e \in B
      PROVE  \E j \in D : f[j] = e
  <2>1. e \in Positions(source, "close") /\ e \in i..k /\ source[e].tag \in T
    BY <1>2
  <2>2. PICK j \in Positions(source, "open") : endOf(source, j) = e
    BY <2>1, ClosersMatch
  <2>3. j >= i /\ j < e /\ j \in Nat /\ source[j].tag \in T
    BY <1>3, <2>1, <2>2
  <2>4. j \in i..k
    BY <2>1, <2>3
  <2>5. j \in D
    BY <1>2, <2>1, <2>2, <2>3, <2>4
  <2> QED BY <2>2, <2>5
<1>6. f \in Surjection(D, B)
  BY <1>4, <1>5 DEF Surjection
<1>7. f \in Injection(D, B)
  <2>1. \A j, l \in D : f[j] = f[l] => j = l
    BY <1>2, ClosersMatch
  <2>2. f \in [D -> B]
    BY <1>4
  <2> HIDE DEF f
  <2> QED BY <2>1, <2>2 DEF Injection, IsInjective
<1>8. D \subseteq A
  OBVIOUS
<1>9. (\A j \in Positions(source, "open") : j \in i..k => endOf(source, j) <= k) => D = A
  BY <1>2
<1> HIDE DEF f, D
<1>10. IsFiniteSet(D) /\ Cardinality(D) <= Cardinality(A)
  BY <1>1, <1>8, FS_Subset
<1>11. Cardinality(B) = Cardinality(D)
  BY <1>6, <1>7, <1>10, FS_Surjection
<1>12. Excess(source, T, i, k) = Cardinality(A) - Cardinality(B)
  BY DEF Excess, A, B
<1> QED BY <1>1, <1>9, <1>10, <1>11, <1>12

(* Tags pair where, read from the left, no more are closed than opened,    *)
(* and as many in the end, whatever their names.                           *)
NeverShort(source) ==
  \A T : /\ \A k \in 0..Len(source) : Excess(source, T, 1, k) >= 0
         /\ Excess(source, T, 1, Len(source)) = 0

(* Paired tags are never short. *)
LEMMA PairedIsNeverShort ==
  ASSUME NEW source, Len(source) \in Nat, TagsPair(source)
  PROVE  NeverShort(source)
<1>1. \A j \in Positions(source, "open") :
        /\ j \in Nat /\ j >= 1 /\ endOf(source, j) \in Nat /\ endOf(source, j) <= Len(source)
  <2> SUFFICES ASSUME NEW j \in Positions(source, "open")
               PROVE  /\ j \in Nat /\ j >= 1 /\ endOf(source, j) \in Nat
                      /\ endOf(source, j) <= Len(source)
    OBVIOUS
  <2>1. j \in 1..Len(source)
    BY DEF Positions
  <2>2. Closes(source, j, endOf(source, j))
    BY ClosersMatch
  <2>3. endOf(source, j) \in j + 1..Len(source)
    BY <2>2 DEF Closes
  <2> QED BY <2>1, <2>3
<1>2. ASSUME NEW T, NEW k \in 0..Len(source)
      PROVE  /\ Excess(source, T, 1, k) >= 0
             /\ k = Len(source) => Excess(source, T, 1, k) = 0
  <2>1. /\ k \in Nat /\ 1 \in Nat /\ 1 >= 1 /\ k <= Len(source)
        /\ \A j \in Positions(source, "open") : endOf(source, j) \in 1..k => j >= 1
    BY <1>1
  <2>2. /\ Excess(source, T, 1, k) >= 0
        /\ (\A j \in Positions(source, "open") : j \in 1..k => endOf(source, j) <= k)
             => Excess(source, T, 1, k) = 0
    BY <2>1, ExcessOfRange
  <2> QED BY <1>1, <2>2
<1> QED BY <1>2 DEF NeverShort

(* Tags that are never short pair. *)
LEMMA NeverShortIsPaired ==
  ASSUME NEW source, Len(source) \in Nat, NeverShort(source)
  PROVE  TagsPair(source)
<1> DEFINE L == Len(source)
<1>1. ASSUME NEW i \in Positions(source, "open")
      PROVE  Balanced(source, i) # {}
  <2> DEFINE T == {source[i].tag}
             j == i - 1
  <2>1. i \in 1..L /\ Excess(source, T, i, i) = 1
    BY EndsWhereClosed
  <2>2. j \in 0..L /\ j + 1 = i /\ j \in Int /\ L \in Int /\ 1 \in Int /\ 1 <= i /\ i = j + 1 /\ j <= L
        /\ L \in i..L /\ i \in Nat /\ L \in Nat
    BY <2>1
  <2> HIDE DEF j, T
  <2>3. Excess(source, T, 1, j) >= 0 /\ Excess(source, T, 1, L) = 0
    BY <2>2 DEF NeverShort
  <2> DEFINE first == 1
  <2>a. /\ first \in Int /\ j \in Int /\ i \in Int /\ L \in Int
        /\ i = j + 1 /\ first <= i /\ j <= L
    BY <2>2
  <2> HIDE DEF L, first
  <2>4. /\ Excess(source, T, first, L) = Excess(source, T, first, j) + Excess(source, T, i, L)
        /\ Excess(source, T, first, j) \in Int /\ Excess(source, T, i, L) \in Int
    <3>1. first <= j + 1
      BY <2>a
    <3>2. Excess(source, T, first, L) = Excess(source, T, first, j) + Excess(source, T, j + 1, L)
      BY <2>a, <3>1, ExcessAdds
    <3>3. Excess(source, T, first, j) \in Int
      BY <2>a, <3>1, ExcessAdds
    <3>4. Excess(source, T, j + 1, L) \in Int
      BY <2>a, <3>1, ExcessAdds
    <3> QED BY <2>a, <3>2, <3>3, <3>4
  <2>5. Excess(source, T, i, L) <= 0
    BY <2>3, <2>4 DEF first
  <2>6. PICK m \in i + 1..L : /\ Excess(source, T, i, m) = 0
                              /\ \A k \in i..m - 1 : Excess(source, T, i, k) > 0
    BY <2>1, <2>2, <2>5, ExcessReturns
  <2>7. Closes(source, i, m)
    BY <2>6 DEF Closes, T, L
  <2> QED BY <2>7, EndsWhereClosed
<1>2. Cardinality(Positions(source, "open")) = Cardinality(Positions(source, "close"))
  <2> DEFINE T == {source[n].tag : n \in 1..L}
             o == Cardinality(Positions(source, "open"))
             c == Cardinality(Positions(source, "close"))
  <2>1. \A kind : Positions(source, kind) = TagsIn(source, kind, T, 1, L)
    BY DEF Positions, TagsIn
  <2>2. Excess(source, T, 1, L) = 0
    BY DEF NeverShort
  <2>3. Excess(source, T, 1, L) = o - c
    BY <2>1 DEF Excess
  <2>4. o \in Nat /\ c \in Nat
    <3>1. 1 \in Int /\ L \in Int
      OBVIOUS
    <3> HIDE DEF T, L
    <3> QED BY <2>1, <3>1, TagsAreFinite
  <2> HIDE DEF o, c
  <2>5. o = c
    BY <2>2, <2>3, <2>4
  <2> QED BY <2>5 DEF o, c
<1> QED BY <1>1, <1>2 DEF TagsPair
-----------------------------------------------------------------------------
(* What the parts of a splice open: what they did where they were. *)
PartsOpen(t, s, a, z, r, T) ==
  /\ \A i \in 1..a + 1, k \in 0..a : Excess(t, T, i, k) = Excess(s, T, i, k)
  /\ \A i \in 1..Len(r) + 1, k \in 0..Len(r) :
       Excess(t, T, a + i, a + k) = Excess(r, T, i, k)
  /\ \A i \in z + 1..Len(s) + 1, k \in z..Len(s) :
       Excess(t, T, a + Len(r) + (i - z), a + Len(r) + (k - z)) = Excess(s, T, i, k)

LEMMA ExcessOfParts ==
  ASSUME NEW Tokens, NEW t, NEW s, NEW a \in Nat, NEW z \in Nat, NEW r,
         IsSplice(Tokens, t, s, a, z, r), a <= z, z <= Len(s),
         Len(s) \in Nat, Len(r) \in Nat, NEW T
  PROVE  PartsOpen(t, s, a, z, r, T)
<1>1. ASSUME NEW i \in 1..a + 1, NEW k \in 0..a
      PROVE  Excess(t, T, i, k) = Excess(s, T, i, k)
  <2> DEFINE d == 0
  <2>1. MovedBy(t, s, i, k, d)
    BY DEF IsSplice, MovedBy
  <2>2. i \in Int /\ k \in Int /\ d \in Int /\ i = i + d /\ k = k + d
    OBVIOUS
  <2> HIDE DEF d
  <2> QED BY <2>1, <2>2, ExcessMoves
<1>2. ASSUME NEW i \in 1..Len(r) + 1, NEW k \in 0..Len(r)
      PROVE  Excess(t, T, a + i, a + k) = Excess(r, T, i, k)
  <2>1. ASSUME NEW p \in i..k
        PROVE  t[p + a] = r[p]
    <3>1. p \in 1..Len(r) /\ p + a = a + p
      OBVIOUS
    <3> QED BY <3>1 DEF IsSplice
  <2>2. MovedBy(t, r, i, k, a)
    BY <2>1 DEF MovedBy
  <2>3. i \in Int /\ k \in Int /\ a \in Int /\ a + i = i + a /\ a + k = k + a
    OBVIOUS
  <2> QED BY <2>2, <2>3, ExcessMoves
<1>3. ASSUME NEW i \in z + 1..Len(s) + 1, NEW k \in z..Len(s)
      PROVE  Excess(t, T, a + Len(r) + (i - z), a + Len(r) + (k - z)) = Excess(s, T, i, k)
  <2> DEFINE d == a + Len(r) - z
  <2>1. d \in Int /\ i \in Int /\ k \in Int
        /\ \A p \in Int : p + d = a + Len(r) + (p - z)
    OBVIOUS
  <2>2. ASSUME NEW p \in i..k
        PROVE  t[p + d] = s[p]
    <3>1. p \in z + 1..Len(s) /\ p \in Int
      OBVIOUS
    <3>2. t[a + Len(r) + (p - z)] = s[p]
      BY <3>1 DEF IsSplice
    <3> QED BY <2>1, <3>1, <3>2
  <2> HIDE DEF d
  <2>3. MovedBy(t, s, i, k, d)
    BY <2>2 DEF MovedBy
  <2> DEFINE x == a + Len(r) + (i - z)
             y == a + Len(r) + (k - z)
  <2>4. x = i + d /\ y = k + d /\ x \in Int /\ y \in Int
    BY <2>1
  <2> HIDE DEF x, y
  <2>5. Excess(t, T, x, y) = Excess(s, T, i, k)
    BY <2>1, <2>3, <2>4, ExcessMoves
  <2> QED BY <2>5 DEF x, y
<1> QED BY <1>1, <1>2, <1>3 DEF PartsOpen

(* What a range opens that begins in front of what is replaced and ends in *)
(* its replacement or behind it.                                           *)
OpensAround(t, s, a, z, r, T, i) ==
  /\ \A k \in 0..Len(r) : Excess(t, T, i, a + k) = Excess(s, T, i, a) + Excess(r, T, 1, k)
  /\ \A k \in z..Len(s) : Excess(t, T, i, a + Len(r) + (k - z)) = Excess(s, T, i, k)

(* If neither what is replaced nor what replaces it opens anything in the  *)
(* end, a range around it opens what it did.                               *)
LEMMA ExcessAround ==
  ASSUME NEW Tokens, NEW t, NEW s, NEW a \in Nat, NEW z \in Nat, NEW r,
         IsSplice(Tokens, t, s, a, z, r), a <= z, z <= Len(s),
         Len(s) \in Nat, Len(r) \in Nat, NEW T,
         Excess(s, T, a + 1, z) = 0, Excess(r, T, 1, Len(r)) = 0,
         NEW i \in 1..a + 1
  PROVE  OpensAround(t, s, a, z, r, T, i)
<1>0. /\ \A j \in 1..a + 1, k \in 0..a : Excess(t, T, j, k) = Excess(s, T, j, k)
      /\ \A j \in 1..Len(r) + 1, k \in 0..Len(r) :
           Excess(t, T, a + j, a + k) = Excess(r, T, j, k)
      /\ \A j \in z + 1..Len(s) + 1, k \in z..Len(s) :
           Excess(t, T, a + Len(r) + (j - z), a + Len(r) + (k - z)) = Excess(s, T, j, k)
  <2>1. PartsOpen(t, s, a, z, r, T)
    BY ExcessOfParts
  <2> QED BY <2>1 DEF PartsOpen
<1> DEFINE R == Len(r)
           L == Len(s)
<1>1. /\ i \in Int /\ a \in Int /\ z \in Int /\ R \in Nat /\ L \in Nat /\ i <= a + 1 /\ i >= 1
      /\ a <= z /\ z <= L
  OBVIOUS
<1>2. Excess(t, T, i, a) = Excess(s, T, i, a) /\ Excess(s, T, i, a) \in Int
  <2>1. a \in 0..a
    BY <1>1
  <2>2. Excess(t, T, i, a) = Excess(s, T, i, a)
    BY <1>0, <2>1
  <2>3. a <= a
    BY <1>1
  <2>4. Excess(s, T, i, a) \in Int
    BY <1>1, <2>3, ExcessAdds
  <2> QED BY <2>2, <2>4
<1>3. ASSUME NEW k \in 0..R
      PROVE  Excess(t, T, i, a + k) = Excess(s, T, i, a) + Excess(r, T, 1, k)
  <2> DEFINE y == a + k
  <2>1. 1 \in 1..R + 1 /\ k \in 0..R /\ y \in Int /\ a <= y
    BY <1>1
  <2>2. Excess(t, T, a + 1, y) = Excess(r, T, 1, k)
    BY <1>0, <2>1
  <2> HIDE DEF y, R
  <2>3. Excess(t, T, i, y) = Excess(t, T, i, a) + Excess(t, T, a + 1, y)
    BY <1>1, <2>1, ExcessAdds
  <2>4. Excess(t, T, i, y) = Excess(s, T, i, a) + Excess(r, T, 1, k)
    BY <1>2, <2>2, <2>3
  <2> QED BY <2>4 DEF y
<1>4. ASSUME NEW k \in z..L
      PROVE  Excess(t, T, i, a + R + (k - z)) = Excess(s, T, i, k)
  <2> DEFINE m == a + R
             y == a + R + (k - z)
  <2>1. /\ R \in 0..R /\ z + 1 \in z + 1..L + 1 /\ k \in z..L /\ k \in Int
        /\ m \in Int /\ y \in Int /\ i <= m + 1 /\ m <= y
        /\ i <= z + 1 /\ z <= k
        /\ a + R + ((z + 1) - z) = m + 1
    BY <1>1
  <2>2. Excess(t, T, i, m) = Excess(s, T, i, a)
    <3>1. Excess(t, T, i, m) = Excess(s, T, i, a) + Excess(r, T, 1, R)
      BY <1>3, <2>1
    <3>2. Excess(r, T, 1, R) = 0
      OBVIOUS
    <3> HIDE DEF m, R
    <3> QED BY <1>2, <3>1, <3>2
  <2>3. Excess(t, T, m + 1, y) = Excess(s, T, z + 1, k)
    <3> DEFINE x == a + R + ((z + 1) - z)
    <3>1. Excess(t, T, x, y) = Excess(s, T, z + 1, k)
      BY <1>0, <2>1
    <3>2. x = m + 1
      BY <2>1
    <3> HIDE DEF x, m, y
    <3> QED BY <3>1, <3>2
  <2> HIDE DEF m, y, R, L
  <2>4. Excess(t, T, i, y) = Excess(t, T, i, m) + Excess(t, T, m + 1, y)
    BY <1>1, <2>1, ExcessAdds
  <2>5. Excess(s, T, i, z) = Excess(s, T, i, a)
    <3>1. Excess(s, T, i, z) = Excess(s, T, i, a) + Excess(s, T, a + 1, z)
      BY <1>1, ExcessAdds
    <3> QED BY <1>2, <3>1
  <2>6. Excess(s, T, i, k) = Excess(s, T, i, z) + Excess(s, T, z + 1, k)
    BY <1>1, <2>1, ExcessAdds
  <2>7. Excess(t, T, i, y) = Excess(s, T, i, k)
    BY <2>2, <2>3, <2>4, <2>5, <2>6
  <2> QED BY <2>7 DEF y
<1> QED BY <1>3, <1>4 DEF R, L, OpensAround

(* Where paired tags replace a range that opens nothing in the end, the    *)
(* tags of the whole pair again.                                           *)
LEMMA SplicePairs ==
  ASSUME NEW Tokens, NEW t, NEW s, NEW a \in Nat, NEW z \in Nat, NEW r,
         IsSplice(Tokens, t, s, a, z, r), a <= z, z <= Len(s),
         Len(s) \in Nat, Len(r) \in Nat,
         TagsPair(s), TagsPair(r), \A T : Excess(s, T, a + 1, z) = 0
  PROVE  Len(t) \in Nat /\ TagsPair(t)
<1> DEFINE R == Len(r)
           L == Len(s)
<1>1. /\ a \in Int /\ z \in Int /\ R \in Nat /\ L \in Nat /\ a <= z /\ z <= L
      /\ Len(t) = a + R + (L - z) /\ Len(t) \in Nat /\ 1 \in 1..a + 1
  BY DEF IsSplice
<1>2. NeverShort(s) /\ NeverShort(r)
  BY PairedIsNeverShort
<1>3. ASSUME NEW T
      PROVE  /\ \A k \in 0..Len(t) : Excess(t, T, 1, k) >= 0
             /\ Excess(t, T, 1, Len(t)) = 0
  <2>1. /\ \A k \in 0..L : Excess(s, T, 1, k) >= 0
        /\ Excess(s, T, 1, L) = 0
        /\ \A k \in 0..R : Excess(r, T, 1, k) >= 0
        /\ Excess(r, T, 1, Len(r)) = 0
    BY <1>2 DEF NeverShort
  <2>2. /\ \A k \in 0..Len(r) :
             Excess(t, T, 1, a + k) = Excess(s, T, 1, a) + Excess(r, T, 1, k)
        /\ \A k \in z..Len(s) : Excess(t, T, 1, a + Len(r) + (k - z)) = Excess(s, T, 1, k)
    <3>1. Excess(s, T, a + 1, z) = 0
      OBVIOUS
    <3>2. OpensAround(t, s, a, z, r, T, 1)
      BY <1>1, <2>1, <3>1, ExcessAround
    <3> QED BY <3>2 DEF OpensAround
  <2>3. \A k \in 0..a : Excess(t, T, 1, k) = Excess(s, T, 1, k)
    <3>1. PartsOpen(t, s, a, z, r, T)
      BY ExcessOfParts
    <3> QED BY <1>1, <3>1 DEF PartsOpen
  <2>4. \A k \in 0..L : Excess(s, T, 1, k) \in Int
    <3> SUFFICES ASSUME NEW k \in 0..L
                 PROVE  Excess(s, T, 1, k) \in Int
      OBVIOUS
    <3>1. 1 \in Int /\ k \in Int /\ 1 <= k + 1 /\ k <= k
      BY <1>1
    <3> QED BY <3>1, ExcessAdds
  <2>5. \A k \in 0..R : Excess(r, T, 1, k) \in Int
    <3> SUFFICES ASSUME NEW k \in 0..R
                 PROVE  Excess(r, T, 1, k) \in Int
      OBVIOUS
    <3>1. 1 \in Int /\ k \in Int /\ 1 <= k + 1 /\ k <= k
      BY <1>1
    <3> QED BY <3>1, ExcessAdds
  <2>6. ASSUME NEW k \in 0..Len(t)
        PROVE  Excess(t, T, 1, k) >= 0
    <3>1. CASE k <= a
      BY <1>1, <2>1, <2>3, <3>1
    <3>2. CASE a < k /\ k <= a + R
      <4> DEFINE l == k - a
      <4>1. l \in 0..R /\ a + l = k /\ a \in 0..L
        BY <1>1, <3>2
      <4> HIDE DEF l
      <4>2. Excess(t, T, 1, k) = Excess(s, T, 1, a) + Excess(r, T, 1, l)
        BY <2>2, <4>1
      <4>3. /\ Excess(s, T, 1, a) \in Int /\ Excess(r, T, 1, l) \in Int
            /\ Excess(s, T, 1, a) >= 0 /\ Excess(r, T, 1, l) >= 0
        BY <2>1, <2>4, <2>5, <4>1
      <4> QED BY <4>2, <4>3
    <3>3. CASE a + R < k
      <4> DEFINE l == (k - (a + R)) + z
      <4>1. l \in z..L /\ a + R + (l - z) = k /\ l \in 0..L
        BY <1>1, <3>3
      <4> HIDE DEF l
      <4>2. Excess(t, T, 1, k) = Excess(s, T, 1, l)
        BY <2>2, <4>1
      <4> QED BY <2>1, <4>1, <4>2
    <3> QED BY <1>1, <3>1, <3>2, <3>3
  <2>7. Excess(t, T, 1, Len(t)) = 0
    <3>1. L \in z..L
      BY <1>1
    <3> QED BY <1>1, <2>1, <2>2, <3>1
  <2> QED BY <2>6, <2>7
<1>4. NeverShort(t)
  BY <1>3 DEF NeverShort
<1> QED BY <1>1, <1>4, NeverShortIsPaired

(* The elements of what replaces it end where they did in it. *)
LEMMA InnerEndsMove ==
  ASSUME NEW Tokens, NEW t, NEW s, NEW a \in Nat, NEW z \in Nat, NEW r,
         IsSplice(Tokens, t, s, a, z, r), a <= z, z <= Len(s),
         Len(s) \in Nat, Len(r) \in Nat, TagsPair(r), NEW j \in Starts(r)
  PROVE  a + j \in Starts(t) /\ endOf(t, a + j) = a + endOf(r, j)
<1> DEFINE R == Len(r)
           L == Len(s)
           i == a + j
<1>1. /\ a \in Int /\ z \in Int /\ R \in Nat /\ L \in Nat /\ a <= z /\ z <= L
      /\ Len(t) = a + R + (L - z) /\ Len(t) \in Nat
  BY DEF IsSplice
<1>2. j \in 1..R /\ i \in 1..Len(t) /\ t[i] = r[j]
  <2>1. j \in 1..R
    BY DEF Starts, Positions
  <2>2. t[i] = r[j]
    BY <2>1 DEF IsSplice
  <2> QED BY <1>1, <2>1, <2>2
<1>3. CASE r[j].kind = "void"
  <2>1. i \in Positions(t, "void")
    BY <1>2, <1>3 DEF Positions
  <2> QED BY <1>2, <1>3, <2>1 DEF Starts, endOf
<1>4. CASE r[j].kind # "void"
  <2>1. j \in Positions(r, "open") /\ r[j].kind = "open"
    BY <1>4 DEF Starts, Positions
  <2>2. i \in Positions(t, "open")
    BY <1>2, <2>1 DEF Positions
  <2> DEFINE e == endOf(r, j)
             T == {r[j].tag}
  <2>3. Closes(r, j, e)
    BY <2>1, ClosersMatch
  <2>4. /\ e \in j + 1..R /\ Excess(r, T, j, e) = 0
        /\ \A k \in j..e - 1 : Excess(r, T, j, k) > 0
    BY <2>3 DEF Closes
  <2>5. \A k \in 0..R : Excess(t, T, i, a + k) = Excess(r, T, j, k)
    <3>1. PartsOpen(t, s, a, z, r, T)
      BY ExcessOfParts
    <3>2. j \in 1..Len(r) + 1
      BY <1>2
    <3> QED BY <3>1, <3>2 DEF PartsOpen
  <2> HIDE DEF e, T
  <2>6. a + e \in i + 1..Len(t) /\ e \in 0..R
    BY <1>1, <1>2, <2>4
  <2>7. Excess(t, T, i, a + e) = 0
    BY <2>4, <2>5, <2>6
  <2>8. ASSUME NEW k \in i..(a + e) - 1
        PROVE  Excess(t, T, i, k) > 0
    <3> DEFINE l == k - a
    <3>1. l \in j..e - 1 /\ l \in 0..R /\ a + l = k
      BY <1>1, <1>2, <2>4
    <3> HIDE DEF l
    <3> QED BY <2>4, <2>5, <3>1
  <2>9. T = {t[i].tag}
    BY <1>2 DEF T
  <2>10. Closes(t, i, a + e)
    BY <2>6, <2>7, <2>8, <2>9 DEF Closes
  <2>11. endOf(t, i) = a + e
    BY <1>1, <2>2, <2>10, EndsWhereClosed
  <2> QED BY <2>2, <2>11 DEF Starts, e
<1> QED BY <1>3, <1>4

(* An element outside of what is replaced ends where its end has moved to. *)
LEMMA OuterEndsMove ==
  ASSUME NEW Tokens, NEW t, NEW s, NEW a \in Nat, NEW z \in Nat, NEW r,
         IsSplice(Tokens, t, s, a, z, r), a <= z, z <= Len(s),
         Len(s) \in Nat, Len(r) \in Nat,
         TagsPair(s), TagsPair(r), \A T : Excess(s, T, a + 1, z) = 0,
         NEW i \in Starts(s), NEW p, Moved(a, z, Len(r), i, p),
         NEW q, Moved(a, z, Len(r), endOf(s, i), q),
         endOf(s, i) <= a \/ i > z \/ (i <= a /\ endOf(s, i) > z)
  PROVE  p \in Starts(t) /\ endOf(t, p) = q
<1> DEFINE R == Len(r)
           L == Len(s)
           e == endOf(s, i)
<1>1. /\ a \in Int /\ z \in Int /\ R \in Nat /\ L \in Nat /\ a <= z /\ z <= L
      /\ Len(t) = a + R + (L - z) /\ Len(t) \in Nat
  BY DEF IsSplice
<1>2. i \in 1..L /\ e \in i..L
  <2>1. i \in 1..L
    BY DEF Starts, Positions
  <2> QED BY <2>1, EndsWithinSource
<1>3. p \in 1..Len(t) /\ t[p] = s[i]
  <2>1. CASE i <= a /\ p = i
    BY <1>1, <1>2, <2>1 DEF IsSplice
  <2>2. CASE i > z /\ p = a + R + (i - z)
    <3>1. i \in z + 1..L
      BY <1>1, <1>2, <2>2
    <3>2. t[a + R + (i - z)] = s[i]
      BY <3>1 DEF IsSplice
    <3>3. p \in 1..Len(t)
      BY <1>1, <2>2, <3>1
    <3> QED BY <2>2, <3>2, <3>3
  <2> QED BY <2>1, <2>2 DEF Moved
<1>4. CASE s[i].kind = "void"
  <2>1. e = i
    BY <1>4 DEF endOf
  <2>2. p = q
    <3> HIDE DEF e
    <3> QED BY <1>1, <1>2, <2>1 DEF Moved, e
  <2>3. p \in Positions(t, "void")
    BY <1>3, <1>4 DEF Positions
  <2> QED BY <1>3, <1>4, <2>2, <2>3 DEF Starts, endOf
<1>5. CASE s[i].kind # "void"
  <2>1. i \in Positions(s, "open") /\ s[i].kind = "open"
    BY <1>5 DEF Starts, Positions
  <2>2. p \in Positions(t, "open")
    BY <1>3, <2>1 DEF Positions
  <2> DEFINE T == {s[i].tag}
  <2>3. Closes(s, i, e)
    BY <2>1, ClosersMatch
  <2>4. /\ e \in i + 1..L /\ Excess(s, T, i, e) = 0
        /\ \A k \in i..e - 1 : Excess(s, T, i, k) > 0
    BY <2>3 DEF Closes
  <2>5. Excess(s, T, a + 1, z) = 0 /\ Excess(r, T, 1, Len(r)) = 0
        /\ \A k \in 0..R : Excess(r, T, 1, k) >= 0
    BY PairedIsNeverShort DEF NeverShort
  <2>6. PartsOpen(t, s, a, z, r, T)
    BY ExcessOfParts
  <2>7. i <= a => OpensAround(t, s, a, z, r, T, i)
    <3>1. i <= a => i \in 1..a + 1
      BY <1>1, <1>2
    <3> QED BY <2>5, <3>1, ExcessAround
  <2>8. T = {t[p].tag}
    BY <1>3
  <2>9. Moved(a, z, R, e, q) /\ Moved(a, z, R, i, p)
        /\ (e <= a \/ i > z \/ (i <= a /\ e > z))
    OBVIOUS
  <2> HIDE DEF e, T
  <2>10. ASSUME e <= a
         PROVE  Closes(t, p, q)
    <3>1. p = i /\ q = e
      BY <1>1, <1>2, <2>9, <2>10 DEF Moved
    <3>2. \A k \in i..e : Excess(t, T, i, k) = Excess(s, T, i, k)
      BY <1>1, <1>2, <2>6, <2>10 DEF PartsOpen
    <3>3. q \in p + 1..Len(t) /\ Excess(t, T, p, q) = 0
      BY <1>1, <1>2, <2>4, <2>10, <3>1, <3>2
    <3>4. \A k \in p..q - 1 : Excess(t, T, p, k) > 0
      BY <1>1, <1>2, <2>4, <3>1, <3>2
    <3> QED BY <2>8, <3>3, <3>4 DEF Closes
  <2>11. ASSUME i > z
         PROVE  Closes(t, p, q)
    <3>1. p = a + R + (i - z) /\ q = a + R + (e - z)
      BY <1>1, <1>2, <2>9, <2>11 DEF Moved
    <3>2. ASSUME NEW k \in i..e
          PROVE  Excess(t, T, p, a + R + (k - z)) = Excess(s, T, i, k)
      <4>1. i \in z + 1..Len(s) + 1 /\ k \in z..Len(s)
        BY <1>1, <1>2, <2>11
      <4>2. Excess(t, T, a + Len(r) + (i - z), a + Len(r) + (k - z)) = Excess(s, T, i, k)
        BY <2>6, <4>1 DEF PartsOpen
      <4> QED BY <3>1, <4>2
    <3>3. q \in p + 1..Len(t)
      BY <1>1, <1>2, <2>4, <2>11, <3>1
    <3>4. Excess(t, T, p, q) = 0
      BY <1>1, <1>2, <2>4, <3>1, <3>2
    <3>5. ASSUME NEW k \in p..q - 1
          PROVE  Excess(t, T, p, k) > 0
      <4> DEFINE l == (k - (a + R)) + z
      <4>1. l \in i..e - 1 /\ l \in i..e /\ k = a + R + (l - z)
        BY <1>1, <1>2, <2>11, <3>1
      <4> HIDE DEF l
      <4> QED BY <2>4, <3>2, <4>1
    <3> QED BY <2>8, <3>3, <3>4, <3>5 DEF Closes
  <2>12. ASSUME i <= a /\ e > z
         PROVE  Closes(t, p, q)
    <3>1. p = i /\ q = a + R + (e - z)
      BY <1>1, <1>2, <2>9, <2>12 DEF Moved
    <3>2. /\ \A k \in i..a : Excess(t, T, i, k) = Excess(s, T, i, k)
          /\ \A k \in 0..R : Excess(t, T, i, a + k) = Excess(s, T, i, a) + Excess(r, T, 1, k)
          /\ \A k \in z..L : Excess(t, T, i, a + R + (k - z)) = Excess(s, T, i, k)
      BY <1>1, <1>2, <2>6, <2>7, <2>12 DEF PartsOpen, OpensAround
    <3>3. q \in p + 1..Len(t) /\ e \in z..L
      BY <1>1, <1>2, <2>4, <2>12, <3>1
    <3>4. Excess(t, T, p, q) = 0
      BY <2>4, <3>1, <3>2, <3>3
    <3>5. ASSUME NEW k \in p..q - 1
          PROVE  Excess(t, T, p, k) > 0
      <4>1. CASE k <= a
        <5>1. k \in i..a /\ k \in i..e - 1
          BY <1>1, <1>2, <2>12, <3>1, <4>1
        <5> QED BY <2>4, <3>1, <3>2, <5>1
      <4>2. CASE a < k /\ k <= a + R
        <5> DEFINE l == k - a
        <5>1. l \in 0..R /\ k = a + l /\ a \in i..e - 1
          BY <1>1, <1>2, <2>12, <3>1, <4>2
        <5> HIDE DEF l
        <5>2. Excess(t, T, p, k) = Excess(s, T, i, a) + Excess(r, T, 1, l)
          BY <3>1, <3>2, <5>1
        <5>3. Excess(s, T, i, a) > 0 /\ Excess(r, T, 1, l) >= 0
          BY <2>4, <2>5, <5>1
        <5>4. Excess(s, T, i, a) \in Int /\ Excess(r, T, 1, l) \in Int
          <6>1. i \in Int /\ a \in Int /\ i <= a + 1 /\ a <= a
                /\ 1 \in Int /\ l \in Int /\ 1 <= l + 1 /\ l <= l
            BY <1>1, <1>2, <5>1
          <6>2. Excess(s, T, i, a) \in Int
            BY <6>1, ExcessAdds
          <6>3. Excess(r, T, 1, l) \in Int
            BY <6>1, ExcessAdds
          <6> QED BY <6>2, <6>3
        <5> QED BY <5>2, <5>3, <5>4
      <4>3. CASE a + R < k
        <5> DEFINE l == (k - (a + R)) + z
        <5>1. l \in i..e - 1 /\ l \in z..L /\ k = a + R + (l - z)
          BY <1>1, <1>2, <2>12, <3>1, <4>3
        <5> HIDE DEF l
        <5> QED BY <2>4, <3>1, <3>2, <5>1
      <4> QED BY <1>1, <1>2, <3>1, <3>3, <4>1, <4>2, <4>3
    <3> QED BY <2>8, <3>3, <3>4, <3>5 DEF Closes
  <2>13. Closes(t, p, q)
    BY <2>9, <2>10, <2>11, <2>12
  <2>14. endOf(t, p) = q
    BY <1>1, <2>2, <2>13, EndsWhereClosed
  <2> QED BY <2>2, <2>14 DEF Starts
<1> QED BY <1>4, <1>5
-----------------------------------------------------------------------------
(* Where elements begin and end. *)
LEMMA ElementsHaveEnds ==
  ASSUME NEW source, Len(source) \in Nat, TagsPair(source)
  PROVE  \A i \in Starts(source) :
           /\ i \in 1..Len(source) /\ endOf(source, i) \in i..Len(source)
           /\ i \in Nat /\ endOf(source, i) \in Nat /\ i >= 1
           /\ endOf(source, i) = i <=> source[i].kind = "void"
<1> SUFFICES ASSUME NEW i \in Starts(source)
             PROVE  /\ i \in 1..Len(source) /\ endOf(source, i) \in i..Len(source)
                    /\ i \in Nat /\ endOf(source, i) \in Nat /\ i >= 1
                    /\ endOf(source, i) = i <=> source[i].kind = "void"
  OBVIOUS
<1>1. i \in 1..Len(source)
  BY DEF Starts, Positions
<1>2. /\ endOf(source, i) \in i..Len(source)
      /\ endOf(source, i) = i <=> source[i].kind = "void"
  BY EndsWithinSource
<1> DEFINE e == endOf(source, i)
<1> HIDE DEF e
<1>3. e \in i..Len(source) => e \in Nat
  BY <1>1
<1> QED BY <1>1, <1>2, <1>3 DEF e

(* No element of a source crosses the range behind a up to z. *)
Whole(source, a, z) ==
  \A i \in Starts(source) :
    \/ a < i /\ endOf(source, i) <= z
    \/ endOf(source, i) <= a
    \/ z < i
    \/ i <= a /\ z < endOf(source, i)

(* A range that no element crosses opens nothing in the end. *)
LEMMA WholeOpensNothing ==
  ASSUME NEW source, Len(source) \in Nat, TagsPair(source),
         NEW a \in Nat, NEW z \in Nat, a <= z, z <= Len(source), Whole(source, a, z),
         NEW T
  PROVE  Excess(source, T, a + 1, z) = 0
<1> DEFINE first == a + 1
<1>1. first \in Nat /\ first >= 1 /\ \A n \in Nat : n >= first <=> n > a
  OBVIOUS
<1>2. ASSUME NEW j \in Positions(source, "open")
      PROVE  /\ endOf(source, j) \in first..z => j >= first
             /\ j \in first..z => endOf(source, j) <= z
  <2>1. j \in Starts(source)
    BY DEF Starts
  <2> DEFINE e == endOf(source, j)
  <2>2. j \in Nat /\ e \in Nat /\ j <= e
    <3>1. j \in 1..Len(source) /\ e \in j..Len(source)
      BY <2>1, ElementsHaveEnds
    <3> HIDE DEF e
    <3> QED BY <3>1
  <2>3. (a < j /\ e <= z) \/ e <= a \/ z < j \/ (j <= a /\ z < e)
    BY <2>1 DEF Whole
  <2> HIDE DEF e, first
  <2>4. \/ e \notin first..z /\ j \notin first..z
        \/ j >= first /\ e <= z
    BY <1>1, <2>2, <2>3
  <2> QED BY <2>4 DEF e
<1> HIDE DEF first
<1>3. \A j \in Positions(source, "open") : endOf(source, j) \in first..z => j >= first
  BY <1>2
<1>4. \A j \in Positions(source, "open") : j \in first..z => endOf(source, j) <= z
  BY <1>2
<1>5. Excess(source, T, first, z) = 0
  BY <1>1, <1>3, <1>4, ExcessOfRange
<1> QED BY <1>5 DEF first

(* The elements of a splice: those outside of what is replaced, moved, and *)
(* those of what replaces it.                                              *)
ElementsMove(t, s, a, z, r) ==
  /\ \A j \in Starts(r) : a + j \in Starts(t) /\ endOf(t, a + j) = a + endOf(r, j)
  /\ \A i \in Starts(s) : \A p :
       Moved(a, z, Len(r), i, p) =>
         /\ p \in Starts(t) /\ t[p] = s[i]
         /\ Moved(a, z, Len(r), endOf(s, i), endOf(t, p))
  /\ \A p \in Starts(t) :
       \/ \E j \in Starts(r) : p = a + j
       \/ \E i \in Starts(s) : Moved(a, z, Len(r), i, p)

(* Paired tags for a range that no element crosses. *)
LEMMA WholeSplice ==
  ASSUME NEW Tokens, NEW t, NEW s, NEW a \in Nat, NEW z \in Nat, NEW r,
         IsSplice(Tokens, t, s, a, z, r), a <= z, z <= Len(s),
         Len(s) \in Nat, Len(r) \in Nat,
         TagsPair(s), TagsPair(r), Whole(s, a, z)
  PROVE  Len(t) \in Nat /\ TagsPair(t) /\ ElementsMove(t, s, a, z, r)
<1> DEFINE R == Len(r)
           L == Len(s)
<1>1. \A T : Excess(s, T, a + 1, z) = 0
  BY WholeOpensNothing
<1>2. Len(t) \in Nat /\ TagsPair(t)
  BY <1>1, SplicePairs
<1>3. ASSUME NEW j \in Starts(r)
      PROVE  a + j \in Starts(t) /\ endOf(t, a + j) = a + endOf(r, j)
  BY InnerEndsMove
<1>4. ASSUME NEW i \in Starts(s), NEW p, Moved(a, z, R, i, p)
      PROVE  /\ p \in Starts(t) /\ t[p] = s[i]
             /\ Moved(a, z, R, endOf(s, i), endOf(t, p))
  <2> DEFINE e == endOf(s, i)
             q == IF e <= a THEN e ELSE a + R + (e - z)
  <2>1. i \in Nat /\ e \in Nat /\ i <= e
    BY ElementsHaveEnds
  <2>2. (a < i /\ e <= z) \/ e <= a \/ z < i \/ (i <= a /\ z < e)
    BY DEF Whole
  <2>3. i <= a \/ i > z
    BY <1>4 DEF Moved
  <2>4. e <= a \/ i > z \/ (i <= a /\ e > z)
    <3> HIDE DEF e
    <3> QED BY <2>1, <2>2, <2>3
  <2>5. Moved(a, z, R, e, q)
    <3> HIDE DEF e
    <3> QED BY <2>1, <2>4 DEF Moved
  <2>6. Moved(a, z, Len(r), i, p) /\ Moved(a, z, Len(r), endOf(s, i), q)
    BY <1>4, <2>5
  <2> HIDE DEF q
  <2>7. p \in Starts(t) /\ endOf(t, p) = q
    BY <1>1, <2>4, <2>6, OuterEndsMove
  <2>8. t[p] = s[i]
    <3>1. i \in 1..L
      BY DEF Starts, Positions
    <3>2. \/ i \in 1..a /\ p = i
          \/ i \in z + 1..L /\ p = a + R + (i - z)
      BY <1>4, <3>1 DEF Moved
    <3> QED BY <3>2 DEF IsSplice
  <2> QED BY <2>5, <2>7, <2>8
<1>5. ASSUME NEW p \in Starts(t)
      PROVE  \/ \E j \in Starts(r) : p = a + j
             \/ \E i \in Starts(s) : Moved(a, z, R, i, p)
  <2>1. /\ p \in 1..Len(t) /\ t[p].kind \in {"open", "void"}
        /\ Len(t) = a + R + (L - z)
        /\ R \in Nat /\ L \in Nat
    BY DEF Starts, Positions, IsSplice
  <2>2. \A x : \A i \in 1..Len(x) : x[i].kind \in {"open", "void"} => i \in Starts(x)
    BY DEF Starts, Positions
  <2>3. CASE p <= a
    <3>1. p \in 1..a /\ p \in 1..L
      BY <2>1, <2>3
    <3>2. t[p] = s[p]
      BY <3>1 DEF IsSplice
    <3>3. p \in Starts(s)
      BY <2>1, <2>2, <3>1, <3>2
    <3> QED BY <2>3, <3>3 DEF Moved
  <2>4. CASE a < p /\ p <= a + R
    <3> DEFINE j == p - a
    <3>1. j \in 1..R /\ a + j = p
      BY <2>1, <2>4
    <3> HIDE DEF j
    <3>2. t[a + j] = r[j]
      BY <3>1 DEF IsSplice
    <3>3. j \in Starts(r)
      BY <2>1, <2>2, <3>1, <3>2
    <3> QED BY <3>1, <3>3
  <2>5. CASE p > a + R
    <3> DEFINE i == (p - (a + R)) + z
    <3>1. i \in z + 1..L /\ i \in 1..L /\ a + R + (i - z) = p /\ i > z
      BY <2>1, <2>5
    <3> HIDE DEF i
    <3>2. t[a + R + (i - z)] = s[i]
      BY <3>1 DEF IsSplice
    <3>3. i \in Starts(s)
      BY <2>1, <2>2, <3>1, <3>2
    <3> QED BY <3>1, <3>3 DEF Moved
  <2>6. p \in Nat /\ a + R \in Nat /\ (p <= a \/ (a < p /\ p <= a + R) \/ p > a + R)
    <3> HIDE DEF R, L
    <3> QED BY <2>1
  <2> QED BY <2>3, <2>4, <2>5, <2>6
<1>6. ElementsMove(t, s, a, z, r)
  BY <1>3, <1>4, <1>5 DEF ElementsMove
<1> QED BY <1>2, <1>6

(* Elements lie apart, or one of them between the tags of the other. *)
Nested(source) ==
  \A i, j \in Starts(source) :
    i < j /\ j <= endOf(source, i) => endOf(source, j) < endOf(source, i)

(* A splice of nested elements that crosses none has nested elements. *)
LEMMA NestedSplice ==
  ASSUME NEW Tokens, NEW t, NEW s, NEW a \in Nat, NEW z \in Nat, NEW r,
         IsSplice(Tokens, t, s, a, z, r), a <= z, z <= Len(s),
         Len(s) \in Nat, Len(r) \in Nat,
         TagsPair(s), TagsPair(r), Whole(s, a, z), Nested(s), Nested(r)
  PROVE  Nested(t)
<1> DEFINE R == Len(r)
<1>1. ElementsMove(t, s, a, z, r) /\ R \in Nat
  BY WholeSplice
<1> SUFFICES ASSUME NEW p \in Starts(t), NEW q \in Starts(t), p < q, q <= endOf(t, p)
             PROVE  endOf(t, q) < endOf(t, p)
  BY DEF Nested
<1> DEFINE Inner(x, j) == j \in Starts(r) /\ x = a + j
           Outer(x, i) == i \in Starts(s) /\ Moved(a, z, R, i, x)
<1>2. /\ \A x \in Starts(t) : (\E j : Inner(x, j)) \/ (\E i : Outer(x, i))
      /\ \A x, j : Inner(x, j) => endOf(t, x) = a + endOf(r, j)
      /\ \A x, i : Outer(x, i) => Moved(a, z, R, endOf(s, i), endOf(t, x))
  BY <1>1 DEF ElementsMove
<1>3. \A j \in Starts(r) : j \in 1..R /\ endOf(r, j) \in j..R /\ j \in Nat /\ endOf(r, j) \in Nat
  BY ElementsHaveEnds
<1>4. \A i \in Starts(s) : i \in Nat /\ endOf(s, i) \in Nat /\ i >= 1 /\ i <= endOf(s, i)
  BY ElementsHaveEnds
<1> DEFINE ep == endOf(t, p)
           eq == endOf(t, q)
<1>5. ASSUME NEW i, NEW j, Inner(p, i), Inner(q, j)
      PROVE  eq < ep
  <2>1. p = a + i /\ q = a + j /\ ep = a + endOf(r, i) /\ eq = a + endOf(r, j)
    BY <1>2, <1>5
  <2>2. i \in Starts(r) /\ j \in Starts(r)
    BY <1>5
  <2> DEFINE ei == endOf(r, i)
             ej == endOf(r, j)
  <2>3. i \in Nat /\ j \in Nat /\ ei \in Nat /\ ej \in Nat
    BY <1>3, <2>2
  <2>4. i < j /\ j <= ei => ej < ei
    BY <2>2 DEF Nested
  <2>5. p < q /\ q <= ep
    OBVIOUS
  <2> HIDE DEF ei, ej, ep, eq
  <2> QED BY <2>1, <2>3, <2>4, <2>5 DEF ei, ej
<1>6. ASSUME NEW i, NEW j, Inner(p, i), Outer(q, j)
      PROVE  eq < ep
  <2> DEFINE ei == endOf(r, i)
  <2>1. p = a + i /\ ep = a + ei /\ i \in 1..R /\ ei \in Nat /\ ei <= R
    BY <1>2, <1>3, <1>6
  <2>2. j \in Nat /\ Moved(a, z, R, j, q)
    BY <1>4, <1>6
  <2>3. p < q /\ q <= ep
    OBVIOUS
  <2> HIDE DEF ei, ep
  <2>4. FALSE
    BY <1>1, <2>1, <2>2, <2>3 DEF Moved
  <2> QED BY <2>4
<1>7. ASSUME NEW i, NEW j, Outer(p, i), Inner(q, j)
      PROVE  eq < ep
  <2> DEFINE ei == endOf(s, i)
             ej == endOf(r, j)
  <2>1. q = a + j /\ eq = a + ej /\ j \in 1..R /\ ej \in Nat /\ ej <= R
    BY <1>2, <1>3, <1>7
  <2>2. i \in Nat /\ ei \in Nat /\ Moved(a, z, R, i, p) /\ Moved(a, z, R, ei, ep)
    BY <1>2, <1>4, <1>7
  <2>3. p < q /\ q <= ep
    OBVIOUS
  <2> HIDE DEF ei, ej, ep, eq
  <2> QED BY <1>1, <2>1, <2>2, <2>3 DEF Moved
<1>8. ASSUME NEW i, NEW j, Outer(p, i), Outer(q, j)
      PROVE  eq < ep
  <2> DEFINE ei == endOf(s, i)
             ej == endOf(s, j)
  <2>1. i \in Nat /\ ei \in Nat /\ Moved(a, z, R, i, p) /\ Moved(a, z, R, ei, ep)
    BY <1>2, <1>4, <1>8
  <2>2. j \in Nat /\ ej \in Nat /\ Moved(a, z, R, j, q) /\ Moved(a, z, R, ej, eq)
    BY <1>2, <1>4, <1>8
  <2>3. i < j /\ j <= ei => ej < ei
    BY <1>8 DEF Nested
  <2>4. p < q /\ q <= ep
    OBVIOUS
  <2> HIDE DEF ei, ej, ep, eq
  <2>5. i < j /\ j <= ei
    BY <1>1, <2>1, <2>2, <2>4 DEF Moved
  <2> QED BY <1>1, <2>1, <2>2, <2>3, <2>5 DEF Moved
<1> HIDE DEF Inner, Outer
<1>9. eq < ep
  BY <1>2, <1>5, <1>6, <1>7, <1>8
<1> QED BY <1>9

(* No element crosses another where they are nested, nor the place in      *)
(* front of its closing tag.                                               *)
LEMMA NestedIsWhole ==
  ASSUME NEW source, Len(source) \in Nat, TagsPair(source), Nested(source),
         NEW i \in Starts(source)
  PROVE  /\ Whole(source, i - 1, endOf(source, i))
         /\ source[i].kind # "void" =>
              Whole(source, endOf(source, i) - 1, endOf(source, i) - 1)
<1> DEFINE e == endOf(source, i)
<1>1. i \in Nat /\ e \in Nat /\ i >= 1 /\ i <= e /\ (e = i <=> source[i].kind = "void")
  BY ElementsHaveEnds
<1>2. ASSUME NEW j \in Starts(source)
      PROVE  /\ \/ i - 1 < j /\ endOf(source, j) <= e
                \/ endOf(source, j) <= i - 1
                \/ e < j
                \/ j <= i - 1 /\ e < endOf(source, j)
             /\ source[i].kind # "void" =>
                  \/ endOf(source, j) <= e - 1
                  \/ e - 1 < j
                  \/ j <= e - 1 /\ e - 1 < endOf(source, j)
  <2> DEFINE f == endOf(source, j)
  <2>1. j \in Nat /\ f \in Nat /\ j <= f
    BY ElementsHaveEnds
  <2>2. /\ i < j /\ j <= e => f < e
        /\ j < i /\ i <= f => e < f
        /\ j = i => e = f
    BY DEF Nested
  <2> HIDE DEF e, f
  <2>3. \/ i - 1 < j /\ f <= e
        \/ f <= i - 1
        \/ e < j
        \/ j <= i - 1 /\ e < f
    BY <1>1, <2>1, <2>2
  <2>4. f <= e - 1 \/ e - 1 < j \/ (j <= e - 1 /\ e - 1 < f)
    BY <1>1, <2>1
  <2> QED BY <2>3, <2>4 DEF f
<1> QED BY <1>2 DEF Whole
=============================================================================
