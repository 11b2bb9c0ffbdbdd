-------------------------- MODULE SelectionTheorems --------------------------
(***************************************************************************)
(* Facts about Selection, for all lists: what is selected comes from the   *)
(* list, in its order, all of it and once.                                 *)
(***************************************************************************)
EXTENDS Selection, SequenceTheorems, FiniteSetTheorems, TLAPS

\* Ranks are 1 to the number of elements, and follow their order.
LEMMA RankRange ==
  ASSUME NEW I \in SUBSET Nat, IsFiniteSet(I), NEW i \in I
  PROVE  Rank(I, i) \in 1..Cardinality(I) /\ Cardinality(I) \in Nat
<1> DEFINE L == {k \in I : k <= i}
<1>1. L \in SUBSET I /\ i \in L
  OBVIOUS
<1>2. IsFiniteSet(L) /\ Cardinality(L) <= Cardinality(I)
  BY <1>1, FS_Subset
<1>3. Cardinality(L) # 0
  BY <1>1, <1>2, FS_EmptySet
<1>4. Cardinality(L) \in Nat /\ Cardinality(I) \in Nat
  BY <1>2, FS_CardinalityType
<1> HIDE DEF L
<1>5. Cardinality(L) \in 1..Cardinality(I)
  BY <1>2, <1>3, <1>4
<1> QED BY <1>4, <1>5 DEF L, Rank

LEMMA RankStrict ==
  ASSUME NEW I \in SUBSET Nat, IsFiniteSet(I), NEW i \in I, NEW j \in I, i < j
  PROVE  Rank(I, i) < Rank(I, j)
<1> DEFINE L(x) == {k \in I : k <= x}
<1>0. \A k \in I : k <= i => k <= j
  OBVIOUS
<1>1. L(i) \in SUBSET L(j) /\ L(j) \in SUBSET I
  BY <1>0
<1>2. j \in L(j) /\ j \notin L(i)
  OBVIOUS
<1>3. IsFiniteSet(L(j))
  BY <1>1, FS_Subset
<1>4. Cardinality(L(i)) <= Cardinality(L(j)) /\ IsFiniteSet(L(i))
  BY <1>1, <1>3, FS_Subset
<1>5. Cardinality(L(i)) # Cardinality(L(j))
  BY <1>1, <1>2, <1>3, FS_Subset
<1>6. Cardinality(L(i)) \in Nat /\ Cardinality(L(j)) \in Nat
  BY <1>3, <1>4, FS_CardinalityType
<1> HIDE DEF L
<1>7. Cardinality(L(i)) < Cardinality(L(j))
  BY <1>4, <1>5, <1>6
<1> QED BY <1>7 DEF L, Rank

\* Every number up to the size of the set is a rank: ranks are one to one.
LEMMA RankOnto ==
  ASSUME NEW I \in SUBSET Nat, IsFiniteSet(I), NEW n \in 1..Cardinality(I)
  PROVE  \E i \in I : Rank(I, i) = n
<1> DEFINE N == Cardinality(I)
           f == [i \in I |-> Rank(I, i)]
<1>1. N \in Nat
  BY FS_CardinalityType
<1>2. f \in [I -> 1..N]
  BY RankRange
<1>3. \A i, j \in I : Rank(I, i) = Rank(I, j) => i = j
  <2> SUFFICES ASSUME NEW i \in I, NEW j \in I, i # j PROVE Rank(I, i) # Rank(I, j)
    OBVIOUS
  <2>1. Rank(I, i) \in Nat /\ Rank(I, j) \in Nat
    BY RankRange
  <2>2. i < j \/ j < i
    OBVIOUS
  <2> QED BY <2>1, <2>2, RankStrict
<1>4. f \in Injection(I, 1..N)
  BY <1>2, <1>3 DEF Injection, IsInjective
<1>5. IsFiniteSet(1..N) /\ Cardinality(1..N) = N
  BY <1>1, FS_Interval
<1> HIDE DEF f
<1>6. f \in Surjection(I, 1..N)
  BY <1>4, <1>5, FS_Injection
<1>7. \E i \in I : f[i] = n
  BY <1>6 DEF Surjection
<1> QED BY <1>7 DEF f

\* The n-th number of a set is in the set and has rank n; all are one.
THEOREM NthIs ==
  ASSUME NEW I \in SUBSET Nat, IsFiniteSet(I), NEW n \in 1..Cardinality(I)
  PROVE  Nth(I, n) \in I /\ Rank(I, Nth(I, n)) = n
BY RankOnto DEF Nth

THEOREM NthOrder ==
  ASSUME NEW I \in SUBSET Nat, IsFiniteSet(I),
         NEW m \in 1..Cardinality(I), NEW n \in 1..Cardinality(I), m < n
  PROVE  Nth(I, m) < Nth(I, n)
<1>1. Nth(I, m) \in I /\ Nth(I, n) \in I
  BY NthIs
<1>2. Rank(I, Nth(I, m)) = m /\ Rank(I, Nth(I, n)) = n
  BY NthIs
<1>3. m \in Nat /\ n \in Nat
  BY FS_CardinalityType
<1>4. Nth(I, m) # Nth(I, n)
  BY <1>2, <1>3
<1>5. ~(Nth(I, n) < Nth(I, m))
  <2> DEFINE a == Nth(I, m)
             b == Nth(I, n)
  <2>1. a \in I /\ b \in I /\ Rank(I, a) = m /\ Rank(I, b) = n
    BY <1>1, <1>2
  <2> HIDE DEF a, b
  <2>2. b < a => Rank(I, b) < Rank(I, a)
    BY <2>1, RankStrict
  <2>3. ~(b < a)
    BY <2>1, <2>2, <1>3
  <2> QED BY <2>3 DEF a, b
<1>6. Nth(I, m) \in Nat /\ Nth(I, n) \in Nat
  BY <1>1
<1> QED BY <1>4, <1>5, <1>6

THEOREM NthRank ==
  ASSUME NEW I \in SUBSET Nat, IsFiniteSet(I), NEW i \in I
  PROVE  Nth(I, Rank(I, i)) = i
<1>1. Rank(I, i) \in 1..Cardinality(I)
  BY RankRange
<1>2. Nth(I, Rank(I, i)) \in I /\ Rank(I, Nth(I, Rank(I, i))) = Rank(I, i)
  BY <1>1, NthIs
<1>3. Rank(I, i) \in Nat
  BY <1>1, FS_CardinalityType
<1> DEFINE j == Nth(I, Rank(I, i))
<1>4. ~(j < i) /\ ~(i < j)
  <2> HIDE DEF j
  <2>1. j \in I /\ Rank(I, j) = Rank(I, i)
    BY <1>2 DEF j
  <2>2. j < i => Rank(I, j) < Rank(I, i)
    BY <2>1, RankStrict
  <2>3. i < j => Rank(I, i) < Rank(I, j)
    BY <2>1, RankStrict
  <2> QED BY <2>1, <2>2, <2>3, <1>3
<1>5. j \in Nat /\ i \in Nat
  BY <1>2
<1> QED BY <1>4, <1>5

-----------------------------------------------------------------------------
(* Lists. *)

LEMMA PositionsAreFinite ==
  ASSUME NEW T, NEW s \in Seq(T), NEW I \in SUBSET (DOMAIN s)
  PROVE  I \in SUBSET Nat /\ IsFiniteSet(I) /\ Cardinality(I) \in Nat
<1>1. DOMAIN s = 1..Len(s) /\ Len(s) \in Nat
  BY LenProperties
<1>2. IsFiniteSet(1..Len(s))
  BY <1>1, FS_Interval
<1>3. IsFiniteSet(I)
  BY <1>1, <1>2, FS_Subset
<1> QED BY <1>1, <1>3, FS_CardinalityType

\* What is selected is a list of the same kind, as long as there are positions.
THEOREM AtType ==
  ASSUME NEW T, NEW s \in Seq(T), NEW I \in SUBSET (DOMAIN s)
  PROVE  /\ At(s, I) \in Seq(T)
         /\ Len(At(s, I)) = Cardinality(I)
         /\ DOMAIN At(s, I) = 1..Cardinality(I)
         /\ Cardinality(I) \in Nat
<1>1. I \in SUBSET Nat /\ IsFiniteSet(I) /\ Cardinality(I) \in Nat
  BY PositionsAreFinite
<1>2. \A i \in DOMAIN s : s[i] \in T
  BY ElementOfSeq, LenProperties
<1>3. \A n \in 1..Cardinality(I) : s[Nth(I, n)] \in T
  BY <1>1, <1>2, NthIs
<1>4. At(s, I) \in [1..Cardinality(I) -> T]
  BY <1>3 DEF At
<1>5. At(s, I) \in Seq(T)
  BY <1>1, <1>4, SeqDef
<1> QED BY <1>1, <1>4, <1>5, LenProperties

\* Each element of the selection is the one at its position, and positions
\* keep their order.
THEOREM AtElement ==
  ASSUME NEW T, NEW s \in Seq(T), NEW I \in SUBSET (DOMAIN s), NEW n \in DOMAIN At(s, I)
  PROVE  /\ Nth(I, n) \in I /\ At(s, I)[n] = s[Nth(I, n)]
         /\ \A m \in DOMAIN At(s, I) : m < n => Nth(I, m) < Nth(I, n)
<1>1. I \in SUBSET Nat /\ IsFiniteSet(I)
  BY PositionsAreFinite
<1>2. DOMAIN At(s, I) = 1..Cardinality(I)
  BY DEF At
<1>3. \A m \in 1..Cardinality(I) : m < n => Nth(I, m) < Nth(I, n)
  BY <1>1, <1>2, NthOrder
<1> QED BY <1>1, <1>2, <1>3, NthIs DEF At

\* Nothing at the positions is left out.
THEOREM AtCovers ==
  ASSUME NEW T, NEW s \in Seq(T), NEW I \in SUBSET (DOMAIN s), NEW i \in I
  PROVE  /\ Rank(I, i) \in DOMAIN At(s, I)
         /\ Nth(I, Rank(I, i)) = i
         /\ At(s, I)[Rank(I, i)] = s[i]
<1>1. I \in SUBSET Nat /\ IsFiniteSet(I)
  BY PositionsAreFinite
<1>2. Rank(I, i) \in 1..Cardinality(I)
  BY <1>1, RankRange
<1> QED BY <1>1, <1>2, NthRank DEF At

THEOREM AtRange ==
  ASSUME NEW T, NEW s \in Seq(T), NEW I \in SUBSET (DOMAIN s)
  PROVE  Range(At(s, I)) = {s[i] : i \in I}
<1>1. \A n \in DOMAIN At(s, I) : At(s, I)[n] \in {s[i] : i \in I}
  BY AtElement
<1>2. \A i \in I : \E n \in DOMAIN At(s, I) : At(s, I)[n] = s[i]
  BY AtCovers
<1> QED BY <1>1, <1>2 DEF Range

\* Only without positions is nothing selected.
THEOREM AtEmpty ==
  ASSUME NEW T, NEW s \in Seq(T), NEW I \in SUBSET (DOMAIN s)
  PROVE  At(s, I) = <<>> <=> I = {}
<1>1. At(s, I) \in Seq(T) /\ Len(At(s, I)) = Cardinality(I)
  BY AtType
<1>2. At(s, I) = <<>> <=> Cardinality(I) = 0
  BY <1>1, EmptySeq
<1> QED BY <1>2, PositionsAreFinite, FS_EmptySet

-----------------------------------------------------------------------------
(* What the operations of a queue do to a selection: an element that joins   *)
(* at the end is selected last, the one that leaves at the front was first.  *)

\* A number above all others comes last.
LEMMA NthOfMore ==
  ASSUME NEW I \in SUBSET Nat, IsFiniteSet(I), NEW m \in Nat, \A i \in I : i < m
  PROVE  /\ IsFiniteSet(I \cup {m}) /\ Cardinality(I \cup {m}) = Cardinality(I) + 1
         /\ \A n \in 1..Cardinality(I) : Nth(I \cup {m}, n) = Nth(I, n)
         /\ Nth(I \cup {m}, Cardinality(I) + 1) = m
<1> DEFINE J == I \cup {m}
<1>1. J \in SUBSET Nat /\ m \in J /\ m \notin I /\ I \subseteq J
  OBVIOUS
<1>2. IsFiniteSet(J) /\ Cardinality(J) = Cardinality(I) + 1
  BY <1>1, FS_AddElement
<1>3. \A i \in I : {k \in J : k <= i} = {k \in I : k <= i}
  OBVIOUS
<1>4. {k \in J : k <= m} = J
  <2>1. \A k \in J : k <= m
    OBVIOUS
  <2> HIDE DEF J
  <2> QED BY <2>1
<1> HIDE DEF J
<1>5. \A i \in I : Rank(J, i) = Rank(I, i)
  BY <1>3 DEF Rank
<1>6. Rank(J, m) = Cardinality(J)
  BY <1>4 DEF Rank
<1>7. \A i \in J : Nth(J, Rank(J, i)) = i
  BY <1>1, <1>2, NthRank
<1>8. \A n \in 1..Cardinality(I) : Nth(J, n) = Nth(I, n)
  <2> TAKE n \in 1..Cardinality(I)
  <2>1. Nth(I, n) \in I /\ Rank(I, Nth(I, n)) = n
    BY NthIs
  <2> QED BY <2>1, <1>1, <1>5, <1>7
<1>9. Nth(J, Cardinality(I) + 1) = m
  BY <1>1, <1>2, <1>6, <1>7
<1> QED BY <1>2, <1>8, <1>9 DEF J

\* One below all others comes first.
LEMMA NthOfFirst ==
  ASSUME NEW I \in SUBSET Nat, IsFiniteSet(I), NEW m \in Nat, \A i \in I : m < i
  PROVE  /\ IsFiniteSet(I \cup {m}) /\ Cardinality(I \cup {m}) = Cardinality(I) + 1
         /\ \A n \in 1..Cardinality(I) : Nth(I \cup {m}, n + 1) = Nth(I, n)
         /\ Nth(I \cup {m}, 1) = m
<1> DEFINE J == I \cup {m}
           L(i) == {k \in I : k <= i}
<1>1. J \in SUBSET Nat /\ m \in J /\ m \notin I /\ I \subseteq J
  OBVIOUS
<1>2. IsFiniteSet(J) /\ Cardinality(J) = Cardinality(I) + 1
  BY <1>1, FS_AddElement
<1>3. \A i \in I : {k \in J : k <= i} = L(i) \cup {m} /\ m \notin L(i) /\ L(i) \in SUBSET I
  OBVIOUS
<1>4. {k \in J : k <= m} = {m} /\ Cardinality({m}) = 1
  <2>1. m <= m /\ \A k \in I : ~(k <= m)
    OBVIOUS
  <2>2. {k \in J : k <= m} = {m}
    BY <2>1
  <2> QED BY <2>2, FS_Singleton
<1>5. \A i \in I : Cardinality(L(i)) = Rank(I, i)
  BY DEF Rank
<1> HIDE DEF J, L
<1>6. \A i \in I : Rank(J, i) = Rank(I, i) + 1
  <2> TAKE i \in I
  <2>1. IsFiniteSet(L(i))
    BY <1>3, FS_Subset
  <2>2. Cardinality(L(i) \cup {m}) = Cardinality(L(i)) + 1
    BY <1>3, <2>1, FS_AddElement
  <2> QED BY <1>3, <1>5, <2>2 DEF Rank
<1>7. Rank(J, m) = 1
  BY <1>4 DEF Rank
<1>8. \A i \in J : Nth(J, Rank(J, i)) = i
  BY <1>1, <1>2, NthRank
<1>9. \A n \in 1..Cardinality(I) : Nth(J, n + 1) = Nth(I, n)
  <2> TAKE n \in 1..Cardinality(I)
  <2>1. Nth(I, n) \in I /\ Rank(I, Nth(I, n)) = n
    BY NthIs
  <2> QED BY <2>1, <1>1, <1>6, <1>8
<1>10. Nth(J, 1) = m
  BY <1>1, <1>7, <1>8
<1> QED BY <1>2, <1>9, <1>10 DEF J

\* Numbers that all move down by one keep their number and their order.
LEMMA ShiftSize ==
  ASSUME NEW I \in SUBSET (Nat \ {0}), IsFiniteSet(I)
  PROVE  /\ IsFiniteSet({i - 1 : i \in I})
         /\ Cardinality({i - 1 : i \in I}) = Cardinality(I)
<1> DEFINE J == {i - 1 : i \in I}
           f == [i \in I |-> i - 1]
<1>1. f \in [I -> J]
  OBVIOUS
<1>2. \A i, j \in I : f[i] = f[j] => i = j
  OBVIOUS
<1>3. \A j \in J : \E i \in I : f[i] = j
  OBVIOUS
<1> HIDE DEF f, J
<1>4. f \in Bijection(I, J)
  BY <1>1, <1>2, <1>3 DEF Bijection, Injection, Surjection, IsInjective
<1>5. ExistsBijection(I, J)
  BY <1>4 DEF ExistsBijection
<1>6. IsFiniteSet(J) /\ Cardinality(J) = Cardinality(I)
  BY <1>5, FS_Bijection
<1> QED BY <1>6 DEF J

LEMMA NthOfShift ==
  ASSUME NEW I \in SUBSET (Nat \ {0}), IsFiniteSet(I),
         NEW n \in 1..Cardinality(I)
  PROVE  Nth({i - 1 : i \in I}, n) = Nth(I, n) - 1
<1> DEFINE J == {i - 1 : i \in I}
           i == Nth(I, n)
           L == {k \in I : k <= i}
<1>1. I \in SUBSET Nat /\ J \in SUBSET Nat
  OBVIOUS
<1>2. i \in I /\ Rank(I, i) = n
  BY <1>1, NthIs
<1> HIDE DEF i
<1>3. i - 1 \in J /\ {k \in J : k <= i - 1} = {k - 1 : k \in L}
  <2>1. \A k \in I : k - 1 <= i - 1 <=> k <= i
    BY <1>2
  <2>2. i - 1 \in J
    BY <1>2
  <2>3. {k \in J : k <= i - 1} \subseteq {k - 1 : k \in L}
    BY <2>1
  <2>4. {k - 1 : k \in L} \subseteq {k \in J : k <= i - 1}
    BY <2>1
  <2> QED BY <2>2, <2>3, <2>4
<1>4. L \in SUBSET I
  OBVIOUS
<1>5. Cardinality(L) = n
  BY <1>2 DEF Rank
<1> HIDE DEF L
<1>6. Cardinality({k - 1 : k \in L}) = n
  BY <1>4, <1>5, ShiftSize, FS_Subset
<1>7. IsFiniteSet(J)
  BY ShiftSize
<1> HIDE DEF J
<1>8. Rank(J, i - 1) = n
  BY <1>3, <1>6 DEF Rank
<1>9. Nth(J, n) = i - 1
  BY <1>1, <1>3, <1>7, <1>8, NthRank
<1> QED BY <1>9 DEF i, J

\* An element that joins the list.
THEOREM AtAppend ==
  ASSUME NEW T, NEW s \in Seq(T), NEW x \in T, NEW I \in SUBSET (DOMAIN s)
  PROVE  /\ At(Append(s, x), I) = At(s, I)
         /\ At(Append(s, x), I \cup {Len(s) + 1}) = Append(At(s, I), x)
<1> DEFINE t == Append(s, x)
           J == I \cup {Len(s) + 1}
           N == Cardinality(I)
<1>1. /\ t \in Seq(T) /\ Len(t) = Len(s) + 1 /\ Len(s) \in Nat
      /\ DOMAIN s = 1..Len(s) /\ DOMAIN t = 1..Len(t)
      /\ \A i \in DOMAIN s : t[i] = s[i]
      /\ t[Len(s) + 1] = x
  BY AppendProperties, LenProperties
<1> HIDE DEF t
<1>2. I \in SUBSET Nat /\ IsFiniteSet(I) /\ N \in Nat
  BY PositionsAreFinite
<1>3. \A i \in I : i < Len(s) + 1
  BY <1>1
<1>4. /\ Cardinality(J) = N + 1
      /\ \A n \in 1..N : Nth(J, n) = Nth(I, n)
      /\ Nth(J, N + 1) = Len(s) + 1
  <2> DEFINE e == Len(s) + 1
  <2>1. e \in Nat /\ \A i \in I : i < e
    BY <1>1, <1>3
  <2> HIDE DEF e
  <2>2. /\ Cardinality(I \cup {e}) = Cardinality(I) + 1
        /\ \A n \in 1..Cardinality(I) : Nth(I \cup {e}, n) = Nth(I, n)
        /\ Nth(I \cup {e}, Cardinality(I) + 1) = e
    BY <1>2, <2>1, NthOfMore
  <2> QED BY <2>2 DEF e
<1>5. \A n \in 1..N : Nth(I, n) \in DOMAIN s
  BY <1>2, NthIs
<1>6. J \in SUBSET (DOMAIN t) /\ I \in SUBSET (DOMAIN t)
  BY <1>1
<1>7. At(t, I) = At(s, I)
  BY <1>1, <1>5 DEF At
<1> HIDE DEF J
<1>8. /\ At(s, I) \in Seq(T) /\ Len(At(s, I)) = N /\ DOMAIN At(s, I) = 1..N
      /\ At(t, J) \in Seq(T) /\ Len(At(t, J)) = N + 1
  BY <1>1, <1>4, <1>6, AtType
<1>9. /\ \A n \in 1..N : At(t, J)[n] = At(s, I)[n]
      /\ At(t, J)[N + 1] = x
  <2>1. N + 1 \in 1..Cardinality(J) /\ \A n \in 1..N : n \in 1..Cardinality(J)
    BY <1>2, <1>4
  <2>2. At(t, J)[N + 1] = x
    BY <1>1, <1>4, <2>1 DEF At
  <2>3. \A n \in 1..N : At(t, J)[n] = At(s, I)[n]
    BY <1>1, <1>4, <1>5, <2>1 DEF At
  <2> QED BY <2>2, <2>3
<1> HIDE DEF N
<1>10. /\ Append(At(s, I), x) \in Seq(T) /\ Len(Append(At(s, I), x)) = N + 1
       /\ \A n \in 1..N : Append(At(s, I), x)[n] = At(s, I)[n]
       /\ Append(At(s, I), x)[N + 1] = x
  BY <1>8, AppendProperties
<1>11. \A n \in 1..(N + 1) : At(t, J)[n] = Append(At(s, I), x)[n]
  BY <1>2, <1>9, <1>10
<1>12. At(t, J) = Append(At(s, I), x)
  BY <1>8, <1>10, <1>11, SeqEqual
<1> QED BY <1>7, <1>12 DEF t, J

\* The first element leaves the list.
THEOREM AtTail ==
  ASSUME NEW T, NEW s \in Seq(T), s # <<>>, NEW I \in SUBSET (DOMAIN s)
  PROVE  LET J == {j \in DOMAIN Tail(s) : j + 1 \in I}
         IN  At(s, I) = IF 1 \in I THEN <<Head(s)>> \o At(Tail(s), J) ELSE At(Tail(s), J)
<1> DEFINE t == Tail(s)
           J == {j \in DOMAIN t : j + 1 \in I}
           K == I \ {1}
           N == Cardinality(K)
<1>1. /\ t \in Seq(T) /\ Len(t) = Len(s) - 1 /\ Len(s) \in Nat /\ Len(s) > 0
      /\ DOMAIN s = 1..Len(s) /\ DOMAIN t = 1..Len(t)
      /\ \A j \in DOMAIN t : t[j] = s[j + 1]
      /\ Head(s) = s[1] /\ s[1] \in T
  BY HeadTailProperties, LenProperties, EmptySeq
<1> HIDE DEF t
<1>2. K \in SUBSET (DOMAIN s) /\ K \in SUBSET (Nat \ {0}) /\ \A k \in K : 1 < k
  BY <1>1
<1>3. IsFiniteSet(K) /\ K \in SUBSET Nat /\ N \in Nat
  BY <1>2, PositionsAreFinite
<1>4. J = {k - 1 : k \in K}
  BY <1>1
<1>5. J \in SUBSET (DOMAIN t)
  OBVIOUS
<1> HIDE DEF J
<1>6. Cardinality(J) = N
  BY <1>2, <1>3, <1>4, ShiftSize
<1>7. \A n \in 1..N : Nth(J, n) = Nth(K, n) - 1 /\ Nth(K, n) \in K /\ Nth(J, n) \in DOMAIN t
  <2> TAKE n \in 1..N
  <2>1. Nth(K, n) \in K
    BY <1>3, NthIs
  <2>2. Nth(J, n) = Nth(K, n) - 1
    BY <1>2, <1>3, <1>4, NthOfShift
  <2>3. Nth(J, n) \in J
    BY <2>1, <2>2, <1>4
  <2> QED BY <2>1, <2>2, <2>3, <1>5
<1>8. \A n \in 1..N : t[Nth(J, n)] = s[Nth(K, n)]
  <2> TAKE n \in 1..N
  <2>1. t[Nth(J, n)] = s[Nth(J, n) + 1]
    BY <1>1, <1>7
  <2>2. Nth(J, n) + 1 = Nth(K, n)
    <3>1. Nth(K, n) \in Nat
      BY <1>2, <1>7
    <3>2. Nth(J, n) = Nth(K, n) - 1
      BY <1>7
    <3> HIDE DEF K
    <3> QED BY <3>1, <3>2
  <2> QED BY <2>1, <2>2
<1>9. At(s, K) = At(t, J)
  BY <1>6, <1>8 DEF At
<1>10. CASE 1 \notin I
  BY <1>9, <1>10 DEF t, J
<1>11. CASE 1 \in I
  <2>1. I = K \cup {1}
    BY <1>11
  <2> HIDE DEF K
  <2>2. /\ Cardinality(I) = N + 1 /\ Nth(I, 1) = 1
        /\ \A n \in 1..N : Nth(I, n + 1) = Nth(K, n)
    <3>1. \A k \in K : 1 < k
      BY <1>2
    <3>2. /\ Cardinality(K \cup {1}) = Cardinality(K) + 1
          /\ \A n \in 1..Cardinality(K) : Nth(K \cup {1}, n + 1) = Nth(K, n)
          /\ Nth(K \cup {1}, 1) = 1
      BY <1>3, <3>1, NthOfFirst
    <3> QED BY <2>1, <3>2
  <2>3. /\ At(s, I) \in Seq(T) /\ Len(At(s, I)) = N + 1
        /\ At(s, K) \in Seq(T) /\ Len(At(s, K)) = N
    BY <1>2, <2>2, AtType
  <2>4. At(s, I)[1] = s[1]
    BY <2>2, <1>3 DEF At
  <2>5. \A n \in 1..N : At(s, I)[n + 1] = At(s, K)[n]
    <3> TAKE n \in 1..N
    <3>1. n + 1 \in 1..Cardinality(I)
      BY <2>2, <1>3
    <3> QED BY <3>1, <2>2 DEF At
  <2> DEFINE u == <<s[1]>> \o At(s, K)
  <2>6. <<s[1]>> \in Seq(T) /\ Len(<<s[1]>>) = 1 /\ <<s[1]>>[1] = s[1]
    BY <1>1
  <2>7. /\ u \in Seq(T) /\ Len(u) = N + 1
        /\ \A i \in 1..(N + 1) : u[i] = IF i <= 1 THEN <<s[1]>>[i] ELSE At(s, K)[i - 1]
    BY <2>3, <2>6, <1>3, ConcatProperties
  <2> HIDE DEF u, N
  <2>8. \A i \in 1..(N + 1) : At(s, I)[i] = u[i]
    <3> TAKE i \in 1..(N + 1)
    <3>1. CASE i = 1
      BY <3>1, <2>4, <2>6, <2>7
    <3>2. CASE i # 1
      <4>1. i - 1 \in 1..N /\ ~(i <= 1) /\ (i - 1) + 1 = i
        BY <3>2, <1>3
      <4> QED BY <4>1, <2>5, <2>7
    <3> QED BY <3>1, <3>2
  <2>9. At(s, I) = u
    BY <2>3, <2>7, <2>8, SeqEqual
  <2> QED BY <2>9, <1>1, <1>9, <1>11 DEF u, t, J
<1> QED BY <1>10, <1>11 DEF t, J

-----------------------------------------------------------------------------
(* The elements of a list, after the operations of Sequences. *)

LEMMA RangeIndex ==
  ASSUME NEW T, NEW s \in Seq(T)
  PROVE  /\ \A i \in DOMAIN s : s[i] \in T /\ s[i] \in Range(s)
         /\ \A x \in Range(s) : x \in T /\ \E i \in DOMAIN s : s[i] = x
         /\ s = <<>> <=> Range(s) = {}
<1>1. DOMAIN s = 1..Len(s) /\ Len(s) \in Nat /\ s \in [1..Len(s) -> T]
  BY LenProperties
<1>2. s = <<>> => Range(s) = {}
  BY EmptySeq, <1>1 DEF Range
<1>3. s # <<>> => s[1] \in Range(s)
  BY <1>1, EmptySeq DEF Range
<1> QED BY <1>1, <1>2, <1>3 DEF Range

LEMMA RangeAppend ==
  ASSUME NEW T, NEW s \in Seq(T), NEW x \in T
  PROVE  Append(s, x) \in Seq(T) /\ Range(Append(s, x)) = Range(s) \cup {x}
<1>1. Append(s, x) = s \o <<x>> /\ <<x>> \in Seq(T)
  BY AppendIsConcat
<1>2. Range(<<x>>) = {x}
  BY DEF Range
<1>3. s \o <<x>> \in Seq(T) /\ Range(s \o <<x>>) = Range(s) \cup Range(<<x>>)
  BY ZenonT(40), <1>1, ConcatProperties, RangeConcatenation
<1> QED BY <1>1, <1>2, <1>3

LEMMA RangeHeadTail ==
  ASSUME NEW T, NEW s \in Seq(T), s # <<>>
  PROVE  /\ Head(s) \in T /\ Tail(s) \in Seq(T)
         /\ Range(s) = Range(Tail(s)) \cup {Head(s)}
<1>1. Head(s) \in T /\ Tail(s) \in Seq(T) /\ s = <<Head(s)>> \o Tail(s)
  BY HeadTailProperties
<1>2. Range(<<Head(s)>>) = {Head(s)}
  BY DEF Range
<1>3. <<Head(s)>> \in Seq(T)
  BY <1>1
<1>4. Range(<<Head(s)>> \o Tail(s)) = Range(<<Head(s)>>) \cup Range(Tail(s))
  BY ZenonT(30), <1>1, <1>3, RangeConcatenation
<1> QED BY <1>1, <1>2, <1>4

\* A function on 1..n is a list, and so is one on the positions of a list.
LEMMA FunctionIsSeq ==
  ASSUME NEW T, NEW S, NEW s \in Seq(S), NEW f \in [DOMAIN s -> T]
  PROVE  f \in Seq(T) /\ DOMAIN f = DOMAIN s /\ Range(f) = {f[i] : i \in DOMAIN s}
<1>1. DOMAIN s = 1..Len(s) /\ Len(s) \in Nat
  BY LenProperties
<1>2. f \in Seq(T)
  BY <1>1, SeqDef
<1> QED BY <1>2 DEF Range

-----------------------------------------------------------------------------
(* How often a list has an element of a kind, given as the set of them.      *)

Hits(P, s) == Cardinality({i \in DOMAIN s : s[i] \in P})

LEMMA HitsType ==
  ASSUME NEW T, NEW s \in Seq(T), NEW P
  PROVE  /\ Hits(P, s) \in Nat /\ IsFiniteSet({i \in DOMAIN s : s[i] \in P})
         /\ Hits(P, s) = 0 <=> \A i \in DOMAIN s : s[i] \notin P
<1> DEFINE H == {i \in DOMAIN s : s[i] \in P}
<1>1. IsFiniteSet(H) /\ Cardinality(H) \in Nat
  BY PositionsAreFinite
<1>2. Cardinality(H) = 0 <=> H = {}
  BY <1>1, FS_EmptySet
<1> QED BY <1>1, <1>2 DEF Hits

LEMMA HitsEmpty == \A P : Hits(P, <<>>) = 0
<1> SUFFICES ASSUME NEW P PROVE Hits(P, <<>>) = 0
  OBVIOUS
<1>1. {i \in DOMAIN <<>> : <<>>[i] \in P} = {}
  OBVIOUS
<1> QED BY <1>1, FS_EmptySet DEF Hits

LEMMA HitsAppend ==
  ASSUME NEW T, NEW s \in Seq(T), NEW x \in T, NEW P
  PROVE  Hits(P, Append(s, x)) = Hits(P, s) + IF x \in P THEN 1 ELSE 0
<1> DEFINE H == {i \in DOMAIN s : s[i] \in P}
           t == Append(s, x)
           K == {i \in DOMAIN t : t[i] \in P}
           n == Len(s)
<1>1. /\ DOMAIN s = 1..n /\ n \in Nat /\ DOMAIN t = 1..(n + 1)
      /\ \A i \in 1..n : t[i] = s[i]
      /\ t[n + 1] = x
  BY AppendProperties, LenProperties
<1>2. IsFiniteSet(H) /\ Cardinality(H) \in Nat /\ n + 1 \notin H
  <2>1. IsFiniteSet(H) /\ Cardinality(H) \in Nat
    BY HitsType DEF Hits
  <2> QED BY <1>1, <2>1
<1> HIDE DEF t, n
<1>3. CASE x \in P
  <2>1. K = H \cup {n + 1}
    BY <1>1, <1>3
  <2> HIDE DEF K, H
  <2>2. Cardinality(K) = Cardinality(H) + 1
    BY <1>2, <2>1, FS_AddElement
  <2> QED BY <1>3, <2>2 DEF Hits, H, K, t
<1>4. CASE x \notin P
  <2>1. K = H
    BY <1>1, <1>4
  <2> HIDE DEF K, H
  <2>2. Cardinality(K) = Cardinality(H) + 0
    BY <1>2, <2>1
  <2> QED BY <1>4, <2>2 DEF Hits, H, K, t
<1> QED BY <1>3, <1>4

LEMMA FrontIs ==
  ASSUME NEW T, NEW s \in Seq(T), s # <<>>
  PROVE  /\ SubSeq(s, 1, Len(s) - 1) \in Seq(T)
         /\ Len(SubSeq(s, 1, Len(s) - 1)) = Len(s) - 1
         /\ \A i \in 1..(Len(s) - 1) : SubSeq(s, 1, Len(s) - 1)[i] = s[i]
<1> DEFINE n == Len(s)
           t == SubSeq(s, 1, n - 1)
<1>1. n \in Nat /\ n # 0
  BY LenProperties, EmptySeq
<1> HIDE DEF n
<1>2. CASE n = 1
  <2>1. t = <<>>
    BY <1>1, <1>2 DEF n
  <2> QED BY <1>2, <2>1 DEF n
<1>3. CASE n # 1
  <2>1. 1 \in 1..n /\ n - 1 \in 1..n /\ 1 <= n - 1
    BY <1>1, <1>3
  <2> QED BY <1>1, <2>1, SubSeqProperties DEF n
<1> QED BY <1>2, <1>3

LEMMA HitsFront ==
  ASSUME NEW T, NEW s \in Seq(T), s # <<>>, NEW P
  PROVE  Hits(P, s) = Hits(P, SubSeq(s, 1, Len(s) - 1)) + IF s[Len(s)] \in P THEN 1 ELSE 0
<1> DEFINE n == Len(s)
           x == s[n]
           t == SubSeq(s, 1, n - 1)
<1>1. n \in Nat /\ n # 0 /\ DOMAIN s = 1..n
  BY LenProperties, EmptySeq
<1>2. t \in Seq(T) /\ Len(t) = n - 1 /\ \A i \in 1..(n - 1) : t[i] = s[i]
  BY FrontIs
<1>3. x \in T
  BY <1>1, ElementOfSeq
<1>4. s = Append(t, x)
  <2> HIDE DEF t, x, n
  <2>1. /\ Append(t, x) \in Seq(T) /\ Len(Append(t, x)) = n
        /\ \A i \in 1..(n - 1) : Append(t, x)[i] = s[i]
        /\ Append(t, x)[n] = x
    <3>1. Append(t, x) \in Seq(T) /\ Len(Append(t, x)) = Len(t) + 1
          /\ \A i \in 1..Len(t) : Append(t, x)[i] = t[i]
          /\ Append(t, x)[Len(t) + 1] = x
      BY <1>2, <1>3, AppendProperties
    <3> QED BY <1>1, <1>2, <3>1
  <2>2. \A i \in 1..n : i \in 1..(n - 1) \/ i = n
    BY <1>1
  <2>3. \A i \in 1..n : Append(t, x)[i] = s[i]
    BY <2>1, <2>2 DEF x
  <2> QED BY <2>1, <2>3, SeqEqual DEF n
<1> HIDE DEF t, x, n
<1>5. Hits(P, Append(t, x)) = Hits(P, t) + IF x \in P THEN 1 ELSE 0
  BY <1>2, <1>3, HitsAppend
<1> QED BY <1>4, <1>5 DEF t, x, n

LEMMA HitsTail ==
  ASSUME NEW T, NEW s \in Seq(T), s # <<>>, NEW P
  PROVE  Hits(P, s) = Hits(P, Tail(s)) + IF Head(s) \in P THEN 1 ELSE 0
<1> DEFINE t == Tail(s)
           H == {i \in DOMAIN s : s[i] \in P}
           I == H \ {1}
           K == {i \in DOMAIN t : t[i] \in P}
           J == {i - 1 : i \in I}
           n == Len(s)
<1>1. /\ n \in Nat /\ n # 0 /\ DOMAIN s = 1..n /\ Head(s) = s[1]
      /\ DOMAIN t = 1..(n - 1)
      /\ \A i \in 1..(n - 1) : t[i] = s[i + 1]
  BY LenProperties, EmptySeq, HeadTailProperties
<1>2. IsFiniteSet(H) /\ Cardinality(H) \in Nat
  BY HitsType DEF Hits
<1>3. IsFiniteSet(I) /\ Cardinality(I) = IF 1 \in H THEN Cardinality(H) - 1 ELSE Cardinality(H)
  BY <1>2, FS_RemoveElement
<1>4. K = J
  <2> HIDE DEF t, n
  <2>1. \A i \in K : i + 1 \in I /\ (i + 1) - 1 = i
    BY <1>1
  <2>2. \A i \in I : i - 1 \in 1..(n - 1) /\ (i - 1) + 1 = i /\ s[i] \in P
    BY <1>1
  <2>3. \A i \in I : i - 1 \in K
    BY <1>1, <2>2
  <2> QED BY <2>1, <2>3
<1>5. I \in SUBSET (Nat \ {0})
  BY <1>1
<1> HIDE DEF I, K
<1>6. Cardinality(K) = Cardinality(I)
  BY <1>3, <1>4, <1>5, ShiftSize
<1>7. 1 \in H <=> Head(s) \in P
  BY <1>1
<1> HIDE DEF H
<1>8. Cardinality(H) = Cardinality(K) + IF Head(s) \in P THEN 1 ELSE 0
  <2>1. CASE 1 \in H
    BY <1>2, <1>3, <1>6, <1>7, <2>1
  <2>2. CASE 1 \notin H
    BY <1>2, <1>3, <1>6, <1>7, <2>2
  <2> QED BY <2>1, <2>2
<1> QED BY <1>8 DEF Hits, H, K

LEMMA HitsPush ==
  ASSUME NEW T, NEW s \in Seq(T), NEW x \in T, NEW P
  PROVE  /\ <<x>> \o s \in Seq(T)
         /\ Hits(P, <<x>> \o s) = Hits(P, s) + IF x \in P THEN 1 ELSE 0
<1> DEFINE t == <<x>> \o s
<1>1. /\ t \in Seq(T) /\ Len(t) = Len(s) + 1 /\ Len(s) \in Nat /\ t[1] = x
      /\ \A i \in 1..Len(s) : t[i + 1] = s[i]
  <2>1. <<x>> \in Seq(T) /\ Len(<<x>>) = 1
    OBVIOUS
  <2> QED BY <2>1, ConcatProperties, LenProperties
<1> HIDE DEF t
<1>2. t # <<>>
  BY <1>1, EmptySeq
<1>3. Head(t) = x /\ Tail(t) \in Seq(T) /\ Len(Tail(t)) = Len(s)
      /\ \A i \in 1..Len(s) : Tail(t)[i] = s[i]
  BY <1>1, <1>2, HeadTailProperties
<1>4. Tail(t) = s
  BY <1>1, <1>3, SeqEqual
<1>5. Hits(P, t) = Hits(P, Tail(t)) + IF Head(t) \in P THEN 1 ELSE 0
  BY <1>1, <1>2, HitsTail
<1> QED BY <1>1, <1>3, <1>4, <1>5 DEF t

\* A selection has as many as its positions.
LEMMA HitsAt ==
  ASSUME NEW T, NEW s \in Seq(T), NEW I \in SUBSET (DOMAIN s), NEW P
  PROVE  Hits(P, At(s, I)) = Cardinality({i \in I : s[i] \in P})
<1> DEFINE t == At(s, I)
           K == {n \in DOMAIN t : t[n] \in P}
           J == {i \in I : s[i] \in P}
           f == [i \in J |-> Rank(I, i)]
<1>1. I \in SUBSET Nat /\ IsFiniteSet(I) /\ IsFiniteSet(J)
  BY PositionsAreFinite
<1>2. \A i \in J : Rank(I, i) \in K /\ Nth(I, Rank(I, i)) = i
  BY AtCovers
<1>3. \A n \in K : Nth(I, n) \in J /\ Rank(I, Nth(I, n)) = n
  <2> SUFFICES ASSUME NEW n \in K PROVE Nth(I, n) \in J /\ Rank(I, Nth(I, n)) = n
    OBVIOUS
  <2>1. Nth(I, n) \in I /\ t[n] = s[Nth(I, n)]
    BY AtElement
  <2>2. n \in 1..Cardinality(I)
    BY AtType
  <2>3. Rank(I, Nth(I, n)) = n
    BY <1>1, <2>2, NthIs
  <2> QED BY <2>1, <2>3
<1> HIDE DEF K, J
<1>4. f \in [J -> K]
  BY <1>2
<1>5. \A i, j \in J : f[i] = f[j] => i = j
  BY <1>2
<1>6. \A n \in K : \E i \in J : f[i] = n
  BY <1>3
<1> HIDE DEF f
<1>7. f \in Bijection(J, K)
  BY <1>4, <1>5, <1>6 DEF Bijection, Injection, Surjection, IsInjective
<1>8. Cardinality(K) = Cardinality(J)
  BY <1>1, <1>7, FS_Bijection DEF ExistsBijection
<1> QED BY <1>8 DEF Hits, K, J

\* What the last position selects comes last.
LEMMA AtLast ==
  ASSUME NEW T, NEW s \in Seq(T), NEW I \in SUBSET (DOMAIN s), Len(s) \in I
  PROVE  At(s, I) # <<>> /\ At(s, I)[Len(At(s, I))] = s[Len(s)]
<1>1. I \in SUBSET Nat /\ IsFiniteSet(I)
  BY PositionsAreFinite
<1>2. \A i \in I : i <= Len(s)
  BY LenProperties
<1>3. Rank(I, Len(s)) = Cardinality(I)
  <2>1. {k \in I : k <= Len(s)} = I
    BY <1>2
  <2> QED BY <2>1 DEF Rank
<1>4. At(s, I)[Rank(I, Len(s))] = s[Len(s)]
  BY AtCovers
<1>5. Len(At(s, I)) = Cardinality(I)
  BY AtType
<1>6. At(s, I) # <<>>
  BY AtEmpty
<1> QED BY <1>3, <1>4, <1>5, <1>6

\* What is left of a list without its i-th element.
LEMMA RemoveIs ==
  ASSUME NEW S, NEW s \in Seq(S), NEW i \in DOMAIN s
  PROVE  LET t == SubSeq(s, 1, i - 1) \o SubSeq(s, i + 1, Len(s))
         IN t \in Seq(S) /\ \A k \in DOMAIN t : \E j \in DOMAIN s : j # i /\ t[k] = s[j]
<1> DEFINE a == SubSeq(s, 1, i - 1)
           b == SubSeq(s, i + 1, Len(s))
           t == a \o b
<1>1. i \in 1 .. Len(s) /\ Len(s) \in Nat OBVIOUS
<1>2. a \in Seq(S) /\ Len(a) = i - 1 /\ \A k \in 1 .. i - 1 : a[k] = s[k] BY <1>1, SubSeqProperties
<1>3. b \in Seq(S) /\ Len(b) = Len(s) - i /\ \A k \in 1 .. Len(s) - i : b[k] = s[i + k]
  BY <1>1, SubSeqProperties
<1> HIDE DEF a, b
<1>4. t \in Seq(S) /\ Len(t) = Len(a) + Len(b) BY <1>2, <1>3, ConcatProperties
<1>5. ASSUME NEW k \in DOMAIN t PROVE \E j \in DOMAIN s : j # i /\ t[k] = s[j]
  <2>1. k \in 1 .. Len(s) - 1 BY <1>1, <1>2, <1>3, <1>4, <1>5
  <2>2. CASE k <= i - 1
    <3>1. t[k] = a[k] /\ k \in 1 .. i - 1 BY <1>1, <1>2, <1>3, <2>1, <2>2, ConcatProperties
    <3> QED BY <1>1, <1>2, <2>1, <2>2, <3>1
  <2>3. CASE ~(k <= i - 1)
    <3>1. t[k] = b[k - (i - 1)] BY SMTT(30), <1>1, <1>2, <1>3, <2>1, <2>3, ConcatProperties
    <3>2. k - (i - 1) \in 1 .. Len(s) - i /\ i + (k - (i - 1)) = k + 1 BY <1>1, <2>1, <2>3
    <3>2a. b[k - (i - 1)] = s[i + (k - (i - 1))] BY <1>3, <3>2
    <3>3. t[k] = s[k + 1] BY <3>1, <3>2, <3>2a
    <3>4. k + 1 \in 1 .. Len(s) /\ k + 1 # i BY <1>1, <2>1, <2>3
    <3> QED BY <1>1, <3>3, <3>4
  <2> QED BY <2>2, <2>3
<1> QED BY <1>4, <1>5 DEF a, b

\* What an append leaves of a list.
LEMMA AppendIs ==
  ASSUME NEW S, NEW s \in Seq(S), NEW e \in S
  PROVE  /\ Append(s, e) \in Seq(S) /\ Len(s) \in Nat /\ DOMAIN s = 1 .. Len(s)
         /\ DOMAIN Append(s, e) = 1 .. Len(s) + 1
         /\ \A i \in DOMAIN s : Append(s, e)[i] = s[i]
         /\ Append(s, e)[Len(s) + 1] = e
OBVIOUS

\* What the tail keeps of a list.
LEMMA TailIs ==
  ASSUME NEW S, NEW s \in Seq(S), s # <<>>
  PROVE  /\ Tail(s) \in Seq(S) /\ Len(s) \in Nat /\ Len(s) >= 1 /\ DOMAIN s = 1 .. Len(s)
         /\ DOMAIN Tail(s) = 1 .. Len(s) - 1
         /\ \A i \in DOMAIN Tail(s) : i + 1 \in DOMAIN s /\ Tail(s)[i] = s[i + 1]
         /\ \A i \in DOMAIN s : i # 1 => i - 1 \in DOMAIN Tail(s) /\ Tail(s)[i - 1] = s[i]
         /\ 1 \in DOMAIN s /\ Head(s) = s[1] /\ Head(s) \in S
<1>1. Tail(s) \in Seq(S) /\ Len(s) \in Nat /\ Len(s) >= 1 /\ DOMAIN s = 1 .. Len(s) /\ Head(s) = s[1]
  OBVIOUS
<1>2. DOMAIN Tail(s) = 1 .. Len(s) - 1 OBVIOUS
<1>3. \A i \in DOMAIN Tail(s) : i + 1 \in DOMAIN s /\ Tail(s)[i] = s[i + 1] OBVIOUS
<1>4. \A i \in DOMAIN s : i # 1 => i - 1 \in DOMAIN Tail(s) /\ Tail(s)[i - 1] = s[i]
  <2> TAKE i \in DOMAIN s
  <2> HAVE i # 1
  <2>1. i \in Int /\ i - 1 \in DOMAIN Tail(s) /\ (i - 1) + 1 = i BY <1>1, <1>2
  <2> QED BY <1>3, <2>1
<1> QED BY <1>1, <1>2, <1>3, <1>4

\* A result that is appended, if there is one.
LEMMA ResultsAre ==
  ASSUME NEW S, NEW s \in Seq(S)
  PROVE  s \o <<>> = s /\ \A e \in S : s \o <<e>> = Append(s, e)
OBVIOUS

\* There is a first among the positions of a list.
LEMMA LeastPosition ==
  ASSUME NEW T, NEW s \in Seq(T), NEW P \in SUBSET (DOMAIN s), P # {}
  PROVE  (CHOOSE k \in P : \A j \in P : k <= j) \in P
<1>1. P \in SUBSET Nat /\ IsFiniteSet(P) /\ Cardinality(P) \in Nat BY PositionsAreFinite
<1>2. Cardinality(P) # 0 BY <1>1, FS_EmptySet
<1> DEFINE m == Nth(P, 1)
<1>3. 1 \in 1 .. Cardinality(P) BY <1>1, <1>2
<1>4. m \in P /\ Rank(P, m) = 1 BY <1>1, <1>3, NthIs
<1> HIDE DEF m
<1>5. ASSUME NEW j \in P PROVE m <= j
  <2>1. SUFFICES ASSUME j < m PROVE FALSE BY <1>1, <1>4
  <2>2. Rank(P, j) < Rank(P, m) BY <1>1, <1>4, <2>1, RankStrict
  <2>3. Rank(P, j) \in 1 .. Cardinality(P) BY <1>1, RankRange
  <2> QED BY <1>1, <1>4, <2>2, <2>3
<1> QED BY <1>4, <1>5

=============================================================================
