----------------------- MODULE FastFileGdbDriverProofs -----------------------
(***************************************************************************)
(* Proofs about UnifiedRows and FastFileGdbDriver for any contents of the  *)
(* source, any queries and any clauses and geometries: a cursor gives its  *)
(* result in order whatever Writers do, read_all and read_by_fid answer    *)
(* whole, and a layer of the driver gives the rows its filters let         *)
(* through.                                                                *)
(***************************************************************************)
EXTENDS FastFileGdbDriver, SequenceTheorems, FiniteSetTheorems,
        WellFoundedInduction, TLAPS

AllFids == 1 .. MaxFid

-----------------------------------------------------------------------------
(* Ascending lists of FIDs.                                                *)

\* s has the elements of S, each once and ascending.
Lists(s, S) ==
    /\ s \in Seq(S)
    /\ \A i, j \in 1 .. Len(s) : i < j => s[i] < s[j]
    /\ \A f \in S : \E i \in 1 .. Len(s) : s[i] = f

LEMMA ListTypes ==
  ASSUME NEW S, S \subseteq Nat, NEW s, Lists(s, S)
  PROVE  /\ s \in Seq(S) /\ s \in Seq(Nat) /\ Len(s) \in Nat
         /\ DOMAIN s = 1 .. Len(s)
         /\ \A i \in 1 .. Len(s) : s[i] \in S /\ s[i] \in Nat
  <1>1. s \in Seq(S)
    BY DEF Lists
  <1>2. Len(s) \in Nat /\ DOMAIN s = 1 .. Len(s)
    BY <1>1, LenProperties
  <1>3. \A i \in 1 .. Len(s) : s[i] \in S
    BY <1>1, ElementOfSeq
  <1>4. s \in Seq(Nat)
    BY <1>1, SeqMonotonic
  <1>. QED
    BY <1>1, <1>2, <1>3, <1>4

\* A set of numbers that is not empty has a least one: what stands in for
\* induction below.
LEMMA LeastNumber ==
  ASSUME NEW T, T \subseteq Nat, T # {}
  PROVE  \E x \in T : \A y \in T : x <= y
  <1> DEFINE R == OpToRel(<, Nat)
  <1>1. IsWellFoundedOn(R, Nat)
    BY NatLessThanWellFounded
  <1>2. \A a, b \in Nat : a < b => <<a, b>> \in R
    BY DEF OpToRel
  <1> HIDE DEF R
  <1>3. PICK x \in T : \A y \in T : ~(<<y, x>> \in R)
    BY <1>1, WFMin
  <1>4. ASSUME NEW y \in T PROVE x <= y
    <2>1. x \in Nat /\ y \in Nat /\ ~(<<y, x>> \in R)
      BY <1>3
    <2>2. ~(y < x)
      BY <1>2, <2>1
    <2>. QED
      BY <2>1, <2>2
  <1>. QED
    BY <1>4

LEMMA ListsAppend ==
  ASSUME NEW T, T \subseteq Nat, NEW t, Lists(t, T),
         NEW x \in Nat, \A y \in T : y < x
  PROVE  Lists(Append(t, x), T \cup {x}) /\ Len(Append(t, x)) = Len(t) + 1
  <1>1. t \in Seq(T \cup {x}) /\ Len(t) \in Nat
        /\ \A i \in 1 .. Len(t) : t[i] \in T
    BY DEF Lists
  <1>2. /\ Append(t, x) \in Seq(T \cup {x})
        /\ Len(Append(t, x)) = Len(t) + 1
        /\ \A i \in 1 .. Len(t) : Append(t, x)[i] = t[i]
        /\ Append(t, x)[Len(t) + 1] = x
    BY <1>1, AppendProperties
  <1>3. \A i, j \in 1 .. Len(t) + 1 :
          i < j => Append(t, x)[i] < Append(t, x)[j]
    <2> SUFFICES ASSUME NEW i \in 1 .. Len(t) + 1, NEW j \in 1 .. Len(t) + 1, i < j
                 PROVE  Append(t, x)[i] < Append(t, x)[j]
      OBVIOUS
    <2>1. i \in 1 .. Len(t) /\ (j \in 1 .. Len(t) \/ j = Len(t) + 1)
      BY <1>1
    <2>. QED
      BY <1>1, <1>2, <2>1 DEF Lists
  <1>4. ASSUME NEW f \in T \cup {x}
        PROVE  \E i \in 1 .. Len(t) + 1 : Append(t, x)[i] = f
    <2>1. CASE f = x
      BY <1>1, <1>2, <2>1
    <2>2. CASE f \in T
      <3>1. PICK i \in 1 .. Len(t) : t[i] = f
        BY <2>2 DEF Lists
      <3>2. i \in 1 .. Len(t) + 1 /\ Append(t, x)[i] = f
        BY <1>1, <1>2, <3>1
      <3>. QED
        BY <3>2
    <2>. QED
      BY <2>1, <2>2
  <1>. QED
    BY <1>2, <1>3, <1>4 DEF Lists

\* Every set of FIDs can be listed, in as many places as it has elements.
LEMMA ListsExist ==
  ASSUME NEW n \in Nat
  PROVE  \A S \in SUBSET (0 .. n - 1) :
            /\ IsFiniteSet(S)
            /\ \E s : Lists(s, S) /\ Len(s) = Cardinality(S)
  <1> DEFINE Good(m) == \A S \in SUBSET (0 .. m - 1) :
                           /\ IsFiniteSet(S)
                           /\ \E s : Lists(s, S) /\ Len(s) = Cardinality(S)
             Bad == {m \in Nat : ~Good(m)}
  <1>1. ASSUME NEW m \in Nat, Good(m) PROVE Good(m + 1)
    <2> SUFFICES ASSUME NEW S \in SUBSET (0 .. m)
                 PROVE  /\ IsFiniteSet(S)
                        /\ \E s : Lists(s, S) /\ Len(s) = Cardinality(S)
      BY m + 1 - 1 = m
    <2> DEFINE T == S \ {m}
    <2>1. T \in SUBSET (0 .. m - 1)
      OBVIOUS
    <2>2. PICK t : IsFiniteSet(T) /\ Lists(t, T) /\ Len(t) = Cardinality(T)
      BY <1>1, <2>1
    <2>3. CASE m \notin S
      <3>1. S = T
        BY <2>3
      <3>. QED
        BY <2>2, <3>1
    <2>4. CASE m \in S
      <3>1. S = T \cup {m} /\ m \notin T /\ T \subseteq Nat /\ \A y \in T : y < m
        BY <2>1, <2>4
      <3>2. IsFiniteSet(S) /\ Cardinality(S) = Cardinality(T) + 1
        <4>1. /\ IsFiniteSet(T \cup {m})
              /\ Cardinality(T \cup {m}) =
                    IF m \in T THEN Cardinality(T) ELSE Cardinality(T) + 1
          BY <2>2, FS_AddElement
        <4>. QED
          BY <3>1, <4>1
      <3> HIDE DEF T
      <3>3. Lists(Append(t, m), S) /\ Len(Append(t, m)) = Cardinality(S)
        BY <2>2, <3>1, <3>2, ListsAppend
      <3>. QED
        BY <3>2, <3>3
    <2>. QED
      BY <2>3, <2>4
  <1>2. Good(0)
    <2> SUFFICES ASSUME NEW S \in SUBSET (0 .. 0 - 1)
                 PROVE  /\ IsFiniteSet(S)
                        /\ \E s : Lists(s, S) /\ Len(s) = Cardinality(S)
      OBVIOUS
    <2>1. S = {}
      OBVIOUS
    <2>2. Lists(<< >>, {}) /\ Len(<< >>) = 0
      BY EmptySeq DEF Lists
    <2>. QED
      BY <2>1, <2>2, FS_EmptySet
  <1>3. Bad = {}
    <2> SUFFICES ASSUME Bad # {} PROVE FALSE
      OBVIOUS
    <2> HIDE DEF Good
    <2>1. PICK m \in Bad : \A k \in Bad : m <= k
      BY LeastNumber
    <2>2. m \in Nat /\ m # 0
      BY <1>2, <2>1
    <2>3. m - 1 \in Nat /\ m - 1 \notin Bad
      BY <2>1, <2>2
    <2>4. Good(m - 1 + 1)
      BY <1>1, <2>3
    <2>5. m - 1 + 1 = m
      BY <2>2
    <2>. QED
      BY <2>1, <2>4, <2>5
  <1>. QED
    BY <1>3

\* The elements of T are the least ones of S.
Below(T, S) == T \subseteq S /\ \A x \in T : \A y \in S \ T : x < y

\* t is the beginning of s.
IsFront(t, s) == Len(t) <= Len(s) /\ \A i \in 1 .. Len(t) : t[i] = s[i]

\* A list of the least elements of S is the beginning of the list of S.
LEMMA ListsFront ==
  ASSUME NEW S, S \subseteq Nat, NEW T, Below(T, S),
         NEW s, Lists(s, S), NEW t, Lists(t, T)
  PROVE  IsFront(t, s)
  <1> DEFINE Bad == {i \in 1 .. Len(t) : ~(i <= Len(s) /\ t[i] = s[i])}
  <1>1. /\ Len(t) \in Nat /\ Len(s) \in Nat
        /\ \A i \in 1 .. Len(t) : t[i] \in T /\ t[i] \in Nat /\ t[i] \in S
        /\ \A i \in 1 .. Len(s) : s[i] \in S /\ s[i] \in Nat
    <2>1. T \subseteq Nat /\ T \subseteq S
      BY DEF Below
    <2>. QED
      BY <2>1, ListTypes
  <1>2. Bad = {}
    <2> SUFFICES ASSUME Bad # {} PROVE FALSE
      OBVIOUS
    <2>0. Bad \subseteq Nat /\ Bad # {}
      BY <1>1
    <2>1. PICK i \in Bad : \A k \in Bad : i <= k
      <3> HIDE DEF Bad
      <3>. QED
        BY <2>0, LeastNumber
    <2>2. i \in 1 .. Len(t)
          /\ \A k \in 1 .. i - 1 : k <= Len(s) /\ t[k] = s[k]
      BY <1>1, <2>1
    <2>3. PICK j \in 1 .. Len(s) : s[j] = t[i]
      BY <1>1, <2>2 DEF Lists
    <2>4. i <= j
      <3> SUFFICES ASSUME j < i PROVE FALSE
        BY <1>1, <2>2
      <3>1. j \in 1 .. Len(t) /\ t[j] = s[j]
        BY <1>1, <2>2
      <3>2. t[j] < t[i]
        BY <1>1, <2>2, <3>1 DEF Lists
      <3>. QED
        BY <1>1, <2>2, <2>3, <3>1, <3>2
    <2>5. i \in 1 .. Len(s) /\ s[i] # t[i]
      BY <1>1, <2>1, <2>2, <2>4
    <2>6. s[i] < t[i]
      <3>1. i < j
        BY <1>1, <2>2, <2>3, <2>4, <2>5
      <3>. QED
        BY <2>3, <2>5, <3>1 DEF Lists
    <2>7. s[i] \in T
      BY <1>1, <2>2, <2>5, <2>6 DEF Below
    <2>8. PICK m \in 1 .. Len(t) : t[m] = s[i]
      BY <2>7 DEF Lists
    <2>9. m < i
      <3> SUFFICES ASSUME i <= m PROVE FALSE
        BY <1>1, <2>2
      <3>1. i = m \/ t[i] < t[m]
        BY <1>1, <2>2 DEF Lists
      <3>. QED
        BY <1>1, <2>2, <2>5, <2>6, <2>8, <3>1
    <2>10. m \in 1 .. Len(s) /\ s[m] = s[i] /\ s[m] < s[i]
      BY <1>1, <2>2, <2>5, <2>8, <2>9 DEF Lists
    <2>. QED
      BY <1>1, <2>5, <2>10
  <1>3. \A i \in 1 .. Len(t) : i <= Len(s) /\ t[i] = s[i]
    BY <1>2
  <1>4. Len(t) <= Len(s)
    <2>1. CASE Len(t) = 0
      BY <1>1, <2>1
    <2>2. CASE Len(t) # 0
      BY <1>1, <1>3, <2>2
    <2>. QED
      BY <2>1, <2>2
  <1>. QED
    BY <1>3, <1>4 DEF IsFront

LEMMA ListsUnique ==
  ASSUME NEW S, S \subseteq Nat, NEW s, Lists(s, S), NEW t, Lists(t, S)
  PROVE  s = t
  <1>1. Below(S, S)
    BY DEF Below
  <1>2. IsFront(t, s) /\ IsFront(s, t)
    BY <1>1, ListsFront
  <1>3. s \in Seq(S) /\ t \in Seq(S) /\ Len(s) \in Nat /\ Len(t) \in Nat
    BY ListTypes
  <1>. QED
    BY <1>2, <1>3, SeqEqual DEF IsFront

\* A list has each element at its rank.
LEMMA AllFidsList ==
  ASSUME NEW S \in SUBSET AllFids
  PROVE  S \subseteq Nat /\ \E s : Lists(s, S) /\ Len(s) = Cardinality(S)
  <1>1. PICK n \in Nat : n = MaxFid + 1
    BY RowsAssumption
  <1>2. S \in SUBSET (0 .. n - 1)
    BY <1>1, RowsAssumption DEF AllFids
  <1>3. \A T \in SUBSET (0 .. n - 1) : \E s : Lists(s, T) /\ Len(s) = Cardinality(T)
    BY ListsExist
  <1>4. S \subseteq Nat
    BY <1>1, <1>2
  <1> QED BY <1>2, <1>3, <1>4

LEMMA RankInList ==
  ASSUME NEW S \in SUBSET AllFids, NEW s, Lists(s, S), NEW i \in 1 .. Len(s)
  PROVE  Cardinality({g \in S : g < s[i]}) = i - 1
  <1> DEFINE T == {g \in S : g < s[i]}
             front == SubSeq(s, 1, i - 1)
  <1>1. S \subseteq Nat
    BY AllFidsList
  <1>2. /\ s \in Seq(S) /\ s \in Seq(Nat) /\ Len(s) \in Nat
        /\ \A j \in 1 .. Len(s) : s[j] \in S /\ s[j] \in Nat
    BY <1>1, ListTypes
  <1>3. i - 1 \in Int /\ i - 1 \in Nat /\ i - 1 <= Len(s)
    BY <1>2
  <1>4. ASSUME NEW j \in 1 .. i - 1
        PROVE  j \in 1 .. Len(s) /\ s[j] < s[i] /\ s[j] \in T
    <2>1. j \in 1 .. Len(s) /\ j < i
      BY <1>2
    <2>2. s[j] < s[i] /\ s[j] \in S
      BY <1>2, <2>1 DEF Lists
    <2> QED BY <2>1, <2>2
  <1>5. /\ front \in Seq(T) /\ Len(front) = i - 1
        /\ \A j \in 1 .. i - 1 : front[j] = s[j]
    <2> HIDE DEF T
    <2>1. \A j \in 1 .. i - 1 : s[j] \in T
      BY <1>4
    <2>2. /\ front \in Seq(T)
          /\ Len(front) = IF 1 <= i - 1 THEN i - 1 - 1 + 1 ELSE 0
          /\ \A j \in 1 .. i - 1 - 1 + 1 : front[j] = s[1 + j - 1]
      BY <1>3, <2>1, SubSeqProperties
    <2> QED BY <1>2, <1>3, <2>2
  <1>6. ASSUME NEW f \in T PROVE \E j \in 1 .. i - 1 : front[j] = f
    <2>1. PICK j \in 1 .. Len(s) : s[j] = f
      BY DEF Lists
    <2>2. j < i
      <3> SUFFICES ASSUME i <= j PROVE FALSE
        BY <1>2
      <3>1. i = j \/ s[i] < s[j]
        BY <1>2 DEF Lists
      <3> QED BY <1>2, <2>1, <3>1
    <2> QED BY <1>2, <1>5, <2>1, <2>2
  <1>7. Lists(front, T)
    <2> HIDE DEF T, front
    <2>1. \A j, k \in 1 .. i - 1 : j < k => front[j] < front[k]
      BY <1>2, <1>4, <1>5 DEF Lists
    <2> QED BY <1>5, <1>6, <2>1 DEF Lists
  <1>8. T \in SUBSET AllFids /\ T \subseteq Nat
    BY <1>1
  <1> HIDE DEF T, front
  <1>9. PICK t : Lists(t, T) /\ Len(t) = Cardinality(T)
    BY <1>8, AllFidsList
  <1>10. t = front
    BY <1>7, <1>8, <1>9, ListsUnique
  <1> QED BY <1>5, <1>9, <1>10 DEF T

LEMMA InOrderLists ==
  ASSUME NEW S \in SUBSET AllFids
  PROVE  Lists(InOrder(S), S)
  <1>1. S \subseteq Nat
    BY AllFidsList
  <1>2. PICK s : Lists(s, S) /\ Len(s) = Cardinality(S)
    BY AllFidsList
  <1>3. /\ s \in Seq(S) /\ Len(s) \in Nat /\ DOMAIN s = 1 .. Len(s)
        /\ s \in [1 .. Len(s) -> S] /\ \A j \in 1 .. Len(s) : s[j] \in S
    BY <1>1, <1>2, ListTypes, LenProperties
  <1>4. ASSUME NEW i \in 1 .. Len(s)
        PROVE  s[i] = CHOOSE f \in S : Cardinality({g \in S : g < f}) = i - 1
    <2>1. s[i] \in S /\ Cardinality({g \in S : g < s[i]}) = i - 1
      BY <1>2, <1>3, RankInList
    <2>2. ASSUME NEW f \in S, Cardinality({g \in S : g < f}) = i - 1 PROVE f = s[i]
      <3>1. PICK j \in 1 .. Len(s) : s[j] = f
        BY <1>2 DEF Lists
      <3>2. Cardinality({g \in S : g < s[j]}) = j - 1
        BY <1>2, RankInList
      <3>3. i = j
        BY <1>3, <2>2, <3>1, <3>2
      <3> QED BY <3>1, <3>3
    <2> QED BY <2>1, <2>2
  <1>5. InOrder(S) = [i \in 1 .. Len(s) |-> s[i]]
    BY <1>2, <1>4 DEF InOrder
  <1>6. s = [i \in 1 .. Len(s) |-> s[i]]
    BY <1>3
  <1> QED BY <1>2, <1>5, <1>6

LEMMA ListIs ==
  ASSUME NEW S \in SUBSET AllFids, NEW s, Lists(s, S)
  PROVE  /\ s \in Seq(AllFids) /\ Len(s) \in Nat
         /\ \A i \in 1 .. Len(s) : s[i] \in S /\ s[i] \in AllFids
         /\ \A i, j \in 1 .. Len(s) : i < j => s[i] < s[j]
         /\ \A f \in S : \E i \in 1 .. Len(s) : s[i] = f
  <1>1. S \subseteq Nat /\ S \subseteq AllFids
    BY AllFidsList
  <1>2. s \in Seq(S) /\ Len(s) \in Nat /\ \A i \in 1 .. Len(s) : s[i] \in S
    BY <1>1, ListTypes
  <1>3. s \in Seq(AllFids)
    BY <1>1, <1>2, SeqMonotonic
  <1> QED BY <1>1, <1>2, <1>3 DEF Lists

LEMMA InOrderIs ==
  ASSUME NEW S \in SUBSET AllFids
  PROVE  /\ InOrder(S) \in Seq(AllFids) /\ Len(InOrder(S)) \in Nat
         /\ \A i \in 1 .. Len(InOrder(S)) : InOrder(S)[i] \in S /\ InOrder(S)[i] \in AllFids
         /\ \A i, j \in 1 .. Len(InOrder(S)) : i < j => InOrder(S)[i] < InOrder(S)[j]
         /\ \A f \in S : \E i \in 1 .. Len(InOrder(S)) : InOrder(S)[i] = f
  <1>1. Lists(InOrder(S), S)
    BY InOrderLists
  <1> QED BY <1>1, ListIs

\* What comes after the n-th element is the rest of the list.
LEMMA InOrderRest ==
  ASSUME NEW S \in SUBSET AllFids, NEW n \in 1 .. Len(InOrder(S))
  PROVE  LET rest == InOrder({f \in S : f > InOrder(S)[n]})
         IN  /\ Len(rest) = Len(InOrder(S)) - n
             /\ \A i \in 1 .. Len(rest) : rest[i] = InOrder(S)[n + i]
  <1> DEFINE s == InOrder(S)
             T == {f \in S : f > s[n]}
             tail == SubSeq(s, n + 1, Len(s))
  <1>1. /\ s \in Seq(AllFids) /\ Len(s) \in Nat
        /\ \A i \in 1 .. Len(s) : s[i] \in S /\ s[i] \in AllFids
        /\ \A i, j \in 1 .. Len(s) : i < j => s[i] < s[j]
        /\ \A f \in S : \E i \in 1 .. Len(s) : s[i] = f
    BY InOrderIs
  <1>2. T \in SUBSET AllFids /\ T \subseteq Nat
    <2>1. T \subseteq S /\ S \subseteq Nat
      BY AllFidsList
    <2> QED BY <2>1
  <1>3. Lists(InOrder(T), T)
    BY <1>2, InOrderLists
  <1> HIDE DEF s
  <1>0. n \in 1 .. Len(s) /\ AllFids \subseteq Int
    BY DEF s, AllFids
  <1>4. \A i \in n + 1 .. Len(s) : i \in 1 .. Len(s) /\ s[i] \in T
    BY <1>0, <1>1
  <1>5. /\ tail \in Seq(T) /\ Len(tail) = Len(s) - n
        /\ \A i \in 1 .. Len(s) - n : tail[i] = s[n + i]
    <2> HIDE DEF T
    <2>1. \A i \in n + 1 .. Len(s) : s[i] \in T
      BY <1>4
    <2>2. n + 1 \in Int /\ Len(s) \in Int
      BY <1>0, <1>1
    <2>3. /\ tail \in Seq(T)
          /\ Len(tail) = IF n + 1 <= Len(s) THEN Len(s) - (n + 1) + 1 ELSE 0
          /\ \A i \in 1 .. Len(s) - (n + 1) + 1 : tail[i] = s[n + 1 + i - 1]
      BY <2>1, <2>2, SubSeqProperties
    <2>4. n \in Nat /\ n <= Len(s)
      BY <1>0, <1>1
    <2> QED BY <1>1, <2>3, <2>4
  <1>6. Lists(tail, T)
    <2>1. \A i, j \in 1 .. Len(tail) : i < j => tail[i] < tail[j]
      <3> SUFFICES ASSUME NEW i \in 1 .. Len(tail), NEW j \in 1 .. Len(tail), i < j
                   PROVE  tail[i] < tail[j]
        OBVIOUS
      <3> HIDE DEF tail
      <3>1. n + i \in 1 .. Len(s) /\ n + j \in 1 .. Len(s) /\ n + i < n + j
        BY <1>0, <1>1, <1>5
      <3>2. tail[i] = s[n + i] /\ tail[j] = s[n + j]
        BY <1>5
      <3> QED BY <1>1, <3>1, <3>2
    <2>2. ASSUME NEW f \in T PROVE \E i \in 1 .. Len(tail) : tail[i] = f
      <3>1. PICK k \in 1 .. Len(s) : s[k] = f
        BY <1>1
      <3>2. k > n
        <4> SUFFICES ASSUME k <= n PROVE FALSE
          BY <1>0, <1>1
        <4>1. k = n \/ s[k] < s[n]
          BY <1>0, <1>1
        <4>2. s[k] > s[n] /\ s[k] \in Int /\ s[n] \in Int
          BY <1>0, <1>1, <3>1
        <4> QED BY <4>1, <4>2
      <3>3. k - n \in 1 .. Len(s) - n /\ n + (k - n) = k
        BY <1>0, <1>1, <3>2
      <3> HIDE DEF tail
      <3>4. tail[k - n] = f
        BY <1>5, <3>1, <3>3
      <3> QED BY <1>5, <3>3, <3>4
    <2> HIDE DEF tail, T
    <2> QED BY <1>5, <2>1, <2>2 DEF Lists
  <1>7. InOrder(T) = tail
    <2> HIDE DEF tail, T
    <2> QED BY <1>2, <1>3, <1>6, ListsUnique
  <1>8. /\ Len(InOrder(T)) = Len(s) - n
        /\ \A i \in 1 .. Len(InOrder(T)) : InOrder(T)[i] = s[n + i]
    <2> HIDE DEF tail, T
    <2> QED BY <1>5, <1>7
  <1> QED BY <1>8 DEF s

LEMMA PrefixFrom ==
  ASSUME NEW S, NEW s \in Seq(S), NEW t \in Seq(S), Len(s) <= Len(t),
         \A i \in 1 .. Len(s) : s[i] = t[i]
  PROVE  IsPrefix(s, t)
  <1>1. /\ Len(s) \in Nat /\ Len(t) \in Nat
        /\ \A i \in 1 .. Len(s) : s[i] \in S /\ t[i] \in S
    BY LenProperties, ElementOfSeq
  <1>2. /\ SubSeq(s, 1, Len(s)) \in Seq(S) /\ SubSeq(t, 1, Len(s)) \in Seq(S)
        /\ Len(SubSeq(s, 1, Len(s))) = Len(s) /\ Len(SubSeq(t, 1, Len(s))) = Len(s)
        /\ \A i \in 1 .. Len(s) : SubSeq(s, 1, Len(s))[i] = s[i] /\ SubSeq(t, 1, Len(s))[i] = t[i]
    <2>1. /\ SubSeq(s, 1, Len(s)) \in Seq(S)
          /\ Len(SubSeq(s, 1, Len(s))) = IF 1 <= Len(s) THEN Len(s) - 1 + 1 ELSE 0
          /\ \A i \in 1 .. Len(s) - 1 + 1 : SubSeq(s, 1, Len(s))[i] = s[1 + i - 1]
      BY <1>1, SubSeqProperties
    <2>2. /\ SubSeq(t, 1, Len(s)) \in Seq(S)
          /\ Len(SubSeq(t, 1, Len(s))) = IF 1 <= Len(s) THEN Len(s) - 1 + 1 ELSE 0
          /\ \A i \in 1 .. Len(s) - 1 + 1 : SubSeq(t, 1, Len(s))[i] = t[1 + i - 1]
      BY <1>1, SubSeqProperties
    <2> QED BY <1>1, <2>1, <2>2
  <1>3. SubSeq(s, 1, Len(s)) = SubSeq(t, 1, Len(s))
    BY <1>2, SeqEqual
  <1> QED BY <1>3 DEF IsPrefix

-----------------------------------------------------------------------------
(* Rows and results.                                                       *)

LEMMA RowsAre ==
  ASSUME NEW v \in DOMAIN Versions
  PROVE  /\ v \in 1 .. Len(Versions) /\ Len(Versions) \in Nat
         /\ \A row \in RowsAt(v) : row.fid \in AllFids
         /\ \A one, two \in RowsAt(v) : one.fid = two.fid => one = two
         /\ \A f : Exists(f, v) <=> \E row \in RowsAt(v) : row.fid = f
  <1>1. v \in 1 .. Len(Versions) /\ Len(Versions) \in Nat
    BY RowsAssumption
  <1>2. \A i \in DOMAIN Versions[v] : Versions[v][i].fid \in AllFids
    BY RowsAssumption DEF AllFids
  <1>3. ASSUME NEW i \in DOMAIN Versions[v], NEW j \in DOMAIN Versions[v],
               Versions[v][i].fid = Versions[v][j].fid
        PROVE  i = j
    <2>1. i \in 1 .. Len(Versions[v]) /\ j \in 1 .. Len(Versions[v])
      BY RowsAssumption
    <2>2. i \in Int /\ j \in Int
      BY <2>1
    <2>3. Versions[v][i].fid \in Int
      BY <1>2 DEF AllFids
    <2>4. /\ i < j => Versions[v][i].fid < Versions[v][j].fid
          /\ j < i => Versions[v][j].fid < Versions[v][i].fid
      BY RowsAssumption
    <2> QED BY <1>3, <2>2, <2>3, <2>4
  <1>4. \A row \in RowsAt(v) : row.fid \in AllFids
    BY <1>2 DEF RowsAt
  <1>5. \A one, two \in RowsAt(v) : one.fid = two.fid => one = two
    BY <1>3 DEF RowsAt
  <1>6. \A f : Exists(f, v) <=> \E row \in RowsAt(v) : row.fid = f
    BY DEF Exists, Fids
  <1> QED BY <1>1, <1>4, <1>5, <1>6

LEMMA MatchingIs ==
  ASSUME NEW v \in DOMAIN Versions, NEW query
  PROVE  /\ MatchingFids(v, query) \in SUBSET AllFids
         /\ \A f \in MatchingFids(v, query) : Exists(f, v)
         /\ \A f : f \in MatchingFids(v, query) <=>
                     \E row \in RowsAt(v) : row.fid = f /\ Matches(row, query)
  <1>1. \A f : f \in MatchingFids(v, query) <=>
                 \E row \in RowsAt(v) : row.fid = f /\ Matches(row, query)
    BY DEF MatchingFids, Fids
  <1> QED BY <1>1, RowsAre

LEMMA MinOfTwo ==
  ASSUME NEW a \in Nat, NEW b \in Nat
  PROVE  Min({a, b}) = IF a <= b THEN a ELSE b
  <1> DEFINE m == IF a <= b THEN a ELSE b
  <1>1. m \in {a, b} /\ \A y \in {a, b} : m <= y
    OBVIOUS
  <1>2. ASSUME NEW x \in {a, b}, \A y \in {a, b} : x <= y PROVE x = m
    BY <1>2
  <1> HIDE DEF m
  <1>3. Min({a, b}) = m
    BY <1>1, <1>2 DEF Min
  <1> QED BY <1>3 DEF m

\* The n-th row of a result is there if the offset and n rows are matched and
\* the limit allows it.
LEMMA ResultIs ==
  ASSUME NEW v \in DOMAIN Versions, NEW query,
         query.offset \in Nat, query.limit \in Nat
  PROVE  LET all == Matching(v, query)
             result == Result(v, query)
         IN  /\ result \in Seq(AllFids) /\ Len(result) \in Nat /\ Len(all) \in Nat
             /\ \A i \in 1 .. Len(result) :
                   result[i] = all[query.offset + i] /\ query.offset + i \in 1 .. Len(all)
             /\ \A n \in Nat \ {0} :
                   n <= Len(result) <=> /\ query.offset + n <= Len(all)
                                        /\ query.limit = 0 \/ n <= query.limit
  <1>1. PICK all, offset, limit :
           all = Matching(v, query) /\ offset = query.offset /\ limit = query.limit
    OBVIOUS
  <1>0. offset \in Nat /\ limit \in Nat
    BY <1>1
  <1>2. all \in Seq(AllFids) /\ Len(all) \in Nat /\ \A i \in 1 .. Len(all) : all[i] \in AllFids
    BY <1>1, MatchingIs, InOrderIs DEF Matching
  <1>3. PICK last : last = IF limit = 0 THEN Len(all)
                           ELSE Min({Len(all), offset + limit})
    OBVIOUS
  <1>4. last = IF limit = 0 \/ Len(all) <= offset + limit THEN Len(all)
               ELSE offset + limit
    <2>1. offset + limit \in Nat
      BY <1>0
    <2>2. Min({Len(all), offset + limit}) =
             IF Len(all) <= offset + limit THEN Len(all)
             ELSE offset + limit
      BY <1>2, <2>1, MinOfTwo
    <2> QED BY <1>3, <2>2
  <1>5. last \in Nat /\ last <= Len(all)
    BY <1>0, <1>2, <1>4
  <1>6. PICK result : result = SubSeq(all, offset + 1, last)
    OBVIOUS
  <1>7. result = Result(v, query)
    BY <1>1, <1>3, <1>6 DEF Result, Window
  <1>8. /\ result \in Seq(AllFids)
        /\ Len(result) = IF offset + 1 <= last THEN last - offset ELSE 0
        /\ \A i \in 1 .. last - offset : result[i] = all[offset + i]
    <2>0. PICK first : first = offset + 1
      OBVIOUS
    <2>1. first \in Int /\ last \in Int /\ \A i \in first .. last : all[i] \in AllFids
      BY <1>0, <1>2, <1>5, <2>0
    <2>2. /\ SubSeq(all, first, last) \in Seq(AllFids)
          /\ Len(SubSeq(all, first, last)) = IF first <= last THEN last - first + 1 ELSE 0
          /\ \A i \in 1 .. last - first + 1 : SubSeq(all, first, last)[i] = all[first + i - 1]
      BY <2>1, SubSeqProperties
    <2>3. result = SubSeq(all, first, last)
      BY <1>6, <2>0
    <2>4. \A i \in 1 .. last - offset : i \in 1 .. last - first + 1 /\ first + i - 1 = offset + i
      BY <1>0, <1>5, <2>0
    <2>5. Len(result) = IF offset + 1 <= last THEN last - offset ELSE 0
      <3>1. Len(result) = IF first <= last THEN last - first + 1 ELSE 0
        BY <2>2, <2>3
      <3>2. last - first + 1 = last - offset
        BY <1>0, <1>5, <2>0
      <3> QED BY <2>0, <3>1, <3>2
    <2>6. \A i \in 1 .. last - offset : result[i] = all[offset + i]
      BY <2>2, <2>3, <2>4
    <2> QED BY <2>2, <2>3, <2>5, <2>6
  <1>9. Len(result) \in Nat
    BY <1>0, <1>5, <1>8
  <1>10. \A i \in 1 .. Len(result) :
            result[i] = all[offset + i] /\ offset + i \in 1 .. Len(all)
    <2> SUFFICES ASSUME NEW i \in 1 .. Len(result)
                 PROVE  result[i] = all[offset + i] /\ offset + i \in 1 .. Len(all)
      OBVIOUS
    <2>1. Len(result) = last - offset
      BY <1>0, <1>5, <1>8
    <2>2. i \in 1 .. last - offset /\ offset + i \in 1 .. Len(all)
      BY <1>0, <1>2, <1>5, <2>1
    <2> QED BY <1>8, <2>2
  <1>11. \A n \in Nat \ {0} :
            n <= Len(result) <=> /\ offset + n <= Len(all)
                                 /\ limit = 0 \/ n <= limit
    <2> SUFFICES ASSUME NEW n \in Nat \ {0}
                 PROVE  n <= Len(result) <=> /\ offset + n <= Len(all)
                                             /\ limit = 0 \/ n <= limit
      OBVIOUS
    <2>1. n <= Len(result) <=> offset + n <= last
      BY <1>0, <1>5, <1>8
    <2>2. offset + n <= last <=> offset + n <= Len(all) /\ (limit = 0 \/ n <= limit)
      BY <1>0, <1>2, <1>4
    <2> QED BY <2>1, <2>2
  <1> QED BY <1>1, <1>2, <1>7, <1>8, <1>9, <1>10, <1>11

\* A line that goes with the matching rows and cannot be longer is the result.
LEMMA IsResult ==
  ASSUME NEW v \in DOMAIN Versions, NEW query,
         query.offset \in Nat, query.limit \in Nat, NEW line \in Seq(AllFids),
         \A i \in 1 .. Len(line) : line[i] = Matching(v, query)[query.offset + i],
         Len(line) > 0 => query.offset + Len(line) <= Len(Matching(v, query)),
         query.limit > 0 => Len(line) <= query.limit
  PROVE  /\ IsPrefix(line, Result(v, query))
         /\ Len(line) <= Len(Result(v, query))
         /\ \/ query.limit > 0 /\ Len(line) = query.limit
            \/ query.offset + Len(line) >= Len(Matching(v, query))
            => line = Result(v, query)
  <1>1. PICK all, result : all = Matching(v, query) /\ result = Result(v, query)
    OBVIOUS
  <1>2. /\ result \in Seq(AllFids) /\ Len(result) \in Nat /\ Len(all) \in Nat
        /\ \A i \in 1 .. Len(result) :
              result[i] = all[query.offset + i] /\ query.offset + i \in 1 .. Len(all)
        /\ \A n \in Nat \ {0} :
              n <= Len(result) <=> /\ query.offset + n <= Len(all)
                                   /\ query.limit = 0 \/ n <= query.limit
    BY <1>1, ResultIs
  <1>3. Len(line) \in Nat /\ \A i \in 1 .. Len(line) : line[i] = all[query.offset + i]
    BY <1>1, LenProperties
  <1>4. Len(line) <= Len(result)
    BY <1>1, <1>2, <1>3
  <1>5. \A i \in 1 .. Len(line) : line[i] = result[i]
    BY <1>2, <1>3, <1>4
  <1>6. IsPrefix(line, result)
    BY <1>2, <1>4, <1>5, PrefixFrom
  <1>7. ASSUME \/ query.limit > 0 /\ Len(line) = query.limit
               \/ query.offset + Len(line) >= Len(all)
        PROVE  line = result
    <2>0. Len(line) + 1 \in Nat \ {0}
      BY <1>3
    <2>1. ~(Len(line) + 1 <= Len(result))
      <3> SUFFICES ASSUME Len(line) + 1 <= Len(result) PROVE FALSE
        OBVIOUS
      <3>1. /\ query.offset + (Len(line) + 1) <= Len(all)
            /\ query.limit = 0 \/ Len(line) + 1 <= query.limit
        BY <1>2, <2>0
      <3>2. Len(line) \in Nat /\ Len(all) \in Nat
        BY <1>2, <1>3
      <3> QED BY <1>7, <3>1, <3>2
    <2>2. Len(line) = Len(result)
      BY <1>2, <1>3, <1>4, <2>1
    <2> QED BY <1>2, <1>5, <2>2, SeqEqual
  <1> QED BY <1>1, <1>4, <1>6, <1>7

-----------------------------------------------------------------------------
(* Where a cursor stands.                                                  *)

CursorFields ==
    {"backend", "query", "opened", "closed", "prefetched", "left", "failed",
     "after", "ordered_fids", "ordered_index", "remaining_skip", "remaining_limit"}

\* What has been delivered, and the row that was fetched for the next call.
Line(c, got) == IF c.prefetched = NoRow THEN got ELSE Append(got, c.prefetched)

\* The cursor of the query engine: what is left of its result goes on where
\* the line ends.
FastReads(c, line) ==
    LET result == Result(c.opened, c.query)
    IN  /\ c.left \in Seq(AllFids)
        /\ Len(line) + Len(c.left) = Len(result)
        /\ \A i \in 1 .. Len(line) : line[i] = result[i]
        /\ \A i \in 1 .. Len(c.left) : c.left[i] = result[Len(line) + i]

\* What GDAL comes to in version v.
AheadAt(v, c) ==
    IF c.ordered_fids = <<>>
    THEN InOrder({f \in MatchingFids(v, c.query) : f > c.after})
    ELSE SubSeq(c.ordered_fids, c.ordered_index, Len(c.ordered_fids))

Behind(c, f) ==
    IF c.ordered_fids = <<>> THEN f <= c.after
    ELSE \A k \in c.ordered_index .. Len(c.ordered_fids) : f < c.ordered_fids[k]

\* The rows that were there all the time.
Steady(v, c) == {f \in AllFids : \A w \in c.opened .. v : f \in MatchingFids(w, c.query)}

Everything(c) ==
    c.ordered_fids = <<>> /\ c.query.offset = 0 /\ c.query.limit = 0

GdalTypes(c) ==
    /\ c.ordered_fids \in {<<>>, Matching(c.opened, c.query)}
    /\ c.ordered_index \in Nat \ {0} /\ c.after \in Nat
    /\ c.remaining_skip \in 0 .. c.query.offset /\ c.remaining_limit \in Nat

\* The line ends where the cursor of GDAL stands, which has left out no more
\* than the offset says.
InStep(c, line, ahead) ==
    LET all == Matching(c.opened, c.query)
        passed == c.query.offset - c.remaining_skip + Len(line)
    IN  /\ c.remaining_skip > 0 => line = <<>>
        /\ c.query.limit > 0 => Len(line) + c.remaining_limit = c.query.limit
        /\ passed + Len(ahead) = Len(all)
        /\ \A i \in 1 .. Len(line) : line[i] = all[c.query.offset + i]
        /\ \A i \in 1 .. Len(ahead) : ahead[i] = all[passed + i]

GdalReads(v, c, line, s) ==
    /\ GdalTypes(c)
    /\ \A i \in 1 .. Len(line) : Behind(c, line[i])
    /\ c.query.limit > 0 => Len(line) + c.remaining_limit <= c.query.limit
    /\ c.opened = v =>
          /\ \A i \in 1 .. Len(line) : line[i] \in MatchingFids(v, c.query)
          /\ s = "none" => InStep(c, line, AheadAt(v, c))
    /\ s = "none" /\ Everything(c) =>
          \A f \in Steady(v, c) : f <= c.after => \E i \in 1 .. Len(line) : line[i] = f

\* All of the result has been given.
AllGiven(v, c, got) ==
    /\ c.opened = v => got = Result(v, c.query)
    /\ Everything(c) => \A f \in Steady(v, c) : \E i \in 1 .. Len(got) : got[i] = f

\* A cursor that has given `got` and then said s.
CursorOK(v, c, got, s) ==
    /\ DOMAIN c = CursorFields
    /\ c.backend \in {"FastGdb", "GdalOpenFileGDB"}
    /\ c.query.offset \in Nat /\ c.query.limit \in Nat
    /\ c.opened \in 1 .. v /\ c.closed \in BOOLEAN
    /\ c.prefetched \in 0 .. MaxFid
    /\ got \in Seq(AllFids) /\ Ascending(Line(c, got))
    /\ s \in {"none", "error", "end"}
    /\ s = "none" => ~c.closed
    /\ c.backend = "FastGdb" => FastReads(c, Line(c, got)) /\ c.ordered_fids = <<>>
    /\ c.backend = "GdalOpenFileGDB" => GdalReads(v, c, Line(c, got), s)
    /\ s = "end" => c.closed /\ AllGiven(v, c, got)

-----------------------------------------------------------------------------
(* The caller and its calls.                                               *)

CallFields == {"kind", "query", "max", "began", "cursor", "fid", "batch"}

\* read_all has put together what its cursor has given; read_by_fid has let
\* smaller FIDs pass.
CallOK(v, k) ==
    k # NoCall =>
      /\ DOMAIN k = CallFields /\ k.kind \in {"read_all", "read_by_fid"}
      /\ k.began = k.cursor.opened
      /\ k.kind = "read_all" =>
            /\ k.query = k.cursor.query /\ k.max \in Nat /\ Len(k.batch) <= k.max
            /\ CursorOK(v, k.cursor, k.batch, "none")
      /\ k.kind = "read_by_fid" =>
            /\ k.cursor.query = DefaultQuery /\ k.cursor.ordered_fids = <<>>
            /\ k.fid \in Nat \ {0}
            /\ k.cursor.prefetched # NoRow => Exists(k.cursor.prefetched, k.cursor.opened)
            /\ \E got : /\ CursorOK(v, k.cursor, got, "none")
                        /\ \A i \in 1 .. Len(got) : got[i] < k.fid

SourceInv ==
    /\ version \in DOMAIN Versions
    /\ CallOK(version, call)
    /\ answer.kind = "count" => answer.ended \in 1 .. version
    /\ CallsAnswerWhole

CallerInv == cursor # NoCursor => CursorOK(version, cursor, given, said)

RowsInv == SourceInv /\ CallerInv

-----------------------------------------------------------------------------
(* The layer of the driver.                                                *)

\* What the features are of the rows that the cursor has given.
Lets(got) ==
    /\ \A i \in 1 .. Len(features) : \E j \in 1 .. Len(got) : got[j] = features[i]
    /\ cursor.opened = version =>
         /\ \A i \in 1 .. Len(features) : features[i] \in WantedFids
         /\ ~cursor_error =>
              \A j \in 1 .. Len(got) :
                 got[j] \in WantedFids => \E i \in 1 .. Len(features) : features[i] = got[j]

LayerReads(got, s) ==
    /\ CursorOK(version, cursor, got, s)
    /\ cursor.query = DriverQuery
    /\ Lets(got)
    /\ ~cursor_error => s # "error" /\ (ended => s = "end")

LayerInv ==
    /\ given = <<>> /\ said = "none"
    /\ features \in Seq(AllFids) /\ Ascending(features)
    /\ attr_query \in {NoFilter, attribute_filter}
    /\ filter_geom \in Geometries \cup {NoFilter}
    /\ cursor = NoCursor => features = <<>> /\ (ended => cursor_error)
    /\ cursor # NoCursor => \E got, s : LayerReads(got, s)

CountInv ==
    /\ answer.kind = "count" /\ Agreed /\ answer.began = version /\ answer.ended = version
    => answer.count \in {-1, Len(Wanted)}

DriverInv ==
    /\ SourceInv
    /\ user \in {"caller", "driver"}
    /\ user = "caller" => CallerInv
    /\ user = "driver" => LayerInv /\ CountInv

-----------------------------------------------------------------------------
(* What the steps of GDAL's reading do to a cursor.                        *)

\* Reading on changes four fields of a cursor of GDAL.
Kept(c, d) ==
    /\ DOMAIN d = CursorFields
    /\ d.backend = c.backend /\ d.query = c.query /\ d.opened = c.opened
    /\ d.closed = c.closed /\ d.prefetched = c.prefetched
    /\ d.left = c.left /\ d.failed = c.failed /\ d.ordered_fids = c.ordered_fids

\* A cursor of GDAL, whatever it has given.
GdalCursor(c) ==
    /\ DOMAIN c = CursorFields /\ c.backend = "GdalOpenFileGDB"
    /\ c.query.offset \in Nat /\ c.query.limit \in Nat
    /\ c.opened \in 1 .. version /\ GdalTypes(c)

LEMMA OpenedIs ==
  ASSUME version \in DOMAIN Versions, NEW n \in 1 .. version
  PROVE  n \in DOMAIN Versions
  BY RowsAssumption

LEMMA OrderedIs ==
  ASSUME version \in DOMAIN Versions, NEW c, GdalCursor(c)
  PROVE  /\ c.ordered_fids \in Seq(AllFids) /\ Len(c.ordered_fids) \in Nat
         /\ \A i \in 1 .. Len(c.ordered_fids) : c.ordered_fids[i] \in AllFids
         /\ \A i, j \in 1 .. Len(c.ordered_fids) :
               i < j => c.ordered_fids[i] < c.ordered_fids[j]
         /\ c.ordered_fids = Matching(c.opened, c.query) \/ c.ordered_fids = <<>>
  <1>1. c.ordered_fids = Matching(c.opened, c.query) \/ c.ordered_fids = <<>>
    BY DEF GdalCursor, GdalTypes
  <1>2. c.opened \in DOMAIN Versions
    BY OpenedIs DEF GdalCursor
  <1>3. CASE c.ordered_fids = <<>>
    <2>1. <<>> \in Seq(AllFids) /\ Len(<<>>) = 0
      BY EmptySeq
    <2> QED BY <1>3, <2>1
  <1>4. CASE c.ordered_fids = Matching(c.opened, c.query)
    <2>1. MatchingFids(c.opened, c.query) \in SUBSET AllFids
      BY <1>2, MatchingIs
    <2> QED BY <1>4, <2>1, InOrderIs DEF Matching
  <1> QED BY <1>1, <1>3, <1>4

LEMMA AheadIs ==
  ASSUME version \in DOMAIN Versions, NEW c, GdalCursor(c)
  PROVE  LET ahead == AheadAt(version, c)
         IN  /\ ahead = Ahead(c)
             /\ ahead \in Seq(AllFids) /\ Len(ahead) \in Nat
             /\ \A i \in 1 .. Len(ahead) : ahead[i] \in AllFids
             /\ \A i, j \in 1 .. Len(ahead) : i < j => ahead[i] < ahead[j]
             /\ \A i \in 1 .. Len(ahead) : \A f \in AllFids : Behind(c, f) => f < ahead[i]
             /\ c.ordered_fids = <<>> =>
                  /\ \A i \in 1 .. Len(ahead) : /\ ahead[i] \in MatchingFids(version, c.query)
                                                /\ ahead[i] > c.after
                  /\ \A f \in MatchingFids(version, c.query) :
                        f > c.after => \E i \in 1 .. Len(ahead) : ahead[i] = f
             /\ c.ordered_fids # <<>> =>
                  /\ Len(ahead) = IF c.ordered_index <= Len(c.ordered_fids)
                                  THEN Len(c.ordered_fids) - c.ordered_index + 1 ELSE 0
                  /\ \A i \in 1 .. Len(ahead) :
                        ahead[i] = c.ordered_fids[c.ordered_index + i - 1]
  <1>1. PICK ahead : ahead = AheadAt(version, c)
    OBVIOUS
  <1>2. ahead = Ahead(c)
    BY <1>1 DEF AheadAt, Ahead
  <1>3. CASE c.ordered_fids = <<>>
    <2>1. PICK S : S = {f \in MatchingFids(version, c.query) : f > c.after}
      OBVIOUS
    <2>2. S \in SUBSET AllFids
      BY <2>1, MatchingIs
    <2>3. ahead = InOrder(S)
      BY <1>1, <1>3, <2>1 DEF AheadAt
    <2>4. /\ ahead \in Seq(AllFids) /\ Len(ahead) \in Nat
          /\ \A i \in 1 .. Len(ahead) : ahead[i] \in S /\ ahead[i] \in AllFids
          /\ \A i, j \in 1 .. Len(ahead) : i < j => ahead[i] < ahead[j]
          /\ \A f \in S : \E i \in 1 .. Len(ahead) : ahead[i] = f
      BY <2>2, <2>3, InOrderIs
    <2>5. \A i \in 1 .. Len(ahead) : \A f \in AllFids : Behind(c, f) => f < ahead[i]
      <3>1. c.after \in Int /\ AllFids \subseteq Int
        BY DEF GdalCursor, GdalTypes, AllFids
      <3>2. \A i \in 1 .. Len(ahead) : ahead[i] \in Int /\ c.after < ahead[i]
        BY <2>1, <2>4, <3>1
      <3> QED BY <1>3, <3>1, <3>2 DEF Behind
    <2> QED BY <1>1, <1>2, <1>3, <2>1, <2>4, <2>5
  <1>4. CASE c.ordered_fids # <<>>
    <2>1. PICK s, k : s = c.ordered_fids /\ k = c.ordered_index
      OBVIOUS
    <2>2. /\ s \in Seq(AllFids) /\ Len(s) \in Nat /\ k \in Nat \ {0}
          /\ \A i \in 1 .. Len(s) : s[i] \in AllFids
          /\ \A i, j \in 1 .. Len(s) : i < j => s[i] < s[j]
      BY <2>1, OrderedIs DEF GdalCursor, GdalTypes
    <2>3. ahead = SubSeq(s, k, Len(s))
      BY <1>1, <1>4, <2>1 DEF AheadAt
    <2>4. \A i \in k .. Len(s) : s[i] \in AllFids
      BY <2>2
    <2>5. /\ ahead \in Seq(AllFids)
          /\ Len(ahead) = IF k <= Len(s) THEN Len(s) - k + 1 ELSE 0
          /\ \A i \in 1 .. Len(s) - k + 1 : ahead[i] = s[k + i - 1]
      BY <2>2, <2>3, <2>4, SubSeqProperties
    <2>6. /\ Len(ahead) \in Nat
          /\ \A i \in 1 .. Len(ahead) : ahead[i] = s[k + i - 1] /\ k + i - 1 \in k .. Len(s)
      BY <2>2, <2>5
    <2>9. \A i \in 1 .. Len(ahead) : ahead[i] \in AllFids
      BY <2>4, <2>6
    <2>7. ASSUME NEW i \in 1 .. Len(ahead), NEW j \in 1 .. Len(ahead), i < j
          PROVE  ahead[i] < ahead[j]
      <3>1. k + i - 1 \in 1 .. Len(s) /\ k + j - 1 \in 1 .. Len(s) /\ k + i - 1 < k + j - 1
        BY <2>2, <2>6, <2>7
      <3>2. s[k + i - 1] < s[k + j - 1]
        BY <2>2, <3>1
      <3> QED BY <2>6, <3>2
    <2>8. \A i \in 1 .. Len(ahead) : \A f \in AllFids : Behind(c, f) => f < ahead[i]
      BY <1>4, <2>1, <2>6 DEF Behind
    <2> QED BY <1>1, <1>2, <1>4, <2>1, <2>5, <2>6, <2>7, <2>8, <2>9
  <1> QED BY <1>3, <1>4

\* Cursor d stands n rows further than c.
Further(c, d, n) ==
    LET ahead == AheadAt(version, c)
    IN  /\ Kept(c, d) /\ GdalCursor(d)
        /\ Len(AheadAt(version, d)) = Len(ahead) - n
        /\ \A i \in 1 .. Len(AheadAt(version, d)) : AheadAt(version, d)[i] = ahead[n + i]
        /\ \A f \in AllFids : Behind(c, f) => Behind(d, f)
        /\ \A i \in 1 .. n : Behind(d, ahead[i])
        /\ c.ordered_fids = <<>> => d.after = IF n = 0 THEN c.after ELSE ahead[n]

LEMMA PassedIs ==
  ASSUME version \in DOMAIN Versions, NEW c, GdalCursor(c),
         NEW n \in 0 .. Len(AheadAt(version, c))
  PROVE  /\ Further(c, Passed(c, n), n)
         /\ Passed(c, n).remaining_skip = c.remaining_skip
         /\ Passed(c, n).remaining_limit = c.remaining_limit
  <1>1. PICK ahead, d : ahead = AheadAt(version, c) /\ d = Passed(c, n)
    OBVIOUS
  <1>2. /\ ahead = Ahead(c)
        /\ ahead \in Seq(AllFids) /\ Len(ahead) \in Nat
        /\ \A i \in 1 .. Len(ahead) : ahead[i] \in AllFids
        /\ \A i, j \in 1 .. Len(ahead) : i < j => ahead[i] < ahead[j]
        /\ \A i \in 1 .. Len(ahead) : \A f \in AllFids : Behind(c, f) => f < ahead[i]
        /\ c.ordered_fids = <<>> =>
             /\ \A i \in 1 .. Len(ahead) : /\ ahead[i] \in MatchingFids(version, c.query)
                                           /\ ahead[i] > c.after
             /\ \A f \in MatchingFids(version, c.query) :
                   f > c.after => \E i \in 1 .. Len(ahead) : ahead[i] = f
        /\ c.ordered_fids # <<>> =>
             /\ Len(ahead) = IF c.ordered_index <= Len(c.ordered_fids)
                             THEN Len(c.ordered_fids) - c.ordered_index + 1 ELSE 0
             /\ \A i \in 1 .. Len(ahead) :
                   ahead[i] = c.ordered_fids[c.ordered_index + i - 1]
    BY <1>1, AheadIs
  <1>3. n \in Nat /\ n <= Len(ahead) /\ AllFids \subseteq Nat
    BY <1>1, <1>2 DEF AllFids
  <1>4. CASE n = 0
    <2>1. d = c
      BY <1>1, <1>4 DEF Passed
    <2>2. Kept(c, d)
      BY <2>1 DEF Kept, GdalCursor
    <2>3. Len(ahead) = Len(ahead) - n /\ \A i \in 1 .. Len(ahead) : n + i = i
      BY <1>2, <1>4
    <2>4. \A i \in 1 .. n : FALSE
      BY <1>4
    <2> QED BY <1>1, <1>4, <2>1, <2>2, <2>3, <2>4 DEF Further
  <1>5. CASE n # 0 /\ c.ordered_fids = <<>>
    <2>1. d = [c EXCEPT !.after = ahead[n]] /\ n \in 1 .. Len(ahead)
      BY <1>1, <1>2, <1>3, <1>5 DEF Passed
    <2>2. Kept(c, d) /\ d.after = ahead[n] /\ d.ordered_index = c.ordered_index
          /\ d.remaining_skip = c.remaining_skip /\ d.remaining_limit = c.remaining_limit
      BY <2>1 DEF Kept, GdalCursor, CursorFields
    <2>3. ahead[n] \in AllFids /\ ahead[n] \in Nat /\ c.after \in Nat /\ c.after < ahead[n]
      BY <1>2, <1>3, <1>5, <2>1 DEF GdalCursor, GdalTypes
    <2>4. GdalCursor(d)
      BY <2>2, <2>3 DEF GdalCursor, GdalTypes, Kept
    <2>5. \A f \in AllFids : Behind(c, f) => Behind(d, f)
      <3>1. \A f \in AllFids : f <= c.after => f <= ahead[n]
        BY <1>3, <2>3
      <3> QED BY <1>5, <2>2, <3>1 DEF Behind, Kept
    <2>6. \A i \in 1 .. n : Behind(d, ahead[i])
      <3> SUFFICES ASSUME NEW i \in 1 .. n PROVE Behind(d, ahead[i])
        OBVIOUS
      <3>1. i \in 1 .. Len(ahead) /\ (i = n \/ i < n)
        BY <1>2, <1>3
      <3>2. ahead[i] <= ahead[n]
        BY <1>2, <1>3, <2>1, <2>3, <3>1
      <3> QED BY <1>5, <2>2, <3>2 DEF Behind, Kept
    <2>7. /\ Len(AheadAt(version, d)) = Len(ahead) - n
          /\ \A i \in 1 .. Len(AheadAt(version, d)) : AheadAt(version, d)[i] = ahead[n + i]
      <3>1. PICK S : S = {f \in MatchingFids(version, c.query) : f > c.after}
        OBVIOUS
      <3>2. S \in SUBSET AllFids /\ ahead = InOrder(S)
        BY <1>1, <1>5, <3>1, MatchingIs DEF AheadAt
      <3>3. PICK rest : rest = InOrder({f \in S : f > ahead[n]})
        OBVIOUS
      <3>4. Len(rest) = Len(ahead) - n /\ \A i \in 1 .. Len(rest) : rest[i] = ahead[n + i]
        <4>1. n \in 1 .. Len(InOrder(S)) /\ rest = InOrder({f \in S : f > InOrder(S)[n]})
          BY <2>1, <3>2, <3>3
        <4>2. /\ Len(rest) = Len(InOrder(S)) - n
              /\ \A i \in 1 .. Len(rest) : rest[i] = InOrder(S)[n + i]
          BY <3>2, <4>1, InOrderRest
        <4> QED BY <3>2, <4>2
      <3>5. {f \in S : f > ahead[n]} = {f \in MatchingFids(version, c.query) : f > ahead[n]}
        <4>1. \A f \in MatchingFids(version, c.query) : f \in Nat
          BY <1>3, MatchingIs
        <4>2. \A f \in MatchingFids(version, c.query) : f > ahead[n] => f > c.after
          BY <2>3, <4>1
        <4> QED BY <3>1, <4>2
      <3>6. AheadAt(version, d) = rest
        BY <1>5, <2>2, <3>3, <3>5 DEF AheadAt, Kept
      <3> QED BY <3>4, <3>6
    <2> QED BY <1>1, <1>5, <2>2, <2>4, <2>5, <2>6, <2>7 DEF Further
  <1>6. CASE n # 0 /\ c.ordered_fids # <<>>
    <2>1. PICK s, k : s = c.ordered_fids /\ k = c.ordered_index
      OBVIOUS
    <2>2. /\ s \in Seq(AllFids) /\ Len(s) \in Nat /\ k \in Nat \ {0}
          /\ \A i \in 1 .. Len(s) : s[i] \in AllFids
          /\ \A i, j \in 1 .. Len(s) : i < j => s[i] < s[j]
      BY <2>1, OrderedIs DEF GdalCursor, GdalTypes
    <2>3. d = [c EXCEPT !.ordered_index = @ + n]
      BY <1>1, <1>3, <1>6 DEF Passed
    <2>4. Kept(c, d) /\ d.after = c.after /\ d.ordered_index = k + n
          /\ d.remaining_skip = c.remaining_skip /\ d.remaining_limit = c.remaining_limit
      BY <2>1, <2>3 DEF Kept, GdalCursor, CursorFields
    <2>5. GdalCursor(d)
      BY <1>3, <2>2, <2>4 DEF GdalCursor, GdalTypes, Kept
    <2>6. Len(ahead) = Len(s) - k + 1 /\ k + n <= Len(s) + 1
      BY <1>2, <1>3, <1>6, <2>1, <2>2
    <2>7. \A i \in 1 .. Len(ahead) : ahead[i] = s[k + i - 1]
      BY <1>2, <1>6, <2>1
    <2>8. \A f \in AllFids : Behind(c, f) => Behind(d, f)
      BY <1>3, <1>6, <2>1, <2>2, <2>4 DEF Behind, Kept
    <2>9. \A i \in 1 .. n : Behind(d, ahead[i])
      <3> SUFFICES ASSUME NEW i \in 1 .. n, NEW j \in k + n .. Len(s)
                   PROVE  ahead[i] < s[j]
        BY <1>6, <2>1, <2>4 DEF Behind, Kept
      <3>1. i \in 1 .. Len(ahead) /\ k + i - 1 \in 1 .. Len(s) /\ j \in 1 .. Len(s) /\ k + i - 1 < j
        BY <1>3, <2>2, <2>6
      <3>2. ahead[i] = s[k + i - 1]
        BY <2>7, <3>1
      <3> QED BY <2>2, <3>1, <3>2
    <2>10. PICK rest : rest = AheadAt(version, d)
      OBVIOUS
    <2>11. /\ Len(rest) = IF k + n <= Len(s) THEN Len(s) - (k + n) + 1 ELSE 0
           /\ \A i \in 1 .. Len(rest) : rest[i] = s[k + n + i - 1]
      BY <1>6, <2>1, <2>4, <2>5, <2>10, AheadIs DEF Kept
    <2>12. Len(rest) = Len(ahead) - n
      BY <1>3, <2>2, <2>6, <2>11
    <2>13. ASSUME NEW i \in 1 .. Len(rest) PROVE rest[i] = ahead[n + i]
      <3>1. n + i \in 1 .. Len(ahead) /\ k + (n + i) - 1 = k + n + i - 1
        BY <1>2, <1>3, <2>2, <2>12
      <3>2. ahead[n + i] = s[k + (n + i) - 1]
        BY <2>7, <3>1
      <3> QED BY <2>11, <3>1, <3>2
    <2> QED BY <1>1, <1>6, <2>4, <2>5, <2>8, <2>9, <2>10, <2>12, <2>13 DEF Further
  <1> QED BY <1>4, <1>5, <1>6

\* How far a cursor stands does not depend on what it has to skip or its limit.
LEMMA FurtherSame ==
  ASSUME NEW c, NEW d, NEW e, NEW n, Further(c, d, n), Kept(d, e), GdalTypes(e),
         e.after = d.after, e.ordered_index = d.ordered_index
  PROVE  Further(c, e, n)
  <1>1. Kept(c, e) /\ GdalCursor(e)
    BY DEF Further, Kept, GdalCursor
  <1>2. AheadAt(version, e) = AheadAt(version, d) /\ \A f : Behind(d, f) <=> Behind(e, f)
    BY DEF AheadAt, Behind, Kept
  <1> QED BY <1>1, <1>2 DEF Further

LEMMA SkippedIs ==
  ASSUME version \in DOMAIN Versions, NEW c, GdalCursor(c), NEW n \in Skips(c)
  PROVE  /\ n \in 0 .. c.remaining_skip /\ n \in 0 .. Len(AheadAt(version, c))
         /\ Further(c, Skipped(c, n), n)
         /\ Skipped(c, n).remaining_skip = c.remaining_skip - n
         /\ Skipped(c, n).remaining_limit = c.remaining_limit
  <1>1. PICK d, e : d = Passed(c, n) /\ e = Skipped(c, n)
    OBVIOUS
  <1>2. AheadAt(version, c) = Ahead(c) /\ Len(Ahead(c)) \in Nat
    BY AheadIs
  <1>3. n \in 0 .. c.remaining_skip /\ n \in 0 .. Len(AheadAt(version, c))
    BY <1>2 DEF Skips
  <1>4. /\ Further(c, d, n) /\ d.remaining_skip = c.remaining_skip
        /\ d.remaining_limit = c.remaining_limit
    BY <1>1, <1>3, PassedIs
  <1>5. e = [d EXCEPT !.remaining_skip = @ - n] /\ DOMAIN d = CursorFields
    BY <1>1, <1>4 DEF Skipped, Further, Kept
  <1>6. /\ Kept(d, e) /\ e.after = d.after /\ e.ordered_index = d.ordered_index
        /\ e.remaining_skip = c.remaining_skip - n /\ e.remaining_limit = c.remaining_limit
    BY <1>4, <1>5 DEF Kept, CursorFields
  <1>7. GdalTypes(d) /\ GdalTypes(c) /\ c.query.offset \in Nat /\ d.query = c.query
    BY <1>4 DEF Further, GdalCursor, Kept
  <1>8. e.remaining_skip \in 0 .. c.query.offset
    <2>1. PICK skip, offset : skip = c.remaining_skip /\ offset = c.query.offset
      OBVIOUS
    <2>2. skip \in 0 .. offset /\ offset \in Nat /\ n \in 0 .. skip
      BY <1>3, <1>7, <2>1 DEF GdalTypes
    <2>3. skip - n \in 0 .. offset
      BY <2>2
    <2> QED BY <1>6, <2>1, <2>3
  <1>9. GdalTypes(e)
    BY <1>4, <1>6, <1>7, <1>8 DEF GdalTypes, Kept
  <1>10. Further(c, e, n)
    BY <1>4, <1>6, <1>9, FurtherSame
  <1> QED BY <1>1, <1>3, <1>6, <1>10

\* Outcomes of reading on without the offset: no row, an error, a row that is
\* gone, and the next row.
NoneLeft(c, o) == o.returned = NoRow /\ o.cursor = c

Failed(c, o) ==
    /\ o.returned = Error
    /\ \E n \in {0, 1} : Further(c, o.cursor, n)
    /\ o.cursor.remaining_limit <= c.remaining_limit

Gone(c, o) ==
    /\ o.returned = NoRow
    /\ Len(AheadAt(version, c)) > 0 /\ ~Exists(AheadAt(version, c)[1], version)
    /\ Further(c, o.cursor, 1) /\ o.cursor.remaining_limit = c.remaining_limit

Next1(c, o) ==
    /\ Len(AheadAt(version, c)) > 0 /\ o.returned = AheadAt(version, c)[1]
    /\ o.returned \in AllFids /\ Exists(o.returned, version)
    /\ Further(c, o.cursor, 1)

LEMMA SourceCases ==
  ASSUME version \in DOMAIN Versions, NEW c, GdalCursor(c), NEW o \in next_gdal_source(c)
  PROVE  /\ o = Outcome(o.cursor, o.returned)
         /\ \/ NoneLeft(c, o) /\ Len(AheadAt(version, c)) = 0
            \/ Failed(c, o)
            \/ Gone(c, o)
            \/ Next1(c, o) /\ o.cursor.remaining_limit = c.remaining_limit
         /\ o.cursor.remaining_skip = c.remaining_skip
  <1>1. PICK ahead : ahead = AheadAt(version, c)
    OBVIOUS
  <1>2. /\ ahead = Ahead(c) /\ ahead \in Seq(AllFids) /\ Len(ahead) \in Nat
        /\ \A i \in 1 .. Len(ahead) : ahead[i] \in AllFids
    BY <1>1, AheadIs
  <1>3. c.remaining_limit \in Nat
    BY DEF GdalCursor, GdalTypes
  <1>4. CASE ahead = <<>>
    <2>1. Len(ahead) = 0
      BY <1>4
    <2>2. 0 \in 0 .. Len(ahead) /\ Passed(c, 0) = c
      BY <1>2 DEF Passed
    <2>3. Further(c, c, 0)
      BY <1>1, <2>2, PassedIs
    <2>4. o = Outcome(c, NoRow) \/ o = Outcome(c, Error)
      BY <1>2, <1>4 DEF next_gdal_source
    <2>5. o.cursor = c /\ (o.returned = NoRow \/ o.returned = Error)
          /\ o = Outcome(o.cursor, o.returned)
      BY <2>4 DEF Outcome
    <2> QED BY <1>1, <1>3, <2>1, <2>3, <2>5 DEF NoneLeft, Failed
  <1>5. CASE ahead # <<>>
    <2>1. Len(ahead) > 0 /\ 1 \in 1 .. Len(ahead) /\ 1 \in 0 .. Len(ahead)
      BY <1>2, <1>5, EmptySeq
    <2>2. PICK d : d = Passed(c, 1)
      OBVIOUS
    <2>3. /\ Further(c, d, 1) /\ d.remaining_skip = c.remaining_skip
          /\ d.remaining_limit = c.remaining_limit
      BY <1>1, <2>1, <2>2, PassedIs
    <2>4. o \in {Outcome(d, IF Exists(ahead[1], version) THEN ahead[1] ELSE NoRow),
                 Outcome(d, Error)}
      BY <1>2, <1>5, <2>2 DEF next_gdal_source
    <2>5. CASE o = Outcome(d, Error)
      <3>1. o.cursor = d /\ o.returned = Error /\ o = Outcome(o.cursor, o.returned)
        BY <2>5 DEF Outcome
      <3> QED BY <1>3, <2>3, <3>1 DEF Failed
    <2>6. CASE o = Outcome(d, ahead[1]) /\ Exists(ahead[1], version)
      <3>1. o.cursor = d /\ o.returned = ahead[1] /\ o = Outcome(o.cursor, o.returned)
        BY <2>6 DEF Outcome
      <3> QED BY <1>1, <1>2, <2>1, <2>3, <2>6, <3>1 DEF Next1
    <2>7. CASE o = Outcome(d, NoRow) /\ ~Exists(ahead[1], version)
      <3>1. o.cursor = d /\ o.returned = NoRow /\ o = Outcome(o.cursor, o.returned)
        BY <2>7 DEF Outcome
      <3> QED BY <1>1, <2>1, <2>3, <2>7, <3>1 DEF Gone
    <2> QED BY <2>4, <2>5, <2>6, <2>7
  <1> QED BY <1>4, <1>5

LEMMA MappedCases ==
  ASSUME version \in DOMAIN Versions, NEW c, GdalCursor(c), NEW o \in next_mapped(c)
  PROVE  /\ \/ /\ NoneLeft(c, o)
               /\ \/ Len(AheadAt(version, c)) = 0
                  \/ c.query.limit > 0 /\ c.remaining_limit = 0
            \/ Failed(c, o)
            \/ Gone(c, o)
            \/ /\ Next1(c, o)
               /\ c.query.limit > 0 => o.cursor.remaining_limit = c.remaining_limit - 1
         /\ o.cursor.remaining_skip = c.remaining_skip
  <1>1. CASE c.query.limit > 0 /\ c.remaining_limit = 0
    <2>1. o = Outcome(c, NoRow)
      BY <1>1 DEF next_mapped
    <2> QED BY <1>1, <2>1 DEF Outcome, NoneLeft
  <1>2. CASE ~(c.query.limit > 0 /\ c.remaining_limit = 0)
    <2>0. c.remaining_limit \in Nat /\ c.query.limit \in Nat
      BY DEF GdalCursor, GdalTypes
    <2>1. PICK p \in next_gdal_source(c) :
             o = IF p.returned \in {NoRow, Error} THEN p
                 ELSE map_gdal_feature(IF c.query.limit = 0 THEN p
                                       ELSE [p EXCEPT !.cursor.remaining_limit = @ - 1])
      BY <1>2 DEF next_mapped
    <2>2. /\ p = Outcome(p.cursor, p.returned)
          /\ \/ NoneLeft(c, p) /\ Len(AheadAt(version, c)) = 0
             \/ Failed(c, p)
             \/ Gone(c, p)
             \/ Next1(c, p) /\ p.cursor.remaining_limit = c.remaining_limit
          /\ p.cursor.remaining_skip = c.remaining_skip
      BY SourceCases
    <2>3. CASE p.returned \in {NoRow, Error}
      <3>1. o = p
        BY <2>1, <2>3
      <3>2. ~(p.returned \in AllFids)
        BY <2>3 DEF NoRow, Error, AllFids
      <3> QED BY <2>2, <3>1, <3>2 DEF Next1
    <2>4. CASE p.returned \notin {NoRow, Error}
      <3>1. Next1(c, p) /\ p.cursor.remaining_limit = c.remaining_limit
        BY <2>2, <2>4 DEF NoneLeft, Failed, Gone
      <3>2. PICK d, e, f :
               /\ d = p.cursor /\ f = p.returned
               /\ e = IF c.query.limit = 0 THEN d ELSE [d EXCEPT !.remaining_limit = @ - 1]
        OBVIOUS
      <3>3. Further(c, d, 1) /\ GdalCursor(d) /\ DOMAIN d = CursorFields
        BY <3>1, <3>2 DEF Next1, Further, GdalCursor
      <3>4. o = map_gdal_feature(Outcome(e, f))
        <4>1. p = Outcome(d, f)
          BY <2>2, <3>2
        <4>2. CASE c.query.limit = 0
          BY <2>1, <2>4, <3>2, <4>1, <4>2
        <4>3. CASE c.query.limit # 0
          <5>1. [p EXCEPT !.cursor.remaining_limit = @ - 1] = Outcome(e, f)
            BY <3>2, <4>1, <4>3 DEF Outcome
          <5> QED BY <2>1, <2>4, <4>3, <5>1
        <4> QED BY <4>2, <4>3
      <3>5. /\ Kept(d, e) /\ e.after = d.after /\ e.ordered_index = d.ordered_index
            /\ e.remaining_skip = d.remaining_skip
            /\ e.remaining_limit = IF c.query.limit = 0 THEN d.remaining_limit
                                   ELSE d.remaining_limit - 1
        <4>1. CASE c.query.limit = 0
          BY <3>2, <3>3, <4>1 DEF Kept
        <4>2. CASE c.query.limit # 0
          <5>1. e = [d EXCEPT !.remaining_limit = @ - 1]
            BY <3>2, <4>2
          <5> QED BY <3>3, <4>2, <5>1 DEF Kept, CursorFields
        <4> QED BY <4>1, <4>2
      <3>6. e.remaining_limit \in Nat /\ e.remaining_limit <= c.remaining_limit
        BY <1>2, <2>0, <3>1, <3>2, <3>5
      <3>7. GdalTypes(e)
        BY <3>3, <3>5, <3>6 DEF GdalCursor, GdalTypes, Kept
      <3>8. Further(c, e, 1)
        BY <3>3, <3>5, <3>7, FurtherSame
      <3>9. o = Outcome(e, Error) \/ o = Outcome(e, f)
        BY <3>4 DEF map_gdal_feature, Outcome
      <3>10. o.cursor = e /\ (o.returned = Error \/ o.returned = f)
        BY <3>9 DEF Outcome
      <3>11. e.remaining_skip = c.remaining_skip
        BY <2>2, <3>2, <3>5
      <3>12. c.query.limit > 0 => e.remaining_limit = c.remaining_limit - 1
        BY <2>0, <3>1, <3>2, <3>5
      <3>13. CASE o.returned = Error
        BY <3>6, <3>8, <3>10, <3>11, <3>13 DEF Failed
      <3>14. CASE o.returned = f
        BY <3>1, <3>2, <3>8, <3>10, <3>11, <3>12, <3>14 DEF Next1
      <3> QED BY <3>10, <3>13, <3>14
    <2> QED BY <2>3, <2>4
  <1> QED BY <1>1, <1>2

-----------------------------------------------------------------------------
(* What GDAL's reading keeps.                                              *)

\* A line of a cursor of GDAL.
GdalLine(c, line, s) ==
    /\ GdalCursor(c) /\ line \in Seq(AllFids) /\ Ascending(line)
    /\ GdalReads(version, c, line, s)

LEMMA AheadMatches ==
  ASSUME version \in DOMAIN Versions, NEW c, GdalCursor(c), c.opened = version,
         NEW i \in 1 .. Len(AheadAt(version, c))
  PROVE  AheadAt(version, c)[i] \in MatchingFids(version, c.query)
  <1>1. CASE c.ordered_fids = <<>>
    BY <1>1, AheadIs
  <1>2. CASE c.ordered_fids # <<>>
    <2>1. PICK s, at, k : s = c.ordered_fids /\ at = c.ordered_index /\ k = at + i - 1
      OBVIOUS
    <2>2. /\ AheadAt(version, c)[i] = s[k]
          /\ Len(AheadAt(version, c)) = IF at <= Len(s) THEN Len(s) - at + 1 ELSE 0
      BY <1>2, <2>1, AheadIs
    <2>3. at \in Nat \ {0} /\ Len(s) \in Nat /\ s = Matching(version, c.query)
      BY <1>2, <2>1, OrderedIs DEF GdalCursor, GdalTypes
    <2>4. k \in 1 .. Len(s)
      BY <2>1, <2>2, <2>3
    <2>5. MatchingFids(version, c.query) \in SUBSET AllFids
      BY MatchingIs
    <2>6. \A j \in 1 .. Len(s) : s[j] \in MatchingFids(version, c.query)
      BY <2>3, <2>5, InOrderIs DEF Matching
    <2> QED BY <2>2, <2>4, <2>6
  <1> QED BY <1>1, <1>2

\* After an error only what was given counts.
LEMMA ErrorReads ==
  ASSUME NEW c, NEW line, NEW s, GdalLine(c, line, s), NEW d, NEW n, Further(c, d, n),
         d.remaining_limit <= c.remaining_limit, NEW t, t # "none"
  PROVE  GdalLine(d, line, t)
  <1>1. GdalReads(version, c, line, s) /\ GdalCursor(c) /\ GdalCursor(d) /\ Kept(c, d)
        /\ \A f \in AllFids : Behind(c, f) => Behind(d, f)
    BY DEF GdalLine, Further
  <1>2. Len(line) \in Nat /\ \A i \in 1 .. Len(line) : line[i] \in AllFids
    BY LenProperties, ElementOfSeq DEF GdalLine
  <1>3. GdalTypes(d) /\ \A i \in 1 .. Len(line) : Behind(d, line[i])
    BY <1>1, <1>2 DEF GdalReads, GdalCursor
  <1>4. d.query.limit > 0 => Len(line) + d.remaining_limit <= d.query.limit
    <2>1. d.remaining_limit \in Nat /\ c.remaining_limit \in Nat /\ d.query = c.query
          /\ c.query.limit \in Nat
      BY <1>1 DEF GdalCursor, GdalTypes, Kept
    <2>2. c.query.limit > 0 => Len(line) + c.remaining_limit <= c.query.limit
      BY <1>1 DEF GdalReads
    <2>3. PICK limit, left, before, size :
             limit = c.query.limit /\ left = d.remaining_limit
             /\ before = c.remaining_limit /\ size = Len(line)
      OBVIOUS
    <2>4. limit \in Nat /\ left \in Nat /\ before \in Nat /\ size \in Nat
      BY <1>2, <2>1, <2>3
    <2>5. left <= before
      BY <2>3
    <2>6. limit > 0 => size + before <= limit
      BY <2>2, <2>3
    <2>7. limit > 0 => size + left <= limit
      BY <2>4, <2>5, <2>6
    <2> QED BY <2>1, <2>3, <2>7
  <1>5. d.opened = version => \A i \in 1 .. Len(line) : line[i] \in MatchingFids(version, d.query)
    BY <1>1 DEF GdalReads, Kept
  <1> QED BY <1>1, <1>3, <1>4, <1>5 DEF GdalReads, GdalLine

\* Skipping rows of the offset.
LEMMA SkipReads ==
  ASSUME version \in DOMAIN Versions, NEW c, NEW line, NEW s, GdalLine(c, line, s),
         NEW n \in Skips(c)
  PROVE  GdalLine(Skipped(c, n), line, s)
  <1>1. PICK d : d = Skipped(c, n)
    OBVIOUS
  <1>2. GdalCursor(c) /\ line \in Seq(AllFids) /\ Ascending(line) /\ GdalReads(version, c, line, s)
    BY DEF GdalLine
  <1>3. /\ n \in 0 .. c.remaining_skip /\ n \in 0 .. Len(AheadAt(version, c))
        /\ Further(c, d, n)
        /\ d.remaining_skip = c.remaining_skip - n /\ d.remaining_limit = c.remaining_limit
    BY <1>1, <1>2, SkippedIs
  <1>4. Len(line) \in Nat /\ \A i \in 1 .. Len(line) : line[i] \in AllFids
    BY <1>2, LenProperties, ElementOfSeq
  <1>5. GdalCursor(d) /\ Kept(c, d) /\ \A f \in AllFids : Behind(c, f) => Behind(d, f)
    BY <1>3 DEF Further
  <1>6. GdalTypes(d) /\ \A i \in 1 .. Len(line) : Behind(d, line[i])
    BY <1>2, <1>4, <1>5 DEF GdalReads, GdalCursor
  <1>7. d.query.limit > 0 => Len(line) + d.remaining_limit <= d.query.limit
    BY <1>2, <1>3, <1>5 DEF GdalReads, Kept
  <1>8. d.opened = version => \A i \in 1 .. Len(line) : line[i] \in MatchingFids(version, d.query)
    BY <1>2, <1>5 DEF GdalReads, Kept
  <1>9. ASSUME d.opened = version, s = "none" PROVE InStep(d, line, AheadAt(version, d))
    <2>1. PICK all, ahead, rest :
             /\ all = Matching(c.opened, c.query)
             /\ ahead = AheadAt(version, c) /\ rest = AheadAt(version, d)
      OBVIOUS
    <2>2. InStep(c, line, ahead)
      BY <1>2, <1>5, <1>9, <2>1 DEF GdalReads, Kept
    <2>3. PICK passed : passed = c.query.offset - c.remaining_skip + Len(line)
      OBVIOUS
    <2>4. /\ c.remaining_skip > 0 => line = <<>>
          /\ c.query.limit > 0 => Len(line) + c.remaining_limit = c.query.limit
          /\ passed + Len(ahead) = Len(all)
          /\ \A i \in 1 .. Len(line) : line[i] = all[c.query.offset + i]
          /\ \A i \in 1 .. Len(ahead) : ahead[i] = all[passed + i]
      BY <2>1, <2>2, <2>3 DEF InStep
    <2>5. /\ Len(rest) = Len(ahead) - n /\ \A i \in 1 .. Len(rest) : rest[i] = ahead[n + i]
      BY <1>3, <2>1 DEF Further
    <2>6. c.query.offset \in Nat /\ c.remaining_skip \in Nat /\ Len(ahead) \in Nat
          /\ n \in Nat /\ n <= c.remaining_skip /\ passed \in Int
      BY <1>2, <1>3, <1>4, <2>1, <2>3, AheadIs DEF GdalCursor, GdalTypes
    <2>7. PICK now : now = d.query.offset - d.remaining_skip + Len(line)
      OBVIOUS
    <2>8. now = passed + n
      <3>1. PICK offset, skip, len :
              offset = c.query.offset /\ skip = c.remaining_skip /\ len = Len(line)
        OBVIOUS
      <3>2. now = offset - (skip - n) + len /\ passed = offset - skip + len
        BY <1>3, <1>5, <2>3, <2>7, <3>1 DEF Kept
      <3>3. offset \in Nat /\ skip \in Nat /\ n \in Nat /\ len \in Nat
        BY <1>4, <2>6, <3>1
      <3> QED BY <3>2, <3>3
    <2>9. now + Len(rest) = Len(all)
      <3>1. Len(all) = passed + Len(ahead)
        BY <2>4
      <3> QED BY <2>5, <2>6, <2>8, <3>1
    <2>10. ASSUME NEW i \in 1 .. Len(rest) PROVE rest[i] = all[now + i]
      <3>1. n + i \in 1 .. Len(ahead) /\ passed + (n + i) = now + i
        BY <2>5, <2>6, <2>8
      <3>2. ahead[n + i] = all[passed + (n + i)]
        BY <2>4, <3>1
      <3> QED BY <2>5, <3>1, <3>2
    <2>11. d.remaining_skip > 0 => line = <<>>
      BY <1>3, <2>4, <2>6
    <2>12. /\ d.query.limit > 0 => Len(line) + d.remaining_limit = d.query.limit
           /\ \A i \in 1 .. Len(line) : line[i] = all[d.query.offset + i]
           /\ all = Matching(d.opened, d.query)
      BY <1>3, <1>5, <2>1, <2>4 DEF Kept
    <2> QED BY <2>1, <2>7, <2>9, <2>10, <2>11, <2>12 DEF InStep
  <1>10. ASSUME s = "none", Everything(d), NEW f \in Steady(version, d), f <= d.after
         PROVE  \E i \in 1 .. Len(line) : line[i] = f
    <2>1. Everything(c) /\ Steady(version, d) = Steady(version, c)
      BY <1>5, <1>10 DEF Kept, Everything, Steady
    <2>2. n = 0
      BY <1>2, <1>3, <2>1 DEF GdalCursor, GdalTypes, Everything
    <2>3. d.after = c.after
      BY <1>3, <2>1, <2>2 DEF Further, Everything
    <2> QED BY <1>2, <1>10, <2>1, <2>3 DEF GdalReads
  <1>11. GdalReads(version, d, line, s)
    BY <1>6, <1>7, <1>8, <1>9, <1>10 DEF GdalReads
  <1> QED BY <1>1, <1>2, <1>5, <1>11 DEF GdalLine

\* A row that is gone was collected before the source was changed.
LEMMA GoneReads ==
  ASSUME version \in DOMAIN Versions, NEW c, NEW line, NEW s, GdalLine(c, line, s),
         NEW o, Gone(c, o)
  PROVE  /\ c.opened # version /\ c.ordered_fids # <<>>
         /\ GdalLine(o.cursor, line, s)
  <1>1. GdalCursor(c) /\ line \in Seq(AllFids) /\ GdalReads(version, c, line, s)
    BY DEF GdalLine
  <1>2. PICK ahead, d : ahead = AheadAt(version, c) /\ d = o.cursor
    OBVIOUS
  <1>3. Len(ahead) > 0 /\ ~Exists(ahead[1], version) /\ Further(c, d, 1)
        /\ d.remaining_limit = c.remaining_limit
    BY <1>2 DEF Gone
  <1>4. 1 \in 1 .. Len(ahead) /\ ahead[1] \notin MatchingFids(version, c.query)
    <2>1. Len(ahead) \in Nat
      BY <1>1, <1>2, AheadIs
    <2>2. ahead[1] \notin MatchingFids(version, c.query)
      BY <1>3, MatchingIs
    <2> QED BY <1>3, <2>1, <2>2
  <1>5. c.opened # version
    BY <1>1, <1>2, <1>4, AheadMatches
  <1>6. c.ordered_fids # <<>>
    BY <1>1, <1>2, <1>4, AheadIs
  <1>7. c.remaining_limit \in Nat /\ d.opened = c.opened /\ d.ordered_fids = c.ordered_fids
    BY <1>1, <1>3 DEF GdalCursor, GdalTypes, Further, Kept
  <1>8. GdalLine(d, line, "error")
    <2>1. d.remaining_limit <= c.remaining_limit /\ "error" # "none"
      BY <1>3, <1>7
    <2> QED BY <1>3, <2>1, ErrorReads
  <1>9. GdalLine(d, line, s)
    BY <1>5, <1>6, <1>7, <1>8 DEF GdalLine, GdalReads, Everything
  <1> QED BY <1>2, <1>5, <1>6, <1>9

\* The next row.
LEMMA RowReads ==
  ASSUME version \in DOMAIN Versions, NEW c, NEW line, NEW s, GdalLine(c, line, s),
         c.remaining_skip = 0, NEW o, Next1(c, o), o.cursor.remaining_skip = 0,
         c.query.limit > 0 => o.cursor.remaining_limit = c.remaining_limit - 1
  PROVE  GdalLine(o.cursor, Append(line, o.returned), s)
  <1>1. GdalCursor(c) /\ line \in Seq(AllFids) /\ Ascending(line) /\ GdalReads(version, c, line, s)
    BY DEF GdalLine
  <1>2. PICK ahead, rest, d, r, longer :
           /\ ahead = AheadAt(version, c) /\ d = o.cursor /\ rest = AheadAt(version, d)
           /\ r = o.returned /\ longer = Append(line, r)
    OBVIOUS
  <1>3. Len(ahead) > 0 /\ r = ahead[1] /\ r \in AllFids /\ Further(c, d, 1)
    BY <1>2 DEF Next1
  <1>4. /\ longer \in Seq(AllFids) /\ Len(line) \in Nat /\ Len(longer) = Len(line) + 1
        /\ \A i \in 1 .. Len(line) : longer[i] = line[i] /\ line[i] \in AllFids
        /\ longer[Len(line) + 1] = r
        /\ DOMAIN line = 1 .. Len(line) /\ DOMAIN longer = 1 .. Len(longer)
    BY <1>1, <1>2, <1>3, AppendProperties, LenProperties, ElementOfSeq
  <1>5. Len(ahead) \in Nat /\ 1 \in 1 .. Len(ahead)
        /\ (\A f \in AllFids : Behind(c, f) => f < r)
        /\ \A i \in 1 .. Len(ahead) : ahead[i] \in AllFids /\ (1 < i => r < ahead[i])
    BY <1>1, <1>2, <1>3, AheadIs
  <1>6. /\ GdalCursor(d) /\ Kept(c, d)
        /\ Len(rest) = Len(ahead) - 1 /\ \A i \in 1 .. Len(rest) : rest[i] = ahead[1 + i]
        /\ \A f \in AllFids : Behind(c, f) => Behind(d, f)
        /\ Behind(d, r)
        /\ c.ordered_fids = <<>> => d.after = r
    BY <1>2, <1>3 DEF Further
  <1>7. \A i \in 1 .. Len(line) : Behind(c, line[i])
    BY <1>1 DEF GdalReads
  <1>8. Ascending(longer)
    <2> SUFFICES ASSUME NEW i \in 1 .. Len(longer), NEW j \in 1 .. Len(longer), i < j
                 PROVE  longer[i] < longer[j]
      BY <1>4 DEF Ascending
    <2>1. i \in 1 .. Len(line) /\ (j \in 1 .. Len(line) \/ j = Len(line) + 1)
      BY <1>4
    <2>2. CASE j \in 1 .. Len(line)
      BY <1>1, <1>4, <2>1, <2>2 DEF Ascending
    <2>3. CASE j = Len(line) + 1
      BY <1>4, <1>5, <1>7, <2>1, <2>3
    <2> QED BY <2>1, <2>2, <2>3
  <1>9. ASSUME NEW i \in 1 .. Len(longer)
        PROVE  \/ i \in 1 .. Len(line) /\ longer[i] = line[i]
               \/ i = Len(line) + 1 /\ longer[i] = r
    <2>1. i \in 1 .. Len(line) \/ i = Len(line) + 1
      BY <1>4
    <2>2. i = Len(line) + 1 => longer[i] = r
      BY <1>4
    <2>3. i \in 1 .. Len(line) => longer[i] = line[i]
      BY <1>4
    <2> QED BY <2>1, <2>2, <2>3
  <1>10. GdalTypes(d) /\ \A i \in 1 .. Len(longer) : Behind(d, longer[i])
    BY <1>4, <1>6, <1>7, <1>9 DEF GdalCursor
  <1>11. /\ c.query.limit \in Nat /\ c.remaining_limit \in Nat /\ c.query.offset \in Nat
         /\ d.query = c.query /\ d.opened = c.opened /\ d.ordered_fids = c.ordered_fids
    BY <1>1, <1>6 DEF GdalCursor, GdalTypes, Kept
  <1>12. d.query.limit > 0 => Len(longer) + d.remaining_limit <= d.query.limit
    <2>1. c.query.limit > 0 => Len(line) + c.remaining_limit <= c.query.limit
      BY <1>1 DEF GdalReads
    <2> QED BY <1>2, <1>4, <1>11, <2>1
  <1>13. ASSUME d.opened = version
         PROVE  \A i \in 1 .. Len(longer) : longer[i] \in MatchingFids(version, d.query)
    <2>1. r \in MatchingFids(version, c.query)
      BY <1>1, <1>2, <1>3, <1>5, <1>11, <1>13, AheadMatches
    <2>2. \A i \in 1 .. Len(line) : line[i] \in MatchingFids(version, c.query)
      BY <1>1, <1>11, <1>13 DEF GdalReads
    <2> QED BY <1>9, <1>11, <2>1, <2>2
  <1>14. ASSUME d.opened = version, s = "none" PROVE InStep(d, longer, rest)
    <2>1. PICK all : all = Matching(c.opened, c.query)
      OBVIOUS
    <2>2. InStep(c, line, ahead)
      BY <1>1, <1>2, <1>11, <1>14 DEF GdalReads
    <2>3. PICK passed : passed = c.query.offset + Len(line)
      OBVIOUS
    <2>4. passed = c.query.offset - c.remaining_skip + Len(line)
      BY <1>4, <1>11, <2>3
    <2>5. /\ c.query.limit > 0 => Len(line) + c.remaining_limit = c.query.limit
          /\ passed + Len(ahead) = Len(all)
          /\ \A i \in 1 .. Len(line) : line[i] = all[c.query.offset + i]
          /\ \A i \in 1 .. Len(ahead) : ahead[i] = all[passed + i]
      BY <2>1, <2>2, <2>4 DEF InStep
    <2>6. PICK now : now = d.query.offset - d.remaining_skip + Len(longer)
      OBVIOUS
    <2>7. now = passed + 1 /\ passed \in Nat
      <3>1. d.remaining_skip = 0 /\ d.query.offset = c.query.offset
        BY <1>2, <1>11
      <3>2. PICK offset \in Nat : offset = c.query.offset
        BY <1>11
      <3>3. now = offset - 0 + Len(longer) /\ passed = offset + Len(line)
        BY <2>3, <2>6, <3>1, <3>2
      <3> QED BY <1>4, <3>3
    <2>8. now + Len(rest) = Len(all)
      <3>1. Len(all) = passed + Len(ahead)
        BY <2>5
      <3> QED BY <1>5, <1>6, <2>7, <3>1
    <2>9. ASSUME NEW i \in 1 .. Len(rest) PROVE rest[i] = all[now + i]
      <3>1. 1 + i \in 1 .. Len(ahead) /\ passed + (1 + i) = now + i
        BY <1>5, <1>6, <2>7
      <3>2. ahead[1 + i] = all[passed + (1 + i)]
        BY <2>5, <3>1
      <3> QED BY <1>6, <3>1, <3>2
    <2>10. \A i \in 1 .. Len(longer) : longer[i] = all[d.query.offset + i]
      <3>1. r = all[passed + 1]
        BY <1>3, <1>5, <2>5
      <3>2. passed + 1 = d.query.offset + (Len(line) + 1)
        BY <1>4, <1>11, <2>3
      <3> QED BY <1>4, <1>9, <1>11, <2>5, <3>1, <3>2
    <2>11. d.query.limit > 0 => Len(longer) + d.remaining_limit = d.query.limit
      BY <1>2, <1>4, <1>11, <2>5
    <2>12. ~(d.remaining_skip > 0)
      BY <1>2
    <2> QED BY <1>11, <2>1, <2>6, <2>8, <2>9, <2>10, <2>11, <2>12 DEF InStep
  <1>15. ASSUME s = "none", Everything(d), NEW f \in Steady(version, d), f <= d.after
         PROVE  \E i \in 1 .. Len(longer) : longer[i] = f
    <2>1. Everything(c) /\ f \in Steady(version, c)
      BY <1>11, <1>15 DEF Everything, Steady
    <2>2. f \in Nat /\ r \in Nat /\ c.after \in Nat /\ d.after = r
      BY <1>1, <1>3, <1>6, <2>1 DEF Steady, AllFids, GdalCursor, GdalTypes, Everything
    <2>3. CASE f <= c.after
      <3>1. PICK i \in 1 .. Len(line) : line[i] = f
        BY <1>1, <1>15, <2>1, <2>3 DEF GdalReads
      <3> QED BY <1>4, <3>1
    <2>4. CASE f > c.after
      <3>1. version \in c.opened .. version
        BY <1>1, RowsAssumption DEF GdalCursor
      <3>2. f \in MatchingFids(version, c.query)
        BY <2>1, <3>1 DEF Steady
      <3>3. PICK i \in 1 .. Len(ahead) : ahead[i] = f
        BY <1>1, <1>2, <2>1, <2>4, <3>2, AheadIs DEF Everything
      <3>4. f = r
        <4>1. i = 1 \/ 1 < i
          BY <1>5
        <4>2. f <= r
          BY <1>15, <2>2
        <4>3. 1 < i => r < f
          BY <1>5, <3>3
        <4> QED BY <1>3, <2>2, <3>3, <4>1, <4>2, <4>3
      <3> QED BY <1>4, <3>4
    <2> QED BY <2>2, <2>3, <2>4
  <1>16. GdalReads(version, d, longer, s)
    BY <1>2, <1>10, <1>12, <1>13, <1>14, <1>15 DEF GdalReads
  <1> QED BY <1>2, <1>4, <1>6, <1>8, <1>16 DEF GdalLine

AtLimit(c) == c.query.limit > 0 /\ c.remaining_limit = 0 /\ c.remaining_skip = 0

\* No row is left, or the limit is used up.
LEMMA EndReads ==
  ASSUME version \in DOMAIN Versions, NEW c, NEW line, GdalLine(c, line, "none"),
         Len(AheadAt(version, c)) = 0 \/ AtLimit(c)
  PROVE  /\ c.opened = version => line = Result(version, c.query)
         /\ Everything(c) =>
              \A f \in Steady(version, c) : \E i \in 1 .. Len(line) : line[i] = f
  <1>1. /\ GdalCursor(c) /\ line \in Seq(AllFids) /\ GdalReads(version, c, line, "none")
    BY DEF GdalLine
  <1>5. /\ c.query.offset \in Nat /\ c.query.limit \in Nat /\ c.remaining_skip \in Nat
        /\ c.remaining_limit \in Nat /\ c.after \in Nat
    BY <1>1 DEF GdalCursor, GdalTypes
  <1>6. Len(line) \in Nat
    BY <1>1, LenProperties
  <1>2. Len(AheadAt(version, c)) \in Nat
    BY <1>1, AheadIs
  <1>3. ASSUME c.opened = version PROVE line = Result(version, c.query)
    <2>1. PICK all, ahead : all = Matching(version, c.query) /\ ahead = AheadAt(version, c)
      OBVIOUS
    <2>2. InStep(c, line, ahead)
      BY <1>1, <1>3, <2>1 DEF GdalReads
    <2>3. /\ c.remaining_skip > 0 => line = <<>>
          /\ c.query.limit > 0 => Len(line) + c.remaining_limit = c.query.limit
          /\ c.query.offset - c.remaining_skip + Len(line) + Len(ahead) = Len(all)
          /\ \A i \in 1 .. Len(line) : line[i] = all[c.query.offset + i]
      BY <1>3, <2>1, <2>2 DEF InStep
    <2>4. line = <<>> => Len(line) = 0
      OBVIOUS
    <2>5. PICK offset, limit, skip, left, size, more, total :
             /\ offset = c.query.offset /\ limit = c.query.limit
             /\ skip = c.remaining_skip /\ left = c.remaining_limit
             /\ size = Len(line) /\ more = Len(ahead) /\ total = Len(all)
      OBVIOUS
    <2>6. /\ offset \in Nat /\ limit \in Nat /\ skip \in Nat /\ left \in Nat
          /\ size \in Nat /\ more \in Nat
      BY <1>2, <1>5, <1>6, <2>1, <2>5
    <2>7. /\ skip > 0 => size = 0
          /\ limit > 0 => size + left = limit
          /\ offset - skip + size + more = total
          /\ more = 0 \/ (limit > 0 /\ left = 0 /\ skip = 0)
      BY <2>1, <2>3, <2>4, <2>5 DEF AtLimit
    <2>8. /\ size > 0 => offset + size <= total
          /\ limit > 0 => size <= limit
          /\ (limit > 0 /\ size = limit) \/ offset + size >= total
      BY <2>6, <2>7
    <2> QED BY <1>1, <1>3, <1>5, <2>1, <2>3, <2>5, <2>8, IsResult
  <1>4. ASSUME Everything(c), NEW f \in Steady(version, c)
        PROVE  \E i \in 1 .. Len(line) : line[i] = f
    <2>1. version \in c.opened .. version
      BY <1>1, RowsAssumption DEF GdalCursor
    <2>2. f \in MatchingFids(version, c.query) /\ f \in Nat
      BY <1>4, <2>1 DEF Steady, AllFids
    <2>3. Len(AheadAt(version, c)) = 0
      <3>1. ~(c.query.limit > 0)
        BY <1>4 DEF Everything
      <3> QED BY <3>1 DEF AtLimit
    <2>4. ~(f > c.after)
      <3> SUFFICES ASSUME f > c.after PROVE FALSE
        OBVIOUS
      <3>1. \E i \in 1 .. Len(AheadAt(version, c)) : AheadAt(version, c)[i] = f
        BY <1>1, <1>4, <2>2, AheadIs DEF Everything
      <3> QED BY <2>3, <3>1
    <2>5. f <= c.after
      BY <1>5, <2>2, <2>4
    <2> QED BY <1>1, <1>4, <2>5 DEF GdalReads
  <1> QED BY <1>3, <1>4

\* What has been given after a call returned r, and what the cursor has said.
Given(got, r) == IF r \in {NoRow, Error} THEN got ELSE Append(got, r)
Fails(s, r) == IF s = "none" /\ r = Error THEN "error" ELSE s
Says(s, r) == IF s = "none" /\ r = NoRow THEN "end" ELSE Fails(s, r)

LEMMA KeptGiven ==
  ASSUME NEW c, NEW d, Kept(c, d), NEW v, NEW got
  PROVE  AllGiven(v, c, got) <=> AllGiven(v, d, got)
  BY DEF Kept, AllGiven, Everything, Steady

LEMMA KeptTwice ==
  ASSUME NEW c, NEW d, NEW e, Kept(c, d), Kept(d, e)
  PROVE  Kept(c, e)
  BY DEF Kept

LEMMA ReadingKeeps ==
  ASSUME version \in DOMAIN Versions, NEW c, NEW line, NEW s, GdalLine(c, line, s),
         NEW o, c.remaining_skip # 0 => o.returned \in {NoRow, Error},
         \/ NoneLeft(c, o) /\ (Len(AheadAt(version, c)) = 0 \/ AtLimit(c))
         \/ Failed(c, o)
         \/ Gone(c, o)
         \/ /\ Next1(c, o) /\ o.cursor.remaining_skip = c.remaining_skip
            /\ c.query.limit > 0 => o.cursor.remaining_limit = c.remaining_limit - 1
  PROVE  /\ Kept(c, o.cursor) /\ o.returned \in {NoRow, Error} \cup AllFids
         /\ GdalLine(o.cursor, Given(line, o.returned), Fails(s, o.returned))
         /\ s = "none" /\ o.returned = NoRow => AllGiven(version, c, line)
  <1>0. NoRow # Error /\ NoRow \notin AllFids /\ Error \notin AllFids
    BY DEF NoRow, Error, AllFids
  <1>1. ASSUME NoneLeft(c, o), Len(AheadAt(version, c)) = 0 \/ AtLimit(c)
        PROVE  /\ Kept(c, o.cursor) /\ o.returned \in {NoRow, Error} \cup AllFids
               /\ GdalLine(o.cursor, Given(line, o.returned), Fails(s, o.returned))
               /\ s = "none" /\ o.returned = NoRow => AllGiven(version, c, line)
    <2>1. o.cursor = c /\ o.returned = NoRow
      BY <1>1 DEF NoneLeft
    <2>2. Given(line, o.returned) = line /\ Fails(s, o.returned) = s
      BY <1>0, <2>1 DEF Given, Fails
    <2>3. Kept(c, o.cursor)
      BY <2>1 DEF Kept, GdalLine, GdalCursor
    <2>4. s = "none" => AllGiven(version, c, line)
      BY <1>1, EndReads DEF AllGiven
    <2> QED BY <2>1, <2>2, <2>3, <2>4
  <1>2. ASSUME Failed(c, o)
        PROVE  /\ Kept(c, o.cursor) /\ o.returned \in {NoRow, Error} \cup AllFids
               /\ GdalLine(o.cursor, Given(line, o.returned), Fails(s, o.returned))
               /\ s = "none" /\ o.returned = NoRow => AllGiven(version, c, line)
    <2>1. PICK n \in {0, 1} : Further(c, o.cursor, n)
      BY <1>2 DEF Failed
    <2>2. o.returned = Error /\ o.cursor.remaining_limit <= c.remaining_limit
      BY <1>2 DEF Failed
    <2>3. Fails(s, o.returned) # "none" /\ Given(line, o.returned) = line
      BY <2>2 DEF Fails, Given
    <2>4. GdalLine(o.cursor, line, Fails(s, o.returned))
      BY <2>1, <2>2, <2>3, ErrorReads
    <2>5. Kept(c, o.cursor)
      BY <2>1 DEF Further
    <2> QED BY <1>0, <2>2, <2>3, <2>4, <2>5
  <1>3. ASSUME Gone(c, o)
        PROVE  /\ Kept(c, o.cursor) /\ o.returned \in {NoRow, Error} \cup AllFids
               /\ GdalLine(o.cursor, Given(line, o.returned), Fails(s, o.returned))
               /\ s = "none" /\ o.returned = NoRow => AllGiven(version, c, line)
    <2>1. o.returned = NoRow /\ Kept(c, o.cursor)
      BY <1>3 DEF Gone, Further
    <2>2. c.opened # version /\ c.ordered_fids # <<>> /\ GdalLine(o.cursor, line, s)
      BY <1>3, GoneReads
    <2>3. Given(line, o.returned) = line /\ Fails(s, o.returned) = s
      BY <1>0, <2>1 DEF Given, Fails
    <2>4. AllGiven(version, c, line)
      BY <2>2 DEF AllGiven, Everything
    <2> QED BY <2>1, <2>2, <2>3, <2>4
  <1>4. ASSUME Next1(c, o), o.cursor.remaining_skip = c.remaining_skip,
               c.query.limit > 0 => o.cursor.remaining_limit = c.remaining_limit - 1
        PROVE  /\ Kept(c, o.cursor) /\ o.returned \in {NoRow, Error} \cup AllFids
               /\ GdalLine(o.cursor, Given(line, o.returned), Fails(s, o.returned))
               /\ s = "none" /\ o.returned = NoRow => AllGiven(version, c, line)
    <2>1. o.returned \in AllFids /\ Kept(c, o.cursor)
      BY <1>4 DEF Next1, Further
    <2>2. o.returned # NoRow /\ o.returned # Error
      BY <1>0, <2>1
    <2>3. Given(line, o.returned) = Append(line, o.returned) /\ Fails(s, o.returned) = s
      BY <2>2 DEF Given, Fails
    <2>4. c.remaining_skip = 0
      BY <2>2
    <2>5. GdalLine(o.cursor, Append(line, o.returned), s)
      BY <1>4, <2>4, RowReads
    <2> QED BY <2>1, <2>2, <2>3, <2>5
  <1> QED BY <1>1, <1>2, <1>3, <1>4

LEMMA NextGdalKeeps ==
  ASSUME version \in DOMAIN Versions, NEW c, NEW line, NEW s, GdalLine(c, line, s),
         NEW o \in next_gdal(c)
  PROVE  /\ Kept(c, o.cursor) /\ o.returned \in {NoRow, Error} \cup AllFids
         /\ GdalLine(o.cursor, Given(line, o.returned), Fails(s, o.returned))
         /\ s = "none" /\ o.returned = NoRow => AllGiven(version, c, line)
  <1>0. GdalCursor(c)
    BY DEF GdalLine
  <1>1. CASE Stopped(c.query)
    <2>1. o = Outcome(c, Error)
      BY <1>1 DEF next_gdal
    <2>2. 0 \in 0 .. Len(AheadAt(version, c)) /\ Passed(c, 0) = c
      BY <1>0, AheadIs DEF Passed
    <2>3. Further(c, c, 0)
      BY <1>0, <2>2, PassedIs
    <2>4. c.remaining_limit <= c.remaining_limit
      BY <1>0 DEF GdalCursor, GdalTypes
    <2>5. o.returned = Error /\ o.cursor = c
      BY <2>1 DEF Outcome
    <2>6. Failed(c, o)
      BY <2>3, <2>4, <2>5 DEF Failed
    <2>7. c.remaining_skip # 0 => o.returned \in {NoRow, Error}
      BY <2>5
    <2> QED BY <2>6, <2>7, ReadingKeeps
  <1>2. CASE ~Stopped(c.query)
    <2>1. PICK n \in Skips(c) :
             o \in IF n = c.remaining_skip THEN next_mapped(Skipped(c, n))
                   ELSE {p \in next_gdal_source(Skipped(c, n)) : p.returned \in {NoRow, Error}}
      BY <1>2 DEF next_gdal
    <2>2. PICK b : b = Skipped(c, n)
      OBVIOUS
    <2>3. /\ GdalLine(b, line, s) /\ GdalCursor(b) /\ Kept(c, b)
          /\ b.remaining_skip = c.remaining_skip - n
      BY <1>0, <2>2, SkipReads, SkippedIs DEF Further
    <2>4. /\ Kept(b, o.cursor) /\ o.returned \in {NoRow, Error} \cup AllFids
          /\ GdalLine(o.cursor, Given(line, o.returned), Fails(s, o.returned))
          /\ s = "none" /\ o.returned = NoRow => AllGiven(version, b, line)
      <3>1. CASE n = c.remaining_skip
        <4>1. o \in next_mapped(b) /\ b.remaining_skip = 0
          <5>1. c.remaining_skip \in Nat
            BY <1>0 DEF GdalCursor, GdalTypes
          <5> QED BY <2>1, <2>2, <2>3, <3>1, <5>1
        <4>2. /\ \/ NoneLeft(b, o) /\ (Len(AheadAt(version, b)) = 0 \/ AtLimit(b))
                 \/ Failed(b, o)
                 \/ Gone(b, o)
                 \/ /\ Next1(b, o)
                    /\ b.query.limit > 0 => o.cursor.remaining_limit = b.remaining_limit - 1
              /\ o.cursor.remaining_skip = b.remaining_skip
          BY <2>3, <4>1, MappedCases DEF AtLimit
        <4> QED BY <2>3, <4>1, <4>2, ReadingKeeps
      <3>2. CASE n # c.remaining_skip
        <4>1. o \in next_gdal_source(b) /\ o.returned \in {NoRow, Error}
          BY <2>1, <2>2, <3>2
        <4>2. ~Next1(b, o)
          BY <4>1 DEF Next1, NoRow, Error, AllFids
        <4>3. \/ NoneLeft(b, o) /\ Len(AheadAt(version, b)) = 0
              \/ Failed(b, o)
              \/ Gone(b, o)
          BY <2>3, <4>1, <4>2, SourceCases
        <4> QED BY <2>3, <4>1, <4>3, ReadingKeeps
      <3> QED BY <3>1, <3>2
    <2>5. Kept(c, o.cursor)
      BY <2>3, <2>4, KeptTwice
    <2>6. AllGiven(version, b, line) => AllGiven(version, c, line)
      BY <2>3, KeptGiven
    <2> QED BY <2>4, <2>5, <2>6
  <1> QED BY <1>1, <1>2

-----------------------------------------------------------------------------
(* The steps of a cursor keep it in its result, by either backend.         *)

\* The result is in order.
LEMMA ResultAscends ==
  ASSUME NEW v \in DOMAIN Versions, NEW query,
         query.offset \in Nat, query.limit \in Nat
  PROVE  /\ \A i, j \in 1 .. Len(Result(v, query)) :
               i < j => Result(v, query)[i] < Result(v, query)[j]
         /\ \A i \in 1 .. Len(Result(v, query)) : Result(v, query)[i] \in MatchingFids(v, query)
         /\ query.offset = 0 /\ query.limit = 0 => Result(v, query) = Matching(v, query)
  <1>1. PICK all, result, offset : /\ all = Matching(v, query) /\ result = Result(v, query)
                                   /\ offset = query.offset
    OBVIOUS
  <1>2. /\ all \in Seq(AllFids) /\ Len(all) \in Nat
        /\ \A i \in 1 .. Len(all) : all[i] \in MatchingFids(v, query)
        /\ \A i, j \in 1 .. Len(all) : i < j => all[i] < all[j]
    BY <1>1, MatchingIs, InOrderIs DEF Matching
  <1>3. /\ result \in Seq(AllFids) /\ Len(result) \in Nat /\ offset \in Nat
        /\ \A i \in 1 .. Len(result) : result[i] = all[offset + i] /\ offset + i \in 1 .. Len(all)
    BY <1>1, ResultIs
  <1>4. ASSUME NEW i \in 1 .. Len(result), NEW j \in 1 .. Len(result), i < j
        PROVE  result[i] < result[j]
    <2>1. offset + i < offset + j
      BY <1>3, <1>4
    <2> QED BY <1>2, <1>3, <2>1
  <1>5. \A i \in 1 .. Len(result) : result[i] \in MatchingFids(v, query)
    BY <1>2, <1>3
  <1>6. ASSUME query.offset = 0, query.limit = 0 PROVE result = all
    <2>1. \A i \in 1 .. Len(all) : all[i] = all[query.offset + i]
      BY <1>1, <1>2, <1>3, <1>6
    <2>2. query.offset + Len(all) = Len(all) /\ ~(query.limit > 0)
      BY <1>2, <1>6
    <2> QED BY <1>1, <1>2, <2>1, <2>2, IsResult
  <1> QED BY <1>1, <1>4, <1>5, <1>6

\* What has been delivered with the row that was fetched for the next call.
LEMMA LineIs ==
  ASSUME NEW v, NEW c, NEW got, NEW s, CursorOK(v, c, got, s)
  PROVE  /\ Line(c, got) \in Seq(AllFids) /\ got \in Seq(AllFids)
         /\ Len(got) \in Nat /\ Len(got) <= Len(Line(c, got))
         /\ \A i \in 1 .. Len(got) : Line(c, got)[i] = got[i] /\ got[i] \in AllFids
         /\ c.prefetched # NoRow =>
               /\ c.prefetched \in AllFids
               /\ Line(c, got) = Append(got, c.prefetched)
  <1>1. got \in Seq(AllFids) /\ c.prefetched \in 0 .. MaxFid
    BY DEF CursorOK
  <1>2. Len(got) \in Nat /\ \A i \in 1 .. Len(got) : got[i] \in AllFids
    BY <1>1, LenProperties, ElementOfSeq
  <1>3. CASE c.prefetched = NoRow
    BY <1>1, <1>2, <1>3 DEF Line
  <1>4. CASE c.prefetched # NoRow
    <2>1. c.prefetched \in AllFids
      BY <1>1, <1>4 DEF NoRow, AllFids
    <2>2. Line(c, got) = Append(got, c.prefetched)
      BY <1>4 DEF Line
    <2> QED BY <1>1, <1>2, <2>1, <2>2, AppendProperties
  <1> QED BY <1>3, <1>4

\* The fields of a cursor that reading by GDAL is about.
SameReads(c, d) ==
    /\ DOMAIN d = CursorFields /\ d.backend = c.backend /\ d.query = c.query
    /\ d.opened = c.opened /\ d.after = c.after
    /\ d.ordered_fids = c.ordered_fids /\ d.ordered_index = c.ordered_index
    /\ d.remaining_skip = c.remaining_skip /\ d.remaining_limit = c.remaining_limit

LEMMA SameGdalLine ==
  ASSUME NEW c, NEW d, SameReads(c, d), NEW line, NEW s, GdalLine(c, line, s),
         NEW t, t = "none" => s = "none"
  PROVE  GdalLine(d, line, t)
  <1>1. GdalCursor(d) /\ GdalTypes(d)
    BY DEF SameReads, GdalLine, GdalCursor, GdalTypes
  <1>2. /\ AheadAt(version, d) = AheadAt(version, c)
        /\ \A f : Behind(d, f) <=> Behind(c, f)
        /\ Everything(d) <=> Everything(c)
        /\ Steady(version, d) = Steady(version, c)
        /\ \A l, a : InStep(d, l, a) <=> InStep(c, l, a)
    BY DEF SameReads, AheadAt, Behind, Everything, Steady, InStep
  <1>3. GdalReads(version, d, line, t)
    BY <1>1, <1>2 DEF GdalReads, GdalLine, SameReads
  <1> QED BY <1>1, <1>3 DEF GdalLine

\* What a cursor of GDAL is besides its line.
LEMMA GdalCursorOK ==
  ASSUME version \in DOMAIN Versions, NEW c, NEW got, NEW s
  PROVE  c.backend = "GdalOpenFileGDB" =>
           (CursorOK(version, c, got, s) <=>
              /\ GdalLine(c, Line(c, got), s)
              /\ c.closed \in BOOLEAN /\ c.prefetched \in 0 .. MaxFid
              /\ got \in Seq(AllFids) /\ s \in {"none", "error", "end"}
              /\ s = "none" => ~c.closed
              /\ s = "end" => c.closed /\ AllGiven(version, c, got))
  <1>1. ASSUME CursorOK(version, c, got, s), c.backend = "GdalOpenFileGDB"
        PROVE  GdalLine(c, Line(c, got), s)
    <2>1. Line(c, got) \in Seq(AllFids)
      BY <1>1, LineIs
    <2>2. GdalReads(version, c, Line(c, got), s)
      BY <1>1 DEF CursorOK
    <2>3. GdalCursor(c)
      BY <1>1, <2>2 DEF CursorOK, GdalCursor, GdalReads
    <2> QED BY <1>1, <2>1, <2>2, <2>3 DEF GdalLine, CursorOK
  <1>2. c.backend = "GdalOpenFileGDB" => c.backend # "FastGdb"
    OBVIOUS
  <1> QED BY <1>1, <1>2 DEF CursorOK, GdalLine, GdalCursor

\* The caller has what FeatureNext returned, and the cursor is still in its
\* result.
StillOK(c, got, s, o) ==
    /\ o.returned \in {NoRow, Error} \cup AllFids
    /\ o.cursor.opened = c.opened /\ o.cursor.query = c.query
    /\ o.cursor.backend = c.backend /\ o.cursor.ordered_fids = c.ordered_fids
    /\ CursorOK(version, o.cursor, Given(got, o.returned), Says(s, o.returned))

LEMMA SaysIs ==
  ASSUME NEW s \in {"none", "error", "end"}, NEW r
  PROVE  /\ Says(s, r) \in {"none", "error", "end"}
         /\ s # "none" => Says(s, r) = s
         /\ r = Error => Says(s, r) # "none" /\ (Says(s, r) = "end" => s = "end")
         /\ r \notin {NoRow, Error} => Says(s, r) = s
         /\ s = "none" /\ r = NoRow => Says(s, r) = "end"
         /\ Says(s, r) = "none" => s = "none"
  BY DEF Says, Fails, NoRow, Error

\* A cursor whose line is left as it is.
LEMMA KeepsLine ==
  ASSUME version \in DOMAIN Versions, NEW c, NEW got, NEW s, CursorOK(version, c, got, s),
         NEW d, SameReads(c, d), d.left = c.left, d.prefetched = c.prefetched,
         d.closed \in BOOLEAN, NEW t \in {"none", "error", "end"},
         t = "none" => s = "none" /\ ~d.closed,
         t = "end" => d.closed /\ AllGiven(version, c, got)
  PROVE  CursorOK(version, d, got, t)
  <1>1. Line(d, got) = Line(c, got)
    BY DEF Line
  <1>2. AllGiven(version, d, got) <=> AllGiven(version, c, got)
    BY DEF SameReads, AllGiven, Everything, Steady
  <1>3. CASE c.backend = "GdalOpenFileGDB"
    <2>1. d.backend = "GdalOpenFileGDB"
      BY <1>3 DEF SameReads
    <2>2. GdalLine(c, Line(c, got), s)
      BY <1>3, GdalCursorOK
    <2>3. GdalLine(d, Line(d, got), t)
      BY <1>1, <2>2, SameGdalLine
    <2>4. c.prefetched \in 0 .. MaxFid /\ got \in Seq(AllFids)
      BY DEF CursorOK
    <2> QED BY <1>2, <2>1, <2>3, <2>4, GdalCursorOK
  <1>4. CASE c.backend = "FastGdb"
    <2>1. FastReads(c, Line(c, got)) /\ c.ordered_fids = <<>>
      BY <1>4 DEF CursorOK
    <2>2. FastReads(d, Line(d, got)) /\ d.ordered_fids = <<>> /\ d.backend = "FastGdb"
      BY <1>1, <1>4, <2>1 DEF FastReads, SameReads
    <2>3. "FastGdb" # "GdalOpenFileGDB"
      OBVIOUS
    <2> QED BY <1>1, <1>2, <2>2, <2>3 DEF CursorOK, SameReads
  <1> QED BY <1>3, <1>4 DEF CursorOK

\* The row that was fetched before is delivered.
LEMMA FetchedKeeps ==
  ASSUME version \in DOMAIN Versions, NEW c, NEW got, NEW s, CursorOK(version, c, got, s),
         ~c.closed, c.prefetched # NoRow,
         NEW d, d = [c EXCEPT !.prefetched = NoRow]
  PROVE  CursorOK(version, d, Append(got, c.prefetched), s)
  <1>1. PICK longer : longer = Append(got, c.prefetched)
    OBVIOUS
  <1>2. /\ SameReads(c, d) /\ d.left = c.left /\ d.prefetched = NoRow /\ d.closed = c.closed
        /\ DOMAIN c = CursorFields
    BY DEF CursorOK, SameReads, CursorFields
  <1>3. Line(c, got) = longer /\ longer \in Seq(AllFids)
    BY <1>1, LineIs
  <1>4. Line(d, longer) = longer
    BY <1>2 DEF Line
  <1>5. s # "end" /\ NoRow \in 0 .. MaxFid
    BY RowsAssumption DEF CursorOK, NoRow
  <1>6. CASE c.backend = "GdalOpenFileGDB"
    <2>1. /\ GdalLine(c, longer, s) /\ c.closed \in BOOLEAN /\ s \in {"none", "error", "end"}
          /\ d.backend = "GdalOpenFileGDB"
      BY <1>2, <1>3, <1>6, GdalCursorOK DEF SameReads
    <2>2. GdalLine(d, Line(d, longer), s)
      BY <1>2, <1>4, <2>1, SameGdalLine
    <2>3. CursorOK(version, d, longer, s)
      BY <1>2, <1>3, <1>5, <2>1, <2>2, GdalCursorOK
    <2> QED BY <1>1, <2>3
  <1>7. CASE c.backend = "FastGdb"
    <2>1. FastReads(c, longer) /\ Ascending(longer) /\ c.ordered_fids = <<>>
      BY <1>3, <1>7 DEF CursorOK
    <2>2. FastReads(d, Line(d, longer)) /\ Ascending(Line(d, longer))
          /\ d.ordered_fids = <<>> /\ d.backend = "FastGdb"
      BY <1>2, <1>4, <1>7, <2>1 DEF FastReads, SameReads
    <2>3. CursorOK(version, d, longer, s)
      BY <1>2, <1>3, <1>5, <2>2 DEF CursorOK, SameReads
    <2> QED BY <1>1, <2>3
  <1> QED BY <1>6, <1>7 DEF CursorOK

\* The cursor of the query engine gives its next row.
LEMMA FastRowKeeps ==
  ASSUME version \in DOMAIN Versions, NEW c, NEW got, NEW s, CursorOK(version, c, got, s),
         ~c.closed, c.prefetched = NoRow, c.backend = "FastGdb", c.left # <<>>,
         NEW d, d = [c EXCEPT !.left = Tail(@)]
  PROVE  Head(c.left) \in AllFids /\ CursorOK(version, d, Append(got, Head(c.left)), s)
  <1>1. PICK left, tail, result, n, row, longer :
           /\ left = c.left /\ tail = d.left /\ result = Result(c.opened, c.query)
           /\ n = Len(got) /\ row = Head(left) /\ longer = Append(got, row)
    OBVIOUS
  <1>2. /\ SameReads(c, d) /\ d.prefetched = NoRow /\ d.closed = c.closed /\ tail = Tail(left)
        /\ DOMAIN c = CursorFields
    BY <1>1 DEF CursorOK, SameReads, CursorFields
  <1>3. Line(c, got) = got /\ Line(d, longer) = longer /\ s # "end"
    BY <1>2 DEF Line, CursorOK
  <1>4. /\ left \in Seq(AllFids) /\ n + Len(left) = Len(result) /\ c.ordered_fids = <<>>
        /\ \A i \in 1 .. n : got[i] = result[i]
        /\ \A i \in 1 .. Len(left) : left[i] = result[n + i]
    BY <1>1, <1>3 DEF CursorOK, FastReads
  <1>5. /\ row \in AllFids /\ tail \in Seq(AllFids) /\ Len(tail) = Len(left) - 1
        /\ \A i \in 1 .. Len(tail) : tail[i] = left[i + 1]
        /\ row = left[1]
    BY <1>1, <1>2, <1>4, HeadTailProperties
  <1>6. got \in Seq(AllFids) /\ n \in Nat
    BY <1>1, LineIs
  <1>7. /\ longer \in Seq(AllFids) /\ Len(longer) = n + 1
        /\ \A i \in 1 .. n : longer[i] = got[i]
        /\ longer[n + 1] = row /\ DOMAIN longer = 1 .. Len(longer)
    BY <1>1, <1>5, <1>6, AppendProperties, LenProperties
  <1>8. Len(left) \in Nat /\ Len(tail) \in Nat /\ 1 \in 1 .. Len(left)
    <2>1. Len(left) \in Nat /\ Len(tail) \in Nat
      BY <1>4, <1>5, LenProperties
    <2> QED BY <1>5, <2>1
  <1>9. ASSUME NEW i \in 1 .. Len(longer) PROVE longer[i] = result[i]
    <2>1. i \in 1 .. n \/ i = n + 1
      BY <1>6, <1>7
    <2>2. row = result[n + 1]
      BY <1>4, <1>5, <1>8
    <2> QED BY <1>4, <1>7, <2>1, <2>2
  <1>10. ASSUME NEW i \in 1 .. Len(tail) PROVE tail[i] = result[n + 1 + i]
    <2>1. i + 1 \in 1 .. Len(left) /\ n + (i + 1) = n + 1 + i
      BY <1>5, <1>6, <1>8
    <2> QED BY <1>4, <1>5, <2>1
  <1>11. Len(longer) + Len(tail) = Len(result)
    BY <1>4, <1>5, <1>6, <1>7, <1>8
  <1>12. FastReads(d, longer)
    <2>1. d.left = tail /\ Result(d.opened, d.query) = result
      BY <1>1, <1>2 DEF SameReads
    <2>2. \A i \in 1 .. Len(tail) : tail[i] = result[Len(longer) + i]
      BY <1>7, <1>10
    <2> QED BY <1>5, <1>9, <1>11, <2>1, <2>2 DEF FastReads
  <1>13. Ascending(longer)
    <2>1. c.opened \in DOMAIN Versions /\ c.query.offset \in Nat /\ c.query.limit \in Nat
      BY OpenedIs DEF CursorOK
    <2>2. \A i, j \in 1 .. Len(result) : i < j => result[i] < result[j]
      BY <1>1, <2>1, ResultAscends
    <2>3. \A i \in 1 .. Len(longer) : i \in 1 .. Len(result)
      BY <1>6, <1>7, <1>8, <1>11
    <2> QED BY <1>7, <1>9, <2>2, <2>3 DEF Ascending
  <1>14. CursorOK(version, d, longer, s)
    <2>1. d.backend = "FastGdb" /\ d.backend # "GdalOpenFileGDB" /\ d.ordered_fids = <<>>
      BY <1>2, <1>4 DEF SameReads
    <2>2. d.prefetched \in 0 .. MaxFid
      BY <1>2, RowsAssumption DEF NoRow
    <2> QED BY <1>2, <1>3, <1>7, <1>12, <1>13, <2>1, <2>2 DEF CursorOK, SameReads
  <1> QED BY <1>1, <1>5, <1>14

\* At the end of the result of the query engine.
LEMMA FastEnd ==
  ASSUME version \in DOMAIN Versions, NEW c, NEW got, NEW s, CursorOK(version, c, got, s),
         c.prefetched = NoRow, c.backend = "FastGdb", c.left = <<>>
  PROVE  AllGiven(version, c, got)
  <1>1. PICK result : result = Result(c.opened, c.query)
    OBVIOUS
  <1>2. c.opened \in DOMAIN Versions /\ c.query.offset \in Nat /\ c.query.limit \in Nat
        /\ c.opened \in 1 .. version
    BY OpenedIs DEF CursorOK
  <1>3. Line(c, got) = got /\ got \in Seq(AllFids) /\ Len(got) \in Nat
    BY LineIs DEF Line
  <1>4. Len(got) + Len(c.left) = Len(result) /\ \A i \in 1 .. Len(got) : got[i] = result[i]
    BY <1>1, <1>3 DEF CursorOK, FastReads
  <1>5. Len(got) = Len(result)
    <2>1. Len(c.left) = 0
      OBVIOUS
    <2> QED BY <1>3, <1>4, <2>1
  <1>6. result \in Seq(AllFids)
    BY <1>1, <1>2, ResultIs
  <1>7. got = result
    BY <1>3, <1>4, <1>5, <1>6, SeqEqual
  <1>8. ASSUME Everything(c), NEW f \in Steady(version, c)
        PROVE  \E i \in 1 .. Len(got) : got[i] = f
    <2>1. result = InOrder(MatchingFids(c.opened, c.query))
      BY <1>1, <1>2, <1>8, ResultAscends DEF Everything, Matching
    <2>2. c.opened \in c.opened .. version
      BY <1>2
    <2>3. f \in MatchingFids(c.opened, c.query)
      BY <2>2 DEF Steady
    <2>4. MatchingFids(c.opened, c.query) \in SUBSET AllFids
      BY <1>2, MatchingIs
    <2> QED BY <1>7, <2>1, <2>3, <2>4, InOrderIs
  <1> QED BY <1>1, <1>7, <1>8 DEF AllGiven

LEMMA FeatureNextKeeps ==
  ASSUME version \in DOMAIN Versions, NEW c, NEW got, NEW s, CursorOK(version, c, got, s),
         NEW o \in feature_next(c)
  PROVE  StillOK(c, got, s, o)
  <1>0. /\ DOMAIN c = CursorFields /\ c.closed \in BOOLEAN /\ s \in {"none", "error", "end"}
        /\ c.backend \in {"FastGdb", "GdalOpenFileGDB"}
        /\ s = "none" => ~c.closed
        /\ s = "end" => c.closed /\ AllGiven(version, c, got)
        /\ NoRow # Error /\ NoRow \notin AllFids /\ Error \notin AllFids
    BY DEF CursorOK, NoRow, Error, AllFids
  <1>1. ASSUME NEW d, NEW r \in {NoRow, Error}, o = Outcome(d, r), SameReads(c, d),
               d.left = c.left, d.prefetched = c.prefetched, d.closed \in BOOLEAN,
               c.closed => d.closed,
               r = NoRow => d.closed,
               s = "none" /\ r = NoRow => AllGiven(version, c, got)
        PROVE  StillOK(c, got, s, o)
    <2>1. o.cursor = d /\ o.returned = r /\ Given(got, r) = got
      BY <1>1 DEF Outcome, Given
    <2>2. PICK t : t = Says(s, r)
      OBVIOUS
    <2>3. /\ t \in {"none", "error", "end"} /\ t # "none"
          /\ t = "end" => d.closed /\ AllGiven(version, c, got)
      <3>1. CASE s = "none"
        BY <1>0, <1>1, <2>2, <3>1, SaysIs
      <3>2. CASE s # "none"
        BY <1>0, <1>1, <2>2, <3>2, SaysIs
      <3> QED BY <3>1, <3>2
    <2>4. CursorOK(version, d, got, t)
      BY <1>1, <2>3, KeepsLine
    <2> QED BY <1>1, <2>1, <2>2, <2>4 DEF StillOK, SameReads
  <1>2. SameReads(c, c)
    BY <1>0 DEF SameReads
  <1>3. ASSUME NEW d, d = [c EXCEPT !.closed = TRUE]
        PROVE  SameReads(c, d) /\ d.left = c.left /\ d.prefetched = c.prefetched /\ d.closed
    BY <1>0, <1>3 DEF SameReads, CursorFields
  <1>4. CASE c.closed
    <2>1. o = Outcome(c, NoRow) /\ s # "none"
      BY <1>0, <1>4 DEF feature_next
    <2> QED BY <1>0, <1>1, <1>2, <1>4, <2>1
  <1>5. CASE ~c.closed /\ Stopped(c.query)
    <2>1. PICK d : d = [c EXCEPT !.closed = TRUE]
      OBVIOUS
    <2>2. o = Outcome(d, Error)
      BY <1>5, <2>1 DEF feature_next
    <2>3. SameReads(c, d) /\ d.left = c.left /\ d.prefetched = c.prefetched /\ d.closed
      BY <1>3, <2>1
    <2>4. d.closed \in BOOLEAN
      BY <1>0, <2>1 DEF CursorFields
    <2> QED BY <1>0, <1>1, <2>2, <2>3, <2>4
  <1>6. CASE ~c.closed /\ ~Stopped(c.query) /\ c.prefetched # NoRow
    <2>1. PICK d : d = [c EXCEPT !.prefetched = NoRow]
      OBVIOUS
    <2>2. o = Outcome(d, c.prefetched)
      BY <1>6, <2>1 DEF feature_next
    <2>3. o.cursor = d /\ o.returned = c.prefetched
      BY <2>2 DEF Outcome
    <2>4. c.prefetched \in AllFids /\ c.prefetched \notin {NoRow, Error}
      BY <1>0, <1>6, LineIs
    <2>5. Given(got, o.returned) = Append(got, c.prefetched) /\ Says(s, o.returned) = s
      BY <1>0, <2>3, <2>4, SaysIs DEF Given
    <2>6. CursorOK(version, d, Append(got, c.prefetched), s)
      BY <1>6, <2>1, FetchedKeeps
    <2>7. /\ d.opened = c.opened /\ d.query = c.query /\ d.backend = c.backend
          /\ d.ordered_fids = c.ordered_fids
      BY <1>0, <2>1 DEF CursorFields
    <2> QED BY <2>3, <2>4, <2>5, <2>6, <2>7 DEF StillOK
  <1>7. CASE /\ ~c.closed /\ ~Stopped(c.query) /\ c.prefetched = NoRow
             /\ c.backend = "GdalOpenFileGDB"
    <2>1. PICK p \in next_gdal(c) :
             o = IF p.returned = NoRow THEN Outcome([p.cursor EXCEPT !.closed = TRUE], NoRow)
                 ELSE p
      BY <1>7 DEF feature_next
    <2>2. Line(c, got) = got /\ got \in Seq(AllFids)
      BY <1>7, LineIs DEF Line
    <2>3. GdalLine(c, got, s)
      BY <1>7, <2>2, GdalCursorOK
    <2>4. PICK d, r : d = p.cursor /\ r = p.returned
      OBVIOUS
    <2>5. /\ Kept(c, d) /\ r \in {NoRow, Error} \cup AllFids
          /\ GdalLine(d, Given(got, r), Fails(s, r))
          /\ s = "none" /\ r = NoRow => AllGiven(version, c, got)
      BY <2>3, <2>4, NextGdalKeeps
    <2>6. s # "end"
      BY <1>0, <1>7
    <2>7. PICK more, e, t :
             /\ more = Given(got, r) /\ t = Says(s, r)
             /\ e = IF r = NoRow THEN [d EXCEPT !.closed = TRUE] ELSE d
      OBVIOUS
    <2>8. o.cursor = e /\ o.returned = r
      BY <2>1, <2>4, <2>7 DEF Outcome
    <2>9. /\ SameReads(d, e) /\ e.prefetched = NoRow /\ e.closed \in BOOLEAN
          /\ r = NoRow => e.closed
          /\ r # NoRow => ~e.closed
      <3>1. /\ DOMAIN d = CursorFields /\ d.prefetched = NoRow /\ d.closed = c.closed
            /\ d.closed \in BOOLEAN /\ ~d.closed
        BY <1>0, <1>7, <2>5 DEF Kept
      <3>2. CASE r = NoRow
        <4>1. e = [d EXCEPT !.closed = TRUE]
          BY <2>7, <3>2
        <4>2. SameReads(d, e) /\ e.prefetched = d.prefetched /\ e.closed
          BY <3>1, <4>1 DEF SameReads, CursorFields
        <4>3. e.closed = TRUE
          BY <3>1, <4>1 DEF CursorFields
        <4> QED BY <3>1, <3>2, <4>2, <4>3
      <3>3. CASE r # NoRow
        <4>1. e = d
          BY <2>7, <3>3
        <4> QED BY <3>1, <3>3, <4>1 DEF SameReads
      <3> QED BY <3>2, <3>3
    <2>10. /\ t \in {"none", "error", "end"}
           /\ t = "none" => Fails(s, r) = "none" /\ r # NoRow
           /\ t = "end" => s = "none" /\ r = NoRow
      BY <1>0, <2>6, <2>7, SaysIs DEF Says, Fails
    <2>11. GdalLine(e, more, t)
      BY <2>5, <2>7, <2>9, <2>10, SameGdalLine
    <2>12. more \in Seq(AllFids) /\ Line(e, more) = more
      BY <2>9, <2>11 DEF GdalLine, Line
    <2>13. ASSUME t = "end" PROVE AllGiven(version, e, more)
      <3>1. s = "none" /\ r = NoRow /\ more = got
        BY <2>7, <2>10, <2>13 DEF Given
      <3>2. AllGiven(version, d, got)
        BY <2>5, <3>1, KeptGiven
      <3>3. AllGiven(version, e, got) <=> AllGiven(version, d, got)
        BY <2>9 DEF SameReads, AllGiven, Everything, Steady
      <3> QED BY <3>1, <3>2, <3>3
    <2>14. /\ e.backend = "GdalOpenFileGDB" /\ e.opened = c.opened /\ e.query = c.query
           /\ e.ordered_fids = c.ordered_fids
      BY <1>7, <2>5, <2>9 DEF Kept, SameReads
    <2>15. t = "none" => ~e.closed
      BY <2>9, <2>10
    <2>16. t = "end" => e.closed /\ AllGiven(version, e, more)
      BY <2>9, <2>10, <2>13
    <2>17. e.prefetched \in 0 .. MaxFid
      BY <2>9, RowsAssumption DEF NoRow
    <2>18. CursorOK(version, e, more, t)
      BY <2>9, <2>10, <2>11, <2>12, <2>14, <2>15, <2>16, <2>17, GdalCursorOK
    <2> QED BY <1>7, <2>5, <2>7, <2>8, <2>14, <2>18 DEF StillOK
  <1>8. CASE /\ ~c.closed /\ ~Stopped(c.query) /\ c.prefetched = NoRow
             /\ c.backend = "FastGdb"
    <2>0. c.backend # "GdalOpenFileGDB"
      BY <1>8
    <2>1. CASE c.failed
      <3>1. o = Outcome(c, Error)
        BY <1>8, <2>0, <2>1 DEF feature_next
      <3> QED BY <1>0, <1>1, <1>2, <3>1
    <2>2. CASE ~c.failed /\ c.left = <<>>
      <3>1. PICK d : d = [c EXCEPT !.closed = TRUE]
        OBVIOUS
      <3>2. o = Outcome(d, NoRow)
        BY <1>8, <2>0, <2>2, <3>1 DEF feature_next
      <3>3. SameReads(c, d) /\ d.left = c.left /\ d.prefetched = c.prefetched /\ d.closed
        BY <1>3, <3>1
      <3>4. d.closed \in BOOLEAN
        BY <1>0, <3>1 DEF CursorFields
      <3>5. AllGiven(version, c, got)
        BY <1>8, <2>2, FastEnd
      <3> QED BY <1>0, <1>1, <3>2, <3>3, <3>4, <3>5
    <2>3. CASE ~c.failed /\ c.left # <<>>
      <3>1. PICK d, e : d = [c EXCEPT !.left = Tail(@)] /\ e = [c EXCEPT !.failed = TRUE]
        OBVIOUS
      <3>2. o = Outcome(d, Head(c.left)) \/ o = Outcome(e, Error)
        BY <1>8, <2>0, <2>3, <3>1 DEF feature_next
      <3>3. CASE o = Outcome(e, Error)
        <4>1. SameReads(c, e) /\ e.left = c.left /\ e.prefetched = c.prefetched
              /\ e.closed = c.closed
          BY <1>0, <3>1 DEF SameReads, CursorFields
        <4> QED BY <1>0, <1>1, <3>3, <4>1
      <3>4. CASE o = Outcome(d, Head(c.left))
        <4>1. PICK r : r = Head(c.left)
          OBVIOUS
        <4>2. o.cursor = d /\ o.returned = r
          BY <3>4, <4>1 DEF Outcome
        <4>3. r \in AllFids /\ CursorOK(version, d, Append(got, r), s)
          BY <1>8, <2>3, <3>1, <4>1, FastRowKeeps
        <4>4. r \notin {NoRow, Error}
          BY <1>0, <4>3
        <4>5. Given(got, r) = Append(got, r) /\ Says(s, r) = s
          BY <1>0, <4>4, SaysIs DEF Given
        <4>6. /\ d.opened = c.opened /\ d.query = c.query /\ d.backend = c.backend
              /\ d.ordered_fids = c.ordered_fids
          BY <1>0, <3>1 DEF CursorFields
        <4> QED BY <4>2, <4>3, <4>5, <4>6 DEF StillOK
      <3> QED BY <3>2, <3>3, <3>4
    <2> QED BY <2>1, <2>2, <2>3
  <1> QED BY <1>0, <1>4, <1>5, <1>6, <1>7, <1>8

-----------------------------------------------------------------------------
(* What a cursor is when it has been opened.                               *)

\* The rows that GDAL's reading returns are there.
LEMMA GdalRowIsThere ==
  ASSUME NEW c, NEW o \in next_gdal(c), o.returned \notin {NoRow, Error}
  PROVE  Exists(o.returned, version)
  <1>1. ASSUME NEW d, NEW p \in next_gdal_source(d)
        PROVE  p.returned \in {NoRow, Error} \/ Exists(p.returned, version)
    BY <1>1 DEF next_gdal_source, Outcome
  <1>2. ASSUME NEW d, NEW p \in next_mapped(d)
        PROVE  p.returned \in {NoRow, Error} \/ Exists(p.returned, version)
    <2>1. CASE p = Outcome(d, NoRow)
      BY <2>1 DEF Outcome
    <2>2. CASE p # Outcome(d, NoRow)
      <3>1. PICK q \in next_gdal_source(d) :
               p = IF q.returned \in {NoRow, Error} THEN q
                   ELSE map_gdal_feature(IF d.query.limit = 0 THEN q
                                         ELSE [q EXCEPT !.cursor.remaining_limit = @ - 1])
        BY <1>2, <2>2 DEF next_mapped
      <3>2. q.returned \in {NoRow, Error} \/ Exists(q.returned, version)
        BY <1>1
      <3>3. PICK x, r : r = q.returned /\ q = Outcome(x, r)
        BY DEF next_gdal_source, Outcome
      <3>4. PICK y : p = IF r \in {NoRow, Error} THEN q ELSE map_gdal_feature(Outcome(y, r))
        <4>1. CASE d.query.limit = 0
          BY <3>1, <3>3, <4>1
        <4>2. CASE d.query.limit # 0
          <5>1. PICK y : [q EXCEPT !.cursor.remaining_limit = @ - 1] = Outcome(y, r)
            BY <3>3 DEF Outcome
          <5> QED BY <3>1, <3>3, <4>2, <5>1
        <4> QED BY <4>1, <4>2
      <3>5. map_gdal_feature(Outcome(y, r)).returned \in {Error, r}
        BY DEF map_gdal_feature, Outcome
      <3> QED BY <3>2, <3>3, <3>4, <3>5
    <2> QED BY <2>1, <2>2
  <1>3. ~Stopped(c.query)
    BY DEF next_gdal, Outcome
  <1>4. PICK n \in Skips(c) :
           o \in IF n = c.remaining_skip THEN next_mapped(Skipped(c, n))
                 ELSE {p \in next_gdal_source(Skipped(c, n)) : p.returned \in {NoRow, Error}}
    BY <1>3 DEF next_gdal
  <1>5. o \in next_mapped(Skipped(c, n))
    BY <1>4
  <1> QED BY <1>2, <1>5

\* A cursor just opened, and the row that was fetched for it.
JustOpened(c, query) ==
    /\ CursorOK(version, c, <<>>, "none") /\ c.opened = version /\ c.query = query
    /\ c.prefetched # NoRow => Exists(c.prefetched, version)
    /\ query.order = "Native" => c.ordered_fids = <<>>

LEMMA FastOpens ==
  ASSUME version \in DOMAIN Versions, NEW query, query.offset \in Nat, query.limit \in Nat,
         NEW c \in open_fast_cursor(query), c # NoCursor
  PROVE  JustOpened(c, query)
  <1>1. PICK found, fresh : found = Result(version, query) /\ fresh = CursorState("FastGdb", query)
    OBVIOUS
  <1>2. /\ found \in Seq(AllFids) /\ Len(found) \in Nat
        /\ \A i \in 1 .. Len(found) : found[i] \in MatchingFids(version, query)
    BY <1>1, ResultIs, ResultAscends
  <1>3. c = [fresh EXCEPT !.prefetched = IF found = <<>> THEN NoRow ELSE Head(found),
                          !.left = IF found = <<>> THEN <<>> ELSE Tail(found)]
    BY <1>1 DEF open_fast_cursor
  <1>4. /\ DOMAIN fresh = CursorFields /\ fresh.backend = "FastGdb" /\ fresh.query = query
        /\ fresh.opened = version /\ fresh.closed = FALSE
        /\ fresh.ordered_fids = <<>>
    BY <1>1 DEF CursorState, CursorFields
  <1>5. /\ DOMAIN c = CursorFields /\ c.backend = "FastGdb" /\ c.query = query
        /\ c.opened = version /\ c.closed = FALSE /\ c.ordered_fids = <<>>
        /\ c.prefetched = IF found = <<>> THEN NoRow ELSE Head(found)
        /\ c.left = IF found = <<>> THEN <<>> ELSE Tail(found)
    BY <1>3, <1>4 DEF CursorFields
  <1>6. /\ c.left \in Seq(AllFids) /\ Line(c, <<>>) \in Seq(AllFids)
        /\ Len(Line(c, <<>>)) + Len(c.left) = Len(found)
        /\ \A i \in 1 .. Len(Line(c, <<>>)) : i = 1 /\ Line(c, <<>>)[i] = found[i]
        /\ \A i \in 1 .. Len(c.left) : c.left[i] = found[Len(Line(c, <<>>)) + i]
        /\ c.prefetched \in 0 .. MaxFid
        /\ c.prefetched # NoRow => c.prefetched \in MatchingFids(version, query)
    <2>1. CASE found = <<>>
      <3>1. Line(c, <<>>) = <<>> /\ c.left = <<>> /\ c.prefetched = 0
        BY <1>5, <2>1 DEF Line, NoRow
      <3>2. <<>> \in Seq(AllFids) /\ Len(<<>>) = 0
        BY EmptySeq
      <3>3. \A i \in 1 .. 0 : FALSE
        OBVIOUS
      <3>4. 0 \in 0 .. MaxFid
        BY RowsAssumption
      <3>5. PICK line, left : line = Line(c, <<>>) /\ left = c.left
        OBVIOUS
      <3>6. /\ line \in Seq(AllFids) /\ left \in Seq(AllFids)
            /\ Len(line) = 0 /\ Len(left) = 0 /\ Len(found) = 0
        BY <2>1, <3>1, <3>2, <3>5
      <3>7. (\A i \in 1 .. Len(line) : FALSE) /\ (\A i \in 1 .. Len(left) : FALSE)
        BY <3>3, <3>6
      <3>8. Len(line) + Len(left) = Len(found)
        BY <3>6
      <3>9. c.prefetched \in 0 .. MaxFid /\ c.prefetched = NoRow
        BY <3>1, <3>4 DEF NoRow
      <3> HIDE <2>1
      <3> QED BY <3>5, <3>6, <3>7, <3>8, <3>9
    <2>2. CASE found # <<>>
      <3>1. PICK row, rest : row = Head(found) /\ rest = Tail(found)
        OBVIOUS
      <3>2. /\ row \in AllFids /\ rest \in Seq(AllFids) /\ Len(rest) = Len(found) - 1
            /\ \A i \in 1 .. Len(rest) : rest[i] = found[i + 1]
            /\ row = found[1]
        BY <1>2, <2>2, <3>1, HeadTailProperties
      <3>3. c.prefetched = row /\ c.left = rest /\ row # NoRow
        BY <1>5, <2>2, <3>1, <3>2 DEF AllFids, NoRow
      <3>4. PICK line : line = Line(c, <<>>)
        OBVIOUS
      <3>5. line = Append(<<>>, row)
        BY <3>3, <3>4 DEF Line
      <3>6. line \in Seq(AllFids) /\ Len(line) = 1 /\ line[1] = row
        <4>1. <<>> \in Seq(AllFids) /\ Len(<<>>) = 0
          BY EmptySeq
        <4>2. /\ line \in Seq(AllFids) /\ Len(line) = Len(<<>>) + 1
              /\ line[Len(<<>>) + 1] = row
          BY <3>2, <3>5, <4>1, AppendProperties
        <4> QED BY <4>1, <4>2
      <3>7. Len(rest) \in Nat /\ 1 \in 1 .. Len(found)
        BY <1>2, <3>2, LenProperties
      <3>8. \A i \in 1 .. Len(rest) : rest[i] = found[1 + i]
        BY <3>2, <3>7
      <3>9. Len(line) + Len(rest) = Len(found)
        BY <1>2, <3>2, <3>6
      <3>10. \A i \in 1 .. Len(line) : i = 1 /\ line[i] = found[i]
        BY <3>2, <3>6
      <3>11. row \in 0 .. MaxFid /\ row \in MatchingFids(version, query)
        BY <1>2, <3>2, <3>7, RowsAssumption DEF AllFids
      <3> QED BY <3>2, <3>3, <3>4, <3>6, <3>8, <3>9, <3>10, <3>11
    <2> QED BY <2>1, <2>2
  <1>7. Ascending(Line(c, <<>>))
    <2>1. DOMAIN Line(c, <<>>) = 1 .. Len(Line(c, <<>>))
      BY <1>6, LenProperties
    <2>2. ~(1 < 1)
      OBVIOUS
    <2> QED BY <1>6, <2>1, <2>2 DEF Ascending
  <1>8. FastReads(c, Line(c, <<>>))
    BY <1>1, <1>5, <1>6 DEF FastReads
  <1>9. CursorOK(version, c, <<>>, "none")
    <2>1. <<>> \in Seq(AllFids)
      BY EmptySeq
    <2>2. version \in 1 .. version
      BY RowsAssumption
    <2> QED BY <1>5, <1>6, <1>7, <1>8, <2>1, <2>2 DEF CursorOK
  <1>10. c.prefetched # NoRow => Exists(c.prefetched, version)
    BY <1>6, MatchingIs
  <1> QED BY <1>5, <1>9, <1>10 DEF JustOpened

\* GDAL before its first row, in its own order or with the FIDs collected.
Fresh(query) == CursorState("GdalOpenFileGDB", query)
Collected(query) == [Fresh(query) EXCEPT !.ordered_fids = Matching(version, query),
                                         !.after = MaxFid]

LEMMA GdalStarts ==
  ASSUME version \in DOMAIN Versions, NEW query, query.offset \in Nat, query.limit \in Nat,
         NEW c, c = Fresh(query) \/ c = Collected(query)
  PROVE  /\ DOMAIN c = CursorFields /\ c.query = query /\ c.opened = version
         /\ c.prefetched = NoRow /\ c.closed = FALSE
         /\ GdalLine(c, <<>>, "none")
  <1>1. PICK all, S, fresh : /\ all = Matching(version, query) /\ S = MatchingFids(version, query)
                             /\ fresh = Fresh(query)
    OBVIOUS
  <1>2. /\ S \in SUBSET AllFids /\ all = InOrder(S)
        /\ all \in Seq(AllFids) /\ Len(all) \in Nat
        /\ \A i \in 1 .. Len(all) : all[i] \in S
        /\ \A f \in S : \E i \in 1 .. Len(all) : all[i] = f
    BY <1>1, MatchingIs, InOrderIs DEF Matching
  <1>3. /\ DOMAIN fresh = CursorFields /\ fresh.backend = "GdalOpenFileGDB"
        /\ fresh.query = query /\ fresh.opened = version /\ fresh.closed = FALSE
        /\ fresh.prefetched = NoRow /\ fresh.after = 0 /\ fresh.ordered_fids = <<>>
        /\ fresh.ordered_index = 1 /\ fresh.remaining_skip = query.offset
        /\ fresh.remaining_limit = query.limit
    BY <1>1 DEF Fresh, CursorState, CursorFields
  <1>4. /\ DOMAIN c = CursorFields /\ c.backend = "GdalOpenFileGDB"
        /\ c.query = query /\ c.opened = version /\ c.closed = FALSE
        /\ c.prefetched = NoRow
        /\ \/ c.after = 0 /\ c.ordered_fids = <<>>
           \/ c.after = MaxFid /\ c.ordered_fids = all
        /\ c.ordered_index = 1 /\ c.remaining_skip = query.offset
        /\ c.remaining_limit = query.limit
    <2>1. CASE c = fresh
      BY <1>3, <2>1
    <2>2. CASE c = [fresh EXCEPT !.ordered_fids = all, !.after = MaxFid]
      BY <1>3, <2>2 DEF CursorFields
    <2> QED BY <1>1, <2>1, <2>2 DEF Collected
  <1>5. GdalTypes(c)
    <2>1. query.offset \in 0 .. query.offset /\ 1 \in Nat \ {0}
      OBVIOUS
    <2> QED BY <1>1, <1>4, <2>1, RowsAssumption DEF GdalTypes
  <1>6. GdalCursor(c)
    <2>1. version \in 1 .. version
      BY RowsAssumption
    <2> QED BY <1>4, <1>5, <2>1 DEF GdalCursor
  <1>7. <<>> \in Seq(AllFids) /\ Len(<<>>) = 0 /\ Ascending(<<>>)
    BY EmptySeq DEF Ascending
  <1>8. PICK ahead : ahead = AheadAt(version, c)
    OBVIOUS
  <1>9. Len(ahead) = Len(all) /\ \A i \in 1 .. Len(ahead) : ahead[i] = all[i]
    <2>1. CASE c.after = 0 /\ c.ordered_fids = <<>>
      <3>1. {f \in S : f > 0} = S
        <4>1. \A f \in 1 .. MaxFid : f > 0
          BY RowsAssumption
        <4>2. \A f \in S : f > 0
          BY <1>2, <4>1 DEF AllFids
        <4> QED BY <4>2
      <3>2. ahead = all
        BY <1>1, <1>2, <1>4, <1>8, <2>1, <3>1 DEF AheadAt
      <3> QED BY <3>2
    <2>2. CASE c.after = MaxFid /\ c.ordered_fids = all /\ all = <<>>
      <3>1. Len(all) = 0 /\ S = {}
        BY <1>2, <2>2
      <3>2. ahead = InOrder(S)
        BY <1>1, <1>4, <1>8, <2>2, <3>1 DEF AheadAt
      <3> QED BY <1>2, <3>2
    <2>3. CASE c.ordered_fids = all /\ all # <<>>
      <3>1. /\ Len(ahead) = IF 1 <= Len(all) THEN Len(all) - 1 + 1 ELSE 0
            /\ \A i \in 1 .. Len(ahead) : ahead[i] = all[1 + i - 1]
        BY <1>4, <1>6, <1>8, <2>3, AheadIs
      <3>2. Len(ahead) = Len(all) /\ \A i \in 1 .. Len(ahead) : 1 + i - 1 = i
        BY <1>2, <3>1
      <3> QED BY <3>1, <3>2
    <2> QED BY <1>4, <2>1, <2>2, <2>3
  <1>10. InStep(c, <<>>, ahead)
    <2>1. PICK passed : passed = c.query.offset - c.remaining_skip + Len(<<>>)
      OBVIOUS
    <2>2. passed = 0
      BY <1>4, <1>7, <2>1
    <2>3. passed + Len(ahead) = Len(all) /\ \A i \in 1 .. Len(ahead) : passed + i = i
      BY <1>2, <1>9, <2>2
    <2>4. Len(<<>>) + c.remaining_limit = c.query.limit
      BY <1>4, <1>7
    <2> QED BY <1>1, <1>4, <1>7, <1>9, <2>1, <2>3, <2>4 DEF InStep
  <1>11. ASSUME Everything(c), NEW f \in Steady(version, c), f <= c.after PROVE FALSE
    <2>1. f \in S /\ f \in AllFids
      <3>1. version \in c.opened .. version
        BY <1>4, RowsAssumption
      <3> QED BY <1>1, <1>4, <3>1 DEF Steady
    <2>2. CASE c.after = 0
      BY <1>11, <2>1, <2>2 DEF AllFids
    <2>3. CASE c.ordered_fids = all
      <3>1. Len(all) = 0
        BY <1>11, <2>3 DEF Everything
      <3> QED BY <1>2, <2>1, <3>1
    <2> QED BY <1>4, <2>2, <2>3
  <1>12. GdalReads(version, c, <<>>, "none")
    <2>1. c.query.limit > 0 => Len(<<>>) + c.remaining_limit <= c.query.limit
      BY <1>4, <1>7
    <2> QED BY <1>5, <1>7, <1>8, <1>10, <1>11, <2>1 DEF GdalReads
  <1> QED BY <1>4, <1>6, <1>7, <1>12 DEF GdalLine

LEMMA GdalOpens ==
  ASSUME version \in DOMAIN Versions, NEW query, query.offset \in Nat, query.limit \in Nat,
         NEW c \in open_gdal_cursor(query), c # NoCursor
  PROVE  JustOpened(c, query)
  <1>2. PICK b :
           /\ b = Fresh(query) \/ b = Collected(query)
           /\ \E o \in next_gdal(b) : /\ o.returned # Error
                                      /\ c = [o.cursor EXCEPT !.prefetched = o.returned]
           /\ query.order = "Native" => b = Fresh(query)
    <2>1. CASE query.order = "Native"
      BY <2>1 DEF open_gdal_cursor, Fresh
    <2>2. CASE query.order # "Native"
      BY <2>2 DEF open_gdal_cursor, Fresh, Collected
    <2> QED BY <2>1, <2>2
  <1>3. PICK o \in next_gdal(b) : /\ o.returned # Error
                                  /\ c = [o.cursor EXCEPT !.prefetched = o.returned]
    BY <1>2
  <1>4. /\ b.query = query /\ b.opened = version /\ b.prefetched = NoRow /\ b.closed = FALSE
        /\ GdalLine(b, <<>>, "none")
    BY <1>2, GdalStarts
  <1>5. PICK d, r : d = o.cursor /\ r = o.returned
    OBVIOUS
  <1>6. /\ Kept(b, d) /\ r \in {NoRow, Error} \cup AllFids
        /\ GdalLine(d, Given(<<>>, r), Fails("none", r))
    BY <1>4, <1>5, NextGdalKeeps
  <1>7. r \in {NoRow} \cup AllFids /\ Fails("none", r) = "none"
    BY <1>3, <1>5, <1>6 DEF Fails
  <1>8. /\ SameReads(d, c) /\ c.prefetched = r /\ c.closed = FALSE
        /\ c.query = query /\ c.opened = version /\ c.backend = "GdalOpenFileGDB"
        /\ c.ordered_fids = b.ordered_fids
    <2>1. DOMAIN d = CursorFields /\ d.backend = "GdalOpenFileGDB"
      BY <1>4, <1>6 DEF Kept, GdalLine, GdalCursor
    <2>2. c = [d EXCEPT !.prefetched = r]
      BY <1>3, <1>5
    <2>3. SameReads(d, c) /\ c.prefetched = r /\ c.closed = d.closed
      BY <2>1, <2>2 DEF SameReads, CursorFields
    <2> QED BY <1>4, <1>6, <2>1, <2>3 DEF SameReads, Kept
  <1>9. Line(c, <<>>) = Given(<<>>, r)
    <2>1. r = NoRow \/ r \notin {NoRow, Error}
      BY <1>7 DEF NoRow, Error, AllFids
    <2> QED BY <1>8, <2>1 DEF Line, Given
  <1>10. GdalLine(c, Line(c, <<>>), "none")
    BY <1>6, <1>7, <1>8, <1>9, SameGdalLine
  <1>11. CursorOK(version, c, <<>>, "none")
    <2>1. <<>> \in Seq(AllFids)
      BY EmptySeq
    <2>2. r \in 0 .. MaxFid
      BY <1>7, RowsAssumption DEF NoRow, AllFids
    <2>3. /\ c.closed \in BOOLEAN /\ ~c.closed /\ c.prefetched \in 0 .. MaxFid
          /\ c.backend = "GdalOpenFileGDB"
      BY <1>8, <2>2
    <2> HIDE <1>8
    <2> QED BY <1>10, <2>1, <2>3, GdalCursorOK
  <1>12. c.prefetched # NoRow => Exists(c.prefetched, version)
    <2>1. r # NoRow => Exists(r, version)
      BY <1>3, <1>5, GdalRowIsThere
    <2> QED BY <1>8, <2>1
  <1>13. query.order = "Native" => c.ordered_fids = <<>>
    <2>1. PICK fresh : fresh = Fresh(query)
      OBVIOUS
    <2>2. fresh.ordered_fids = <<>>
      BY <2>1 DEF Fresh, CursorState
    <2> QED BY <1>2, <1>8, <2>1, <2>2
  <1> QED BY <1>8, <1>11, <1>12, <1>13 DEF JustOpened

LEMMA Opens ==
  ASSUME version \in DOMAIN Versions, NEW query, query.offset \in Nat, query.limit \in Nat,
         NEW c \in open_cursor(query), c # NoCursor
  PROVE  JustOpened(c, query)
  <1>1. c \in open_fast_cursor(query) \/ c \in open_gdal_cursor(query)
    BY DEF open_cursor
  <1> QED BY <1>1, FastOpens, GdalOpens

-----------------------------------------------------------------------------
(* What a cursor in its result has given.                                  *)

LEMMA CursorGives ==
  ASSUME version \in DOMAIN Versions, NEW c, NEW got, NEW s, CursorOK(version, c, got, s)
  PROVE  /\ Ascending(got) /\ DOMAIN got = 1 .. Len(got)
         /\ c.query.limit > 0 => Len(got) <= c.query.limit
         /\ c.opened = version =>
              /\ s = "none" =>
                   /\ IsPrefix(got, Result(version, c.query))
                   /\ Len(got) <= Len(Result(version, c.query))
                   /\ \A i \in 1 .. Len(got) : got[i] = Result(version, c.query)[i]
              /\ s = "end" => got = Result(version, c.query)
              /\ \A i \in 1 .. Len(got) : got[i] \in MatchingFids(version, c.query)
  <1>1. PICK line : line = Line(c, got)
    OBVIOUS
  <1>2. /\ line \in Seq(AllFids) /\ got \in Seq(AllFids)
        /\ Len(got) \in Nat /\ Len(got) <= Len(line)
        /\ \A i \in 1 .. Len(got) : line[i] = got[i] /\ got[i] \in AllFids
    BY <1>1, LineIs
  <1>3. Len(line) \in Nat /\ DOMAIN line = 1 .. Len(line) /\ DOMAIN got = 1 .. Len(got)
        /\ \A i \in 1 .. Len(got) : i \in 1 .. Len(line)
    BY <1>2, LenProperties
  <1>4. Ascending(got)
    <2>1. Ascending(line)
      BY <1>1 DEF CursorOK
    <2> QED BY <1>2, <1>3, <2>1 DEF Ascending
  <1>5. c.opened \in DOMAIN Versions /\ c.query.offset \in Nat /\ c.query.limit \in Nat
    BY OpenedIs DEF CursorOK
  <1>6. s = "end" => (c.opened = version => got = Result(version, c.query))
    BY DEF CursorOK, AllGiven
  <1>7. CASE c.backend = "FastGdb"
    <2>1. PICK result : result = Result(c.opened, c.query)
      OBVIOUS
    <2>2. FastReads(c, line)
      BY <1>1, <1>7 DEF CursorOK
    <2>3. /\ result \in Seq(AllFids) /\ Len(result) \in Nat
          /\ \A n \in Nat \ {0} : n <= Len(result) => c.query.limit = 0 \/ n <= c.query.limit
          /\ \A i \in 1 .. Len(result) : result[i] \in MatchingFids(c.opened, c.query)
      BY <1>5, <2>1, ResultIs, ResultAscends
    <2>4. /\ Len(c.left) \in Nat /\ Len(line) + Len(c.left) = Len(result)
          /\ \A i \in 1 .. Len(line) : line[i] = result[i]
      BY <2>1, <2>2, LenProperties DEF FastReads
    <2>5. Len(got) <= Len(result) /\ \A i \in 1 .. Len(got) : got[i] = result[i] /\ i \in 1 .. Len(result)
      BY <1>2, <1>3, <2>3, <2>4
    <2>6. c.query.limit > 0 => Len(got) <= c.query.limit
      <3>1. CASE Len(got) = 0
        BY <1>5, <3>1
      <3>2. CASE Len(got) # 0
        BY <1>2, <1>5, <2>3, <2>5, <3>2
      <3> QED BY <3>1, <3>2
    <2>7. IsPrefix(got, result)
      BY <1>2, <2>3, <2>5, PrefixFrom
    <2>8. \A i \in 1 .. Len(got) : got[i] \in MatchingFids(c.opened, c.query)
      BY <2>3, <2>5
    <2> QED BY <1>3, <1>4, <1>6, <2>1, <2>5, <2>6, <2>7, <2>8
  <1>8. CASE c.backend = "GdalOpenFileGDB"
    <2>1. GdalReads(version, c, line, s)
      BY <1>1, <1>8 DEF CursorOK
    <2>2. c.remaining_limit \in Nat /\ c.remaining_skip \in Nat
      BY <1>5, <2>1 DEF GdalReads, GdalTypes
    <2>3. c.query.limit > 0 => Len(got) <= c.query.limit
      <3>1. c.query.limit > 0 => Len(line) + c.remaining_limit <= c.query.limit
        BY <2>1 DEF GdalReads
      <3> QED BY <1>2, <1>3, <1>5, <2>2, <3>1
    <2>4. c.opened = version => \A i \in 1 .. Len(got) : got[i] \in MatchingFids(version, c.query)
      BY <1>2, <1>3, <2>1 DEF GdalReads
    <2>5. ASSUME c.opened = version, s = "none"
          PROVE  /\ IsPrefix(got, Result(version, c.query))
                 /\ Len(got) <= Len(Result(version, c.query))
                 /\ \A i \in 1 .. Len(got) : got[i] = Result(version, c.query)[i]
      <3>1. PICK all, ahead : all = Matching(version, c.query) /\ ahead = AheadAt(version, c)
        OBVIOUS
      <3>2. InStep(c, line, ahead)
        BY <2>1, <2>5, <3>1 DEF GdalReads
      <3>3. /\ c.remaining_skip > 0 => line = <<>>
            /\ c.query.offset - c.remaining_skip + Len(line) + Len(ahead) = Len(all)
            /\ \A i \in 1 .. Len(line) : line[i] = all[c.query.offset + i]
        BY <2>5, <3>1, <3>2 DEF InStep
      <3>4. GdalCursor(c)
        BY <1>8, <2>1 DEF CursorOK, GdalCursor, GdalReads
      <3>5. Len(ahead) \in Nat
        BY <3>1, <3>4, AheadIs
      <3>6. line = <<>> => Len(line) = 0
        OBVIOUS
      <3>7. PICK offset, skip, size, whole, more, total :
               /\ offset = c.query.offset /\ skip = c.remaining_skip /\ size = Len(got)
               /\ whole = Len(line) /\ more = Len(ahead) /\ total = Len(all)
        OBVIOUS
      <3>8. /\ offset \in Nat /\ skip \in Nat /\ size \in Nat /\ whole \in Nat /\ more \in Nat
            /\ size <= whole
        BY <1>2, <1>3, <1>5, <2>2, <3>5, <3>7
      <3>9. /\ skip > 0 => whole = 0
            /\ offset - skip + whole + more = total
        BY <3>3, <3>6, <3>7
      <3>10. size > 0 => offset + size <= total
        BY <3>8, <3>9
      <3>11. \A i \in 1 .. Len(got) : got[i] = all[c.query.offset + i]
        BY <1>2, <1>3, <3>3
      <3>12. PICK result : result = Result(version, c.query)
        OBVIOUS
      <3>13. IsPrefix(got, result) /\ Len(got) <= Len(result)
        BY <1>2, <1>5, <2>3, <3>1, <3>7, <3>10, <3>11, <3>12, IsResult
      <3>14. /\ Len(result) \in Nat
             /\ \A i \in 1 .. Len(result) : result[i] = all[c.query.offset + i]
        BY <1>5, <3>1, <3>12, ResultIs
      <3>15. \A i \in 1 .. Len(got) : i \in 1 .. Len(result)
        BY <1>2, <3>13, <3>14
      <3> QED BY <3>11, <3>12, <3>13, <3>14, <3>15
    <2> QED BY <1>3, <1>4, <1>6, <2>3, <2>4, <2>5
  <1> QED BY <1>7, <1>8 DEF CursorOK

\* What a Writer changes takes nothing away from what is known of a cursor.
LEMMA Outlives ==
  ASSUME NEW v \in Nat, NEW c, NEW got, NEW s, CursorOK(v, c, got, s)
  PROVE  CursorOK(v + 1, c, got, s)
  <1>1. c.opened \in 1 .. v + 1 /\ c.opened # v + 1 /\ c.opened \in Int
    BY DEF CursorOK
  <1>2. Steady(v + 1, c) \subseteq Steady(v, c)
    <2>1. \A w \in c.opened .. v : w \in c.opened .. v + 1
      BY <1>1
    <2> QED BY <2>1 DEF Steady
  <1>3. c.backend = "GdalOpenFileGDB" => GdalReads(v + 1, c, Line(c, got), s)
    <2> SUFFICES ASSUME c.backend = "GdalOpenFileGDB"
                 PROVE  GdalReads(v + 1, c, Line(c, got), s)
      OBVIOUS
    <2>1. GdalReads(v, c, Line(c, got), s)
      BY DEF CursorOK
    <2> QED BY <1>1, <1>2, <2>1 DEF GdalReads
  <1>4. s = "end" => c.closed /\ AllGiven(v + 1, c, got)
    BY <1>1, <1>2 DEF CursorOK, AllGiven
  <1> QED BY <1>1, <1>3, <1>4 DEF CursorOK

-----------------------------------------------------------------------------
(* read_by_fid goes through all rows.                                      *)

LEMMA EveryFid ==
  ASSUME NEW v \in DOMAIN Versions, NEW f
  PROVE  f \in MatchingFids(v, DefaultQuery) <=> Exists(f, v)
  <1>1. DefaultQuery.attribute_filter = NoFilter /\ DefaultQuery.spatial_filter = NoFilter
    BY DEF DefaultQuery, Query
  <1>2. \A row : Matches(row, DefaultQuery)
    BY <1>1 DEF Matches
  <1> QED BY <1>2, MatchingIs, RowsAre

LEMMA NotSteady ==
  ASSUME version \in DOMAIN Versions, NEW c, c.opened \in 1 .. version,
         c.query = DefaultQuery, NEW f, f \notin Steady(version, c)
  PROVE  \E w \in c.opened .. version : ~Exists(f, w)
  <1>1. \A w \in c.opened .. version : w \in DOMAIN Versions
    <2>1. c.opened .. version \subseteq 1 .. version
      BY RowsAssumption
    <2> QED BY <2>1, OpenedIs
  <1>2. CASE f \in AllFids
    BY <1>1, <1>2, EveryFid DEF Steady
  <1>3. CASE f \notin AllFids
    <2>1. version \in c.opened .. version
      BY RowsAssumption
    <2>2. ~Exists(f, version)
      BY <1>3, RowsAre
    <2> QED BY <2>1, <2>2
  <1> QED BY <1>2, <1>3

\* A cursor over everything that gave a row has given the rows before it that
\* were there all the time.
LEMMA NoneMissed ==
  ASSUME version \in DOMAIN Versions, NEW c, NEW got, CursorOK(version, c, got, "none"),
         Everything(c), c.prefetched = NoRow,
         NEW i \in 1 .. Len(got), NEW f \in Steady(version, c), f <= got[i]
  PROVE  \E k \in 1 .. Len(got) : got[k] = f
  <1>1. Line(c, got) = got /\ Len(got) \in Nat /\ got[i] \in AllFids /\ f \in AllFids
    BY LineIs DEF Line, Steady
  <1>2. f \in Nat /\ got[i] \in Nat
    BY <1>1 DEF AllFids
  <1>3. CASE c.backend = "GdalOpenFileGDB"
    <2>1. GdalReads(version, c, got, "none")
      BY <1>1, <1>3 DEF CursorOK
    <2>2. c.after \in Nat /\ got[i] <= c.after
      BY <2>1 DEF GdalReads, GdalTypes, Behind, Everything
    <2>3. f <= c.after
      BY <1>2, <2>2
    <2> QED BY <2>1, <2>3 DEF GdalReads
  <1>4. CASE c.backend = "FastGdb"
    <2>1. PICK result, S : result = Result(c.opened, c.query) /\ S = MatchingFids(c.opened, c.query)
      OBVIOUS
    <2>2. FastReads(c, got)
      BY <1>1, <1>4 DEF CursorOK
    <2>3. /\ Len(c.left) \in Nat /\ Len(got) + Len(c.left) = Len(result)
          /\ \A k \in 1 .. Len(got) : got[k] = result[k]
      BY <2>1, <2>2, LenProperties DEF FastReads
    <2>4. c.opened \in DOMAIN Versions /\ c.opened \in c.opened .. version
      BY OpenedIs, RowsAssumption DEF CursorOK
    <2>5. f \in S /\ S \in SUBSET AllFids
      BY <2>1, <2>4, MatchingIs DEF Steady
    <2>6. result = InOrder(S)
      BY <2>1, <2>4, ResultAscends DEF Everything, Matching
    <2>7. PICK k \in 1 .. Len(result) : result[k] = f
      BY <2>5, <2>6, InOrderIs
    <2>8. Len(result) \in Nat /\ i \in 1 .. Len(result)
          /\ \A m, n \in 1 .. Len(result) : m < n => result[m] < result[n]
      BY <1>1, <2>3, <2>5, <2>6, InOrderIs
    <2>9. k <= i
      <3> SUFFICES ASSUME i < k PROVE FALSE
        BY <2>7, <2>8
      <3>1. got[i] < f
        BY <2>3, <2>7, <2>8
      <3> QED BY <1>2, <3>1
    <2>10. k \in 1 .. Len(got)
      BY <1>1, <2>7, <2>8, <2>9
    <2> QED BY <2>3, <2>7, <2>10
  <1> QED BY <1>3, <1>4 DEF CursorOK

\* The row that a cursor returned was there when it was opened or is now.
LEMMA RowReturned ==
  ASSUME version \in DOMAIN Versions, NEW c, NEW got, NEW s, CursorOK(version, c, got, s),
         c.prefetched # NoRow => Exists(c.prefetched, c.opened),
         NEW o \in feature_next(c), o.returned \notin {NoRow, Error}
  PROVE  /\ o.cursor.prefetched = NoRow
         /\ Exists(o.returned, c.opened) \/ Exists(o.returned, version)
  <1>0. DOMAIN c = CursorFields /\ c.opened \in DOMAIN Versions
        /\ c.query.offset \in Nat /\ c.query.limit \in Nat
    BY OpenedIs DEF CursorOK
  <1>1. ~c.closed /\ ~Stopped(c.query)
    BY DEF feature_next, Outcome
  <1>2. CASE c.prefetched # NoRow
    <2>1. PICK d : d = [c EXCEPT !.prefetched = NoRow]
      OBVIOUS
    <2>2. o = Outcome(d, c.prefetched)
      BY <1>1, <1>2, <2>1 DEF feature_next
    <2>3. d.prefetched = NoRow
      BY <1>0, <2>1 DEF CursorFields
    <2> QED BY <1>2, <2>2, <2>3 DEF Outcome
  <1>3. CASE c.prefetched = NoRow /\ c.backend = "GdalOpenFileGDB"
    <2>1. PICK p \in next_gdal(c) :
             o = IF p.returned = NoRow THEN Outcome([p.cursor EXCEPT !.closed = TRUE], NoRow)
                 ELSE p
      BY <1>1, <1>3 DEF feature_next
    <2>2. p = o
      <3>1. p.returned # NoRow
        BY <2>1 DEF Outcome
      <3> QED BY <2>1, <3>1
    <2>3. Exists(o.returned, version)
      BY <2>2, GdalRowIsThere
    <2>4. GdalLine(c, Line(c, got), s)
      BY <1>3, GdalCursorOK
    <2>5. Kept(c, o.cursor)
      BY <2>2, <2>4, NextGdalKeeps
    <2> QED BY <1>3, <2>3, <2>5 DEF Kept
  <1>4. CASE c.prefetched = NoRow /\ c.backend = "FastGdb"
    <2>1. c.backend # "GdalOpenFileGDB"
      BY <1>4
    <2>2. ~c.failed /\ c.left # <<>>
      BY <1>1, <1>4, <2>1 DEF feature_next, Outcome
    <2>3. PICK d : d = [c EXCEPT !.left = Tail(@)]
      OBVIOUS
    <2>4. o = Outcome(d, Head(c.left))
      BY <1>1, <1>4, <2>1, <2>2, <2>3 DEF feature_next, Outcome
    <2>5. d.prefetched = NoRow /\ o.cursor = d /\ o.returned = Head(c.left)
      BY <1>0, <1>4, <2>3, <2>4 DEF CursorFields, Outcome
    <2>6. PICK left, result, n : /\ left = c.left /\ result = Result(c.opened, c.query)
                                 /\ n = Len(Line(c, got))
      OBVIOUS
    <2>7. /\ left \in Seq(AllFids) /\ n + Len(left) = Len(result)
          /\ \A i \in 1 .. Len(left) : left[i] = result[n + i]
      BY <1>4, <2>6 DEF CursorOK, FastReads
    <2>8. Len(left) \in Nat /\ Len(left) # 0 /\ Head(left) = left[1] /\ n \in Nat
      <3>1. Line(c, got) \in Seq(AllFids)
        BY LineIs
      <3> QED BY <2>2, <2>6, <2>7, <3>1, HeadTailProperties, LenProperties, EmptySeq
    <2>9. Head(left) = result[n + 1] /\ n + 1 \in 1 .. Len(result)
      <3>1. 1 \in 1 .. Len(left)
        BY <2>8
      <3> QED BY <2>7, <2>8, <3>1
    <2>10. Head(left) \in MatchingFids(c.opened, c.query)
      BY <1>0, <2>6, <2>9, ResultAscends
    <2> QED BY <1>0, <2>5, <2>6, <2>10, MatchingIs
  <1> QED BY <1>2, <1>3, <1>4 DEF CursorOK

-----------------------------------------------------------------------------
(* The caller's calls.                                                     *)

LEMMA TextsDiffer ==
        /\ NoCall.kind = "none" /\ NoAnswer.kind = "none"
        /\ "none" # "read_all" /\ "none" # "read_by_fid" /\ "none" # "count"
        /\ "read_all" # "read_by_fid" /\ "read_all" # "count" /\ "read_by_fid" # "count"
        /\ "ok" # "missing" /\ "ok" # "limit" /\ "ok" # "error"
        /\ "error" # "limit" /\ "error" # "missing" /\ "limit" # "missing"
  BY DEF NoCall, NoAnswer

\* A step that leaves the version and the call alone and answers no call.
LEMMA QuietStep ==
  ASSUME SourceInv, version' = version, call' = call,
         \/ answer' = answer
         \/ /\ answer'.kind \notin {"read_all", "read_by_fid"}
            /\ answer'.kind = "count" => answer'.ended \in 1 .. version
  PROVE  SourceInv'
  <1>1. version' \in DOMAIN Versions
    BY DEF SourceInv
  <1>2. CallOK(version', call')
    BY DEF SourceInv
  <1>3. /\ answer'.kind = "count" => answer'.ended \in 1 .. version'
        /\ CallsAnswerWhole'
    BY DEF SourceInv, CallsAnswerWhole
  <1> QED BY <1>1, <1>2, <1>3 DEF SourceInv

\* What an answer has to be.
WholeAnswer(k, status, fids) ==
    /\ k.kind = "read_all" =>
          /\ Len(fids) <= k.max
          /\ k.began = version =>
                /\ status = "ok" => fids = Result(version, k.query)
                /\ status = "limit" => Len(Result(version, k.query)) > k.max
    /\ k.kind = "read_by_fid" =>
          /\ status = "ok" => \E v \in k.began .. version : Exists(fids[1], v)
          /\ status = "missing" => \E v \in k.began .. version : ~Exists(fids[1], v)

LEMMA AnswerStep ==
  ASSUME SourceInv, NEW k, k.kind \in {"read_all", "read_by_fid"}, NEW status, NEW fids,
         Answers(k, status, fids), WholeAnswer(k, status, fids)
  PROVE  SourceInv' /\ UNCHANGED <<version, cursor, given, said>>
  <1>1. /\ version' = version /\ version \in DOMAIN Versions /\ call' = NoCall
        /\ UNCHANGED <<version, cursor, given, said>>
    BY DEF Answers, SourceInv
  <1>2. /\ answer'.kind = k.kind /\ answer'.query = k.query /\ answer'.max = k.max
        /\ answer'.status = status /\ answer'.fids = fids /\ answer'.began = k.began
        /\ answer'.ended = version
    BY DEF Answers
  <1>3. CallOK(version', call')
    BY <1>1 DEF CallOK
  <1>4. answer'.kind # "count"
    BY <1>2, TextsDiffer
  <1>5. CallsAnswerWhole'
    <2>1. CASE k.kind = "read_all"
      BY <1>2, <2>1 DEF CallsAnswerWhole, WholeAnswer
    <2>2. CASE k.kind = "read_by_fid"
      BY <1>2, <2>2 DEF CallsAnswerWhole, WholeAnswer
    <2> QED BY <2>1, <2>2
  <1> QED BY <1>1, <1>3, <1>4, <1>5 DEF SourceInv

LEMMA ReadAllStep ==
  ASSUME SourceInv, ReadAllNext
  PROVE  SourceInv' /\ UNCHANGED <<version, cursor, given, said>>
  <1>1. PICK k, c, batch : k = call /\ c = call.cursor /\ batch = call.batch
    OBVIOUS
  <1>2. k.kind = "read_all" /\ k # NoCall /\ version \in DOMAIN Versions
    BY <1>1, TextsDiffer DEF ReadAllNext, SourceInv
  <1>3. /\ DOMAIN k = CallFields /\ k.began = c.opened /\ k.query = c.query
        /\ k.max \in Nat /\ Len(batch) <= k.max
        /\ CursorOK(version, c, batch, "none")
    BY <1>1, <1>2 DEF SourceInv, CallOK
  <1>4. PICK o \in feature_next(c) :
          CASE o.returned = Error -> Answers(k, "error", <<>>)
            [] o.returned = NoRow -> Answers(k, "ok", batch)
            [] o.returned \notin {NoRow, Error} /\ Len(batch) >= k.max -> Answers(k, "limit", <<>>)
            [] OTHER -> Goes(o.cursor, Append(batch, o.returned))
    BY <1>1 DEF ReadAllNext
  <1>5. PICK d, r : d = o.cursor /\ r = o.returned
    OBVIOUS
  <1>6. /\ r \in {NoRow, Error} \cup AllFids /\ d.opened = c.opened /\ d.query = c.query
        /\ CursorOK(version, d, Given(batch, r), Says("none", r))
    BY <1>3, <1>5, FeatureNextKeeps, <1>2 DEF StillOK
  <1>7. Len(batch) \in Nat /\ batch \in Seq(AllFids)
    BY <1>3, LineIs
  <1>8. NoRow # Error /\ NoRow \notin AllFids /\ Error \notin AllFids
    BY DEF NoRow, Error, AllFids
  <1>9. CASE r = Error
    <2>1. Answers(k, "error", <<>>)
      BY <1>4, <1>5, <1>8, <1>9
    <2>2. WholeAnswer(k, "error", <<>>)
      <3>1. Len(<<>>) = 0
        BY EmptySeq
      <3> QED BY <1>2, <1>3, <3>1, TextsDiffer DEF WholeAnswer
    <2> QED BY <1>2, <2>1, <2>2, AnswerStep
  <1>10. CASE r = NoRow
    <2>1. Answers(k, "ok", batch)
      BY <1>4, <1>5, <1>8, <1>10
    <2>2. Given(batch, r) = batch /\ Says("none", r) = "end"
      BY <1>10 DEF Given, Says
    <2>3. CursorOK(version, d, batch, "end")
      BY <1>6, <2>2
    <2>4. k.began = version => batch = Result(version, k.query)
      BY <1>2, <1>3, <1>6, <2>3, CursorGives
    <2>5. WholeAnswer(k, "ok", batch)
      BY <1>2, <1>3, <2>4, TextsDiffer DEF WholeAnswer
    <2> QED BY <1>2, <2>1, <2>5, AnswerStep
  <1>11. ASSUME r \in AllFids PROVE SourceInv' /\ UNCHANGED <<version, cursor, given, said>>
    <2>1. r \notin {NoRow, Error}
      BY <1>8, <1>11
    <2>2. PICK longer : longer = Append(batch, r)
      OBVIOUS
    <2>3. Given(batch, r) = longer /\ Says("none", r) = "none"
      BY <2>1, <2>2 DEF Given, Says, Fails
    <2>4. CursorOK(version, d, longer, "none") /\ Len(longer) = Len(batch) + 1
      BY <1>6, <1>7, <1>11, <2>2, <2>3, AppendProperties
    <2>5. CASE Len(batch) >= k.max
      <3>1. Answers(k, "limit", <<>>)
        BY <1>4, <1>5, <2>1, <2>5
      <3>2. k.began = version => Len(Result(version, k.query)) > k.max
        <4> SUFFICES ASSUME k.began = version PROVE Len(Result(version, k.query)) > k.max
          OBVIOUS
        <4>1. PICK size : size = Len(Result(version, k.query))
          OBVIOUS
        <4>2. Len(longer) <= size
          BY <1>2, <1>3, <1>6, <2>4, <4>1, CursorGives
        <4>3. size \in Nat
          BY <1>2, <1>3, <4>1, ResultIs DEF CursorOK
        <4>4. size > k.max
          BY <1>3, <1>7, <2>4, <2>5, <4>2, <4>3
        <4> QED BY <4>1, <4>4
      <3>3. WholeAnswer(k, "limit", <<>>)
        <4>1. Len(<<>>) = 0
          BY EmptySeq
        <4> QED BY <1>2, <1>3, <3>2, <4>1, TextsDiffer DEF WholeAnswer
      <3> QED BY <1>2, <3>1, <3>3, AnswerStep
    <2>6. CASE ~(Len(batch) >= k.max)
      <3>1. Goes(d, longer)
        BY <1>4, <1>5, <2>1, <2>2, <2>6
      <3>2. PICK m : m = call'
        OBVIOUS
      <3>3. m = [k EXCEPT !.cursor = d, !.batch = longer] /\ version' = version /\ answer' = answer
            /\ UNCHANGED <<version, cursor, given, said>>
        BY <1>1, <3>1, <3>2 DEF Goes
      <3>4. /\ DOMAIN m = CallFields /\ m.kind = "read_all" /\ m.cursor = d /\ m.batch = longer
            /\ m.query = k.query /\ m.max = k.max /\ m.began = k.began
        BY <1>2, <1>3, <3>3 DEF CallFields
      <3>5. Len(longer) <= k.max
        BY <1>3, <1>7, <2>4, <2>6
      <3>6. CallOK(version, m)
        BY <1>3, <1>6, <2>4, <3>4, <3>5, TextsDiffer DEF CallOK
      <3>7. CallOK(version', call')
        BY <3>2, <3>3, <3>6
      <3>8. /\ answer'.kind = "count" => answer'.ended \in 1 .. version'
            /\ CallsAnswerWhole'
        BY <3>3 DEF SourceInv, CallsAnswerWhole
      <3> QED BY <1>2, <3>3, <3>7, <3>8 DEF SourceInv
    <2> QED BY <2>5, <2>6
  <1> QED BY <1>6, <1>9, <1>10, <1>11

LEMMA ReadByFidStep ==
  ASSUME SourceInv, ReadByFidNext
  PROVE  SourceInv' /\ UNCHANGED <<version, cursor, given, said>>
  <1>1. PICK k, c, fid : k = call /\ c = call.cursor /\ fid = call.fid
    OBVIOUS
  <1>2. k.kind = "read_by_fid" /\ k # NoCall /\ version \in DOMAIN Versions
    BY <1>1, TextsDiffer DEF ReadByFidNext, SourceInv
  <1>3. /\ DOMAIN k = CallFields /\ k.began = c.opened
        /\ c.query = DefaultQuery /\ c.ordered_fids = <<>> /\ fid \in Nat \ {0}
        /\ c.prefetched # NoRow => Exists(c.prefetched, c.opened)
        /\ \E got : /\ CursorOK(version, c, got, "none")
                    /\ \A i \in 1 .. Len(got) : got[i] < fid
    BY <1>1, <1>2 DEF SourceInv, CallOK
  <1>4. PICK got : /\ CursorOK(version, c, got, "none")
                   /\ \A i \in 1 .. Len(got) : got[i] < fid
    BY <1>3
  <1>5. PICK o \in feature_next(c) :
          CASE o.returned = Error -> Answers(k, "error", <<fid>>)
            [] o.returned = NoRow \/ o.returned > fid -> Answers(k, "missing", <<fid>>)
            [] o.returned = fid -> Answers(k, "ok", <<fid>>)
            [] OTHER -> Goes(o.cursor, <<>>)
    BY <1>1 DEF ReadByFidNext
  <1>6. PICK d, r : d = o.cursor /\ r = o.returned
    OBVIOUS
  <1>7. /\ r \in {NoRow, Error} \cup AllFids
        /\ d.opened = c.opened /\ d.query = c.query /\ d.ordered_fids = c.ordered_fids
        /\ CursorOK(version, d, Given(got, r), Says("none", r))
    BY <1>2, <1>4, <1>6, FeatureNextKeeps DEF StillOK
  <1>8. Len(got) \in Nat /\ got \in Seq(AllFids) /\ \A i \in 1 .. Len(got) : got[i] \in AllFids
    BY <1>4, LineIs
  <1>9. NoRow = 0 /\ Error = -1 /\ AllFids \subseteq Nat \ {0}
    BY DEF NoRow, Error, AllFids
  <1>10. c.opened \in 1 .. version /\ Everything(d) /\ version \in Nat
    <2>1. DefaultQuery.offset = 0 /\ DefaultQuery.limit = 0
      BY DEF DefaultQuery, Query
    <2>2. c.opened \in 1 .. version
      BY <1>4 DEF CursorOK
    <2> QED BY <1>2, <1>3, <1>7, <2>1, <2>2, RowsAssumption DEF Everything
  <1>11. <<fid>>[1] = fid
    OBVIOUS
  <1>12. ASSUME fid \notin Steady(version, d), Answers(k, "missing", <<fid>>)
         PROVE  SourceInv' /\ UNCHANGED <<version, cursor, given, said>>
    <2>1. \E v \in c.opened .. version : ~Exists(fid, v)
      BY <1>2, <1>3, <1>7, <1>10, <1>12, NotSteady
    <2>2. WholeAnswer(k, "missing", <<fid>>)
      BY <1>2, <1>3, <1>11, <2>1, TextsDiffer DEF WholeAnswer
    <2> QED BY <1>2, <1>12, <2>2, AnswerStep
  <1>13. CASE r = Error
    <2>1. Answers(k, "error", <<fid>>)
      BY <1>3, <1>5, <1>6, <1>9, <1>13
    <2>2. WholeAnswer(k, "error", <<fid>>)
      BY <1>2, TextsDiffer DEF WholeAnswer
    <2> QED BY <1>2, <2>1, <2>2, AnswerStep
  <1>14. CASE r = NoRow
    <2>1. Answers(k, "missing", <<fid>>)
      BY <1>3, <1>5, <1>6, <1>9, <1>14
    <2>2. Given(got, r) = got /\ Says("none", r) = "end"
      BY <1>14 DEF Given, Says
    <2>3. AllGiven(version, d, got)
      BY <1>7, <2>2 DEF CursorOK
    <2>4. fid \notin Steady(version, d)
      <3> SUFFICES ASSUME fid \in Steady(version, d) PROVE FALSE
        OBVIOUS
      <3>1. PICK i \in 1 .. Len(got) : got[i] = fid
        BY <1>10, <2>3 DEF AllGiven
      <3> QED BY <1>3, <1>4, <3>1
    <2> QED BY <1>12, <2>1, <2>4
  <1>15. ASSUME r \in AllFids PROVE SourceInv' /\ UNCHANGED <<version, cursor, given, said>>
    <2>1. r \notin {NoRow, Error} /\ r \in Nat /\ r # 0
      BY <1>9, <1>15
    <2>2. PICK longer : longer = Append(got, r)
      OBVIOUS
    <2>3. Given(got, r) = longer /\ Says("none", r) = "none"
      BY <2>1, <2>2 DEF Given, Says, Fails
    <2>4. /\ CursorOK(version, d, longer, "none") /\ Len(longer) = Len(got) + 1
          /\ longer[Len(got) + 1] = r /\ \A i \in 1 .. Len(got) : longer[i] = got[i]
      BY <1>7, <1>8, <1>15, <2>2, <2>3, AppendProperties
    <2>5. /\ d.prefetched = NoRow
          /\ Exists(r, c.opened) \/ Exists(r, version)
      BY <1>2, <1>3, <1>4, <1>6, <2>1, RowReturned
    <2>6. CASE r > fid
      <3>1. Answers(k, "missing", <<fid>>)
        BY <1>5, <1>6, <2>1, <2>6
      <3>2. fid \notin Steady(version, d)
        <4> SUFFICES ASSUME fid \in Steady(version, d) PROVE FALSE
          OBVIOUS
        <4>1. Len(got) + 1 \in 1 .. Len(longer) /\ fid <= longer[Len(got) + 1]
          BY <1>3, <1>8, <2>1, <2>4, <2>6
        <4>2. PICK j \in 1 .. Len(longer) : longer[j] = fid
          BY <1>2, <1>10, <2>4, <2>5, <4>1, NoneMissed
        <4>3. j \in 1 .. Len(got) \/ j = Len(got) + 1
          BY <1>8, <2>4
        <4> QED BY <1>3, <1>4, <2>1, <2>4, <2>6, <4>2, <4>3
      <3> QED BY <1>12, <3>1, <3>2
    <2>7. CASE r = fid
      <3>1. Answers(k, "ok", <<fid>>)
        BY <1>5, <1>6, <1>3, <2>1, <2>7
      <3>2. c.opened \in c.opened .. version /\ version \in c.opened .. version
        BY <1>10
      <3>3. \E v \in c.opened .. version : Exists(fid, v)
        BY <2>5, <2>7, <3>2
      <3>4. WholeAnswer(k, "ok", <<fid>>)
        BY <1>2, <1>3, <1>11, <3>3, TextsDiffer DEF WholeAnswer
      <3> QED BY <1>2, <3>1, <3>4, AnswerStep
    <2>8. CASE r < fid
      <3>1. Goes(d, <<>>)
        BY <1>3, <1>5, <1>6, <2>1, <2>8
      <3>2. PICK m : m = call'
        OBVIOUS
      <3>3. m = [k EXCEPT !.cursor = d, !.batch = <<>>] /\ version' = version /\ answer' = answer
            /\ UNCHANGED <<version, cursor, given, said>>
        BY <1>1, <3>1, <3>2 DEF Goes
      <3>4. /\ DOMAIN m = CallFields /\ m.kind = "read_by_fid" /\ m.cursor = d /\ m.fid = k.fid
            /\ m.began = k.began
        BY <1>2, <1>3, <3>3 DEF CallFields
      <3>5. \A i \in 1 .. Len(longer) : longer[i] < fid
        <4> SUFFICES ASSUME NEW i \in 1 .. Len(longer) PROVE longer[i] < fid
          OBVIOUS
        <4>1. i \in 1 .. Len(got) \/ i = Len(got) + 1
          BY <1>8, <2>4
        <4> QED BY <1>4, <2>4, <2>8, <4>1
      <3>6. CallOK(version, m)
        <4>1. m.fid = fid /\ m.kind \in {"read_all", "read_by_fid"} /\ m.kind # "read_all"
          BY <1>1, <3>4, TextsDiffer
        <4>2. m.began = m.cursor.opened /\ m.cursor.query = DefaultQuery
              /\ m.cursor.ordered_fids = <<>> /\ m.cursor.prefetched = NoRow
          BY <1>3, <1>7, <2>5, <3>4
        <4>3. \E any : /\ CursorOK(version, m.cursor, any, "none")
                       /\ \A i \in 1 .. Len(any) : any[i] < m.fid
          BY <2>4, <3>4, <3>5, <4>1
        <4> QED BY <1>3, <3>4, <4>1, <4>2, <4>3 DEF CallOK
      <3>7. CallOK(version', call')
        BY <3>2, <3>3, <3>6
      <3>8. /\ answer'.kind = "count" => answer'.ended \in 1 .. version'
            /\ CallsAnswerWhole'
        BY <3>3 DEF SourceInv, CallsAnswerWhole
      <3> QED BY <1>2, <3>3, <3>7, <3>8 DEF SourceInv
    <2> QED BY <1>3, <2>1, <2>6, <2>7, <2>8
  <1> QED BY <1>7, <1>13, <1>14, <1>15

-----------------------------------------------------------------------------
(* Every step of the rows keeps the invariant.                             *)

LEMMA CallOutlives ==
  ASSUME NEW v \in Nat, NEW k, CallOK(v, k)
  PROVE  CallOK(v + 1, k)
  <1> SUFFICES ASSUME k # NoCall PROVE CallOK(v + 1, k)
    BY DEF CallOK
  <1>1. CASE k.kind = "read_all"
    <2>1. CursorOK(v + 1, k.cursor, k.batch, "none")
      BY <1>1, Outlives DEF CallOK
    <2> QED BY <1>1, <2>1, TextsDiffer DEF CallOK
  <1>2. CASE k.kind = "read_by_fid"
    <2>1. PICK got : /\ CursorOK(v, k.cursor, got, "none")
                     /\ \A i \in 1 .. Len(got) : got[i] < k.fid
      BY <1>2 DEF CallOK
    <2>2. CursorOK(v + 1, k.cursor, got, "none")
      BY <2>1, Outlives
    <2> QED BY <1>2, <2>1, <2>2, TextsDiffer DEF CallOK
  <1> QED BY <1>1, <1>2 DEF CallOK

\* A Writer leaves the caller and the calls alone.
LEMMA WriterKeeps ==
  ASSUME SourceInv, WriterStep
  PROVE  /\ SourceInv' /\ (CallerInv => CallerInv')
         /\ version' = version \/ version' = version + 1
         /\ UNCHANGED <<cursor, given, said, answer>>
  <1>1. /\ call' = call /\ UNCHANGED <<cursor, given, said, answer>>
        /\ version' = version \/ (version' = version + 1 /\ version < Len(Versions))
    BY DEF WriterStep, WriterBegins, WriterChanges, WriterEnds
  <1>2. version \in Nat /\ version \in 1 .. Len(Versions) /\ Len(Versions) \in Nat
        /\ DOMAIN Versions = 1 .. Len(Versions)
    BY RowsAssumption DEF SourceInv
  <1>3. CASE version' = version
    <2>1. SourceInv'
      BY <1>1, <1>3, QuietStep
    <2>2. CallerInv => CallerInv'
      BY <1>1, <1>3 DEF CallerInv
    <2> QED BY <1>1, <2>1, <2>2
  <1>4. CASE version' = version + 1 /\ version < Len(Versions)
    <2>1. version' \in DOMAIN Versions
      BY <1>2, <1>4
    <2>2. CallOK(version + 1, call)
      BY <1>2, CallOutlives DEF SourceInv
    <2>3. CallOK(version', call')
      BY <1>1, <1>4, <2>2
    <2>4. CallsAnswerWhole'
      BY <1>1 DEF SourceInv, CallsAnswerWhole
    <2>5. answer'.kind = "count" => answer'.ended \in 1 .. version'
      <3> SUFFICES ASSUME answer.kind = "count" PROVE answer.ended \in 1 .. version + 1
        BY <1>1, <1>4
      <3>1. answer.ended \in 1 .. version
        BY DEF SourceInv
      <3> QED BY <1>2, <3>1
    <2>6. SourceInv'
      BY <2>1, <2>3, <2>4, <2>5 DEF SourceInv
    <2>7. CallerInv => CallerInv'
      <3> SUFFICES ASSUME CallerInv, cursor' # NoCursor
                   PROVE  CursorOK(version', cursor', given', said')
        BY DEF CallerInv
      <3>1. CursorOK(version + 1, cursor, given, said)
        BY <1>1, <1>2, Outlives DEF CallerInv
      <3> QED BY <1>1, <1>4, <3>1
    <2> QED BY <1>1, <1>4, <2>6, <2>7
  <1> QED BY <1>1, <1>3, <1>4

\* A call that begins.
LEMMA ReadAllBegins ==
  ASSUME SourceInv, NEW query, query.offset \in Nat, query.limit \in Nat, NEW max \in Nat,
         ReadAll(query, max)
  PROVE  SourceInv' /\ UNCHANGED <<version, cursor, given, said>>
  <1>1. PICK c \in open_cursor(query) : c # NoCursor /\ Begins(Call("read_all", query, max), c, 0)
    BY DEF ReadAll
  <1>2. version \in DOMAIN Versions
    BY DEF SourceInv
  <1>3. CursorOK(version, c, <<>>, "none") /\ c.opened = version /\ c.query = query
    BY <1>1, <1>2, Opens DEF JustOpened
  <1>4. PICK m : m = call'
    OBVIOUS
  <1>5. m = [kind |-> "read_all", query |-> query, max |-> max, began |-> version,
             cursor |-> c, fid |-> 0, batch |-> <<>>]
        /\ answer' = NoAnswer /\ UNCHANGED <<version, cursor, given, said>>
    BY <1>1, <1>4 DEF Begins, Call
  <1>6. /\ DOMAIN m = CallFields /\ m.kind = "read_all" /\ m.cursor = c /\ m.batch = <<>>
        /\ m.query = query /\ m.max = max /\ m.began = version
    BY <1>5 DEF CallFields
  <1>7. CallOK(version, m)
    <2>1. Len(<<>>) = 0
      BY EmptySeq
    <2> QED BY <1>3, <1>6, <2>1, TextsDiffer DEF CallOK
  <1>8. CallOK(version', call')
    BY <1>4, <1>5, <1>7
  <1>9. CallsAnswerWhole' /\ answer'.kind # "count"
    BY <1>5, TextsDiffer DEF CallsAnswerWhole
  <1> QED BY <1>2, <1>5, <1>8, <1>9 DEF SourceInv

\* Looking up a FID.
LEMMA ReadByFidBegins ==
  ASSUME SourceInv, NEW fid \in SomeFids, ReadByFid(fid)
  PROVE  SourceInv' /\ UNCHANGED <<version, cursor, given, said>>
  <1>1. PICK c \in open_cursor(DefaultQuery) :
           c # NoCursor /\ Begins(Call("read_by_fid", DefaultQuery, 0), c, fid)
    BY DEF ReadByFid
  <1>2. version \in DOMAIN Versions
    BY DEF SourceInv
  <1>3. DefaultQuery.offset = 0 /\ DefaultQuery.limit = 0 /\ DefaultQuery.order = "Native"
    BY DEF DefaultQuery, Query
  <1>4. JustOpened(c, DefaultQuery)
    <2>1. DefaultQuery.offset \in Nat /\ DefaultQuery.limit \in Nat
      BY <1>3
    <2> QED BY <1>1, <1>2, <2>1, Opens
  <1>5. PICK m : m = call'
    OBVIOUS
  <1>6. m = [kind |-> "read_by_fid", query |-> DefaultQuery, max |-> 0, began |-> version,
             cursor |-> c, fid |-> fid, batch |-> <<>>]
        /\ answer' = NoAnswer /\ UNCHANGED <<version, cursor, given, said>>
    BY <1>1, <1>5 DEF Begins, Call
  <1>7. /\ DOMAIN m = CallFields /\ m.kind = "read_by_fid" /\ m.cursor = c /\ m.fid = fid
        /\ m.began = version
    BY <1>6 DEF CallFields
  <1>8. CallOK(version, m)
    <2>1. \A i \in 1 .. Len(<<>>) : FALSE
      BY EmptySeq
    <2>2. CursorOK(version, c, <<>>, "none")
      BY <1>4 DEF JustOpened
    <2>3. \E got : /\ CursorOK(version, c, got, "none")
                   /\ \A i \in 1 .. Len(got) : got[i] < fid
      BY <2>1, <2>2
    <2>4. fid \in Nat \ {0}
      BY RowsAssumption DEF SomeFids
    <2>5. /\ c.query = DefaultQuery /\ c.ordered_fids = <<>> /\ c.opened = version
          /\ c.prefetched # NoRow => Exists(c.prefetched, version)
      BY <1>3, <1>4 DEF JustOpened
    <2> QED BY <1>7, <2>3, <2>4, <2>5, TextsDiffer DEF CallOK
  <1>9. CallOK(version', call')
    BY <1>5, <1>6, <1>8
  <1>10. CallsAnswerWhole' /\ answer'.kind # "count"
    BY <1>6, TextsDiffer DEF CallsAnswerWhole
  <1> QED BY <1>2, <1>6, <1>9, <1>10 DEF SourceInv

LEMMA ByGdalKeeps ==
  ASSUME SourceInv, NEW fid, ByGdal(fid)
  PROVE  SourceInv' /\ UNCHANGED <<version, cursor, given, said>>
  <1>1. PICK k : k = Call("read_by_fid", DefaultQuery, 0)
    OBVIOUS
  <1>2. k.kind = "read_by_fid" /\ k.began = version
    BY <1>1 DEF Call
  <1>3. PICK status \in {IF Exists(fid, version) THEN "ok" ELSE "missing", "error"} :
           Answers(k, status, <<fid>>)
    BY <1>1 DEF ByGdal
  <1>4. WholeAnswer(k, status, <<fid>>)
    <2>1. version \in k.began .. version /\ <<fid>>[1] = fid
      BY <1>2, RowsAssumption DEF SourceInv
    <2>2. /\ status = "ok" => Exists(fid, version)
          /\ status = "missing" => ~Exists(fid, version)
      BY <1>3, TextsDiffer
    <2> QED BY <1>2, <2>1, <2>2, TextsDiffer DEF WholeAnswer
  <1>5. SourceInv'
    BY <1>2, <1>3, <1>4, AnswerStep
  <1>6. UNCHANGED <<version, cursor, given, said>>
    BY <1>3 DEF Answers
  <1> QED BY <1>5, <1>6

LEMMA CursorNextKeeps ==
  ASSUME SourceInv, CallerInv, CursorNext
  PROVE  SourceInv' /\ CallerInv'
  <1>1. version' = version /\ call' = call /\ answer' = answer /\ version \in DOMAIN Versions
        /\ cursor # NoCursor
    BY DEF CursorNext, SourceInv
  <1>2. PICK o \in feature_next(cursor) :
          /\ cursor' = o.cursor
          /\ given' = IF o.returned \in {NoRow, Error} THEN given
                      ELSE Append(given, o.returned)
          /\ said' = CASE said # "none" -> said
                       [] said = "none" /\ o.returned = Error -> "error"
                       [] said = "none" /\ o.returned = NoRow -> "end"
                       [] OTHER -> "none"
    BY DEF CursorNext
  <1>3. CursorOK(version, cursor, given, said)
    BY <1>1 DEF CallerInv
  <1>4. CursorOK(version, o.cursor, Given(given, o.returned), Says(said, o.returned))
    BY <1>1, <1>3, FeatureNextKeeps DEF StillOK
  <1>5. given' = Given(given, o.returned)
    BY <1>2 DEF Given
  <1>6. said' = Says(said, o.returned)
    <2>1. PICK r, s : r = o.returned /\ s = said
      OBVIOUS
    <2>2. said' = CASE s # "none" -> s
                    [] s = "none" /\ r = Error -> "error"
                    [] s = "none" /\ r = NoRow -> "end"
                    [] OTHER -> "none"
      BY <1>2, <2>1
    <2>3. NoRow # Error
      BY DEF NoRow, Error
    <2>4. CASE s # "none"
      BY <2>1, <2>2, <2>4 DEF Says, Fails
    <2>5. CASE s = "none"
      BY <2>1, <2>2, <2>3, <2>5 DEF Says, Fails
    <2> QED BY <2>4, <2>5
  <1>7. CursorOK(version', cursor', given', said')
    BY <1>1, <1>2, <1>4, <1>5, <1>6
  <1>8. SourceInv'
    BY <1>1, QuietStep
  <1> QED BY <1>7, <1>8 DEF CallerInv

LEMMA CallStepKeeps ==
  ASSUME SourceInv, CallStep
  PROVE  SourceInv' /\ UNCHANGED <<version, cursor, given, said>>
  BY ReadAllStep, ReadByFidStep DEF CallStep

LEMMA CallerStepKeeps ==
  ASSUME SourceInv, CallerInv, CallerStep
  PROVE  SourceInv' /\ CallerInv'
  <1>0. version \in DOMAIN Versions /\ NoAnswer.kind = "none"
    BY TextsDiffer DEF SourceInv
  <1>1. ASSUME NEW query \in Queries, OpenCursor(query)
        PROVE  SourceInv' /\ CallerInv'
    <2>1. /\ cursor' \in open_cursor(query) /\ given' = <<>> /\ said' = "none"
          /\ answer' = NoAnswer /\ version' = version /\ call' = call
      BY <1>1 DEF OpenCursor
    <2>2. query.offset \in Nat /\ query.limit \in Nat
      BY RowsAssumption
    <2>3. ASSUME cursor' # NoCursor PROVE CursorOK(version', cursor', given', said')
      <3>1. PICK c : c = cursor'
        OBVIOUS
      <3>2. CursorOK(version, c, <<>>, "none")
        BY <1>0, <2>1, <2>2, <2>3, <3>1, Opens DEF JustOpened
      <3> QED BY <2>1, <3>1, <3>2
    <2>4. SourceInv'
      BY <1>0, <2>1, QuietStep, TextsDiffer
    <2> QED BY <2>3, <2>4 DEF CallerInv
  <1>2. ASSUME CursorClose PROVE SourceInv' /\ CallerInv'
    <2>1. cursor' = NoCursor /\ version' = version /\ call' = call /\ answer' = answer
      BY <1>2 DEF CursorClose
    <2> QED BY <2>1, QuietStep DEF CallerInv
  <1>3. ASSUME Stop PROVE SourceInv' /\ CallerInv'
    <2>1. /\ version' = version /\ call' = call /\ answer' = answer
          /\ cursor' = cursor /\ given' = given /\ said' = said
      BY <1>3 DEF Stop
    <2> QED BY <2>1, QuietStep DEF CallerInv
  <1>4. ASSUME NEW query \in Queries, NEW max \in Limits, ReadAll(query, max)
        PROVE  SourceInv' /\ UNCHANGED <<version, cursor, given, said>>
    <2>1. query.offset \in Nat /\ query.limit \in Nat /\ max \in Nat
      BY RowsAssumption
    <2> QED BY <1>4, <2>1, ReadAllBegins
  <1>5. ASSUME UNCHANGED <<version, cursor, given, said>> PROVE CallerInv'
    BY <1>5 DEF CallerInv
  <1> QED BY <1>1, <1>2, <1>3, <1>4, <1>5, CursorNextKeeps, ReadByFidBegins, ByGdalKeeps
      DEF CallerStep

LEMMA RowsStep ==
  ASSUME RowsInv, [RowsNext]_rvars
  PROVE  RowsInv'
  <1>1. CASE CallerStep
    BY <1>1, CallerStepKeeps DEF RowsInv
  <1>2. CASE CallStep
    <2>1. SourceInv' /\ UNCHANGED <<version, cursor, given, said>>
      BY <1>2, CallStepKeeps DEF RowsInv
    <2> QED BY <2>1 DEF RowsInv, CallerInv
  <1>3. CASE WriterStep
    BY <1>3, WriterKeeps DEF RowsInv
  <1>4. CASE UNCHANGED rvars
    <2>1. UNCHANGED <<version, cursor, given, said, call, answer>>
      BY <1>4 DEF rvars
    <2>2. SourceInv'
      BY <2>1, QuietStep DEF RowsInv
    <2> QED BY <2>1, <2>2 DEF RowsInv, CallerInv
  <1> QED BY <1>1, <1>2, <1>3, <1>4 DEF RowsNext

LEMMA RowsStart ==
  ASSUME RowsInit
  PROVE  RowsInv
  <1>1. version = 1 /\ call = NoCall /\ answer = NoAnswer /\ cursor = NoCursor
    BY DEF RowsInit
  <1>2. version \in DOMAIN Versions
    BY <1>1, RowsAssumption
  <1>3. CallsAnswerWhole /\ answer.kind # "count"
    BY <1>1, TextsDiffer DEF CallsAnswerWhole
  <1> QED BY <1>1, <1>2, <1>3 DEF RowsInv, SourceInv, CallerInv, CallOK

\* What the invariant says of the caller's cursor.
LEMMA CallerGets ==
  ASSUME SourceInv, CallerInv
  PROVE  CursorGivesResult
  <1> SUFFICES ASSUME cursor # NoCursor PROVE CursorGivesResult
    BY DEF CursorGivesResult
  <1>1. version \in DOMAIN Versions /\ CursorOK(version, cursor, given, said)
    BY DEF SourceInv, CallerInv
  <1>2. /\ Ascending(given) /\ DOMAIN given = 1 .. Len(given)
        /\ cursor.query.limit > 0 => Len(given) <= cursor.query.limit
        /\ cursor.opened = version =>
             /\ said = "none" => IsPrefix(given, Result(version, cursor.query))
             /\ said = "end" => given = Result(version, cursor.query)
             /\ \A i \in 1 .. Len(given) : given[i] \in MatchingFids(version, cursor.query)
    BY <1>1, CursorGives
  <1> QED BY <1>2 DEF CursorGivesResult

-----------------------------------------------------------------------------
(* Cursors and calls of the unified facade.                                *)

\* A cursor, a call in progress and its answer are as the rows of the source
\* allow, whatever Writers do between two calls.
THEOREM RowsInvariant == RowsSpec => []RowsInv
  <1>1. RowsInit => RowsInv
    BY RowsStart
  <1>2. RowsInv /\ [RowsNext]_rvars => RowsInv'
    BY RowsStep
  <1> QED BY <1>1, <1>2, PTL DEF RowsSpec

\* FeatureCursor::next gives the result in order, each row once, within the
\* limit, and all of it before it says that it is at its end.
THEOREM RowsCursorGivesResult == RowsSpec => []CursorGivesResult
  <1>1. RowsInv => CursorGivesResult
    BY CallerGets DEF RowsInv
  <1> QED BY <1>1, RowsInvariant, PTL

\* read_all and read_by_fid answer for all the rows.
THEOREM RowsCallsAnswerWhole == RowsSpec => []CallsAnswerWhole
  <1>1. RowsInv => CallsAnswerWhole
    BY DEF RowsInv, SourceInv
  <1> QED BY <1>1, RowsInvariant, PTL

-----------------------------------------------------------------------------
(* The layer of the driver.                                                *)

LEMMA WantedIs ==
  ASSUME version \in DOMAIN Versions
  PROVE  /\ \A f : f \in WantedFids <=>
                     \E row \in RowsAt(version) :
                        /\ row.fid = f
                        /\ attribute_filter = NoFilter \/ attribute_filter \in row.filters
                        /\ filter_geom = NoFilter \/ filter_geom \in row.areas
         /\ WantedFids \in SUBSET AllFids
  <1>1. \A f : f \in WantedFids <=>
                 \E row \in RowsAt(version) :
                    /\ row.fid = f
                    /\ attribute_filter = NoFilter \/ attribute_filter \in row.filters
                    /\ filter_geom = NoFilter \/ filter_geom \in row.areas
    BY DEF WantedFids, Fids
  <1> QED BY <1>1, RowsAre

LEMMA DriverQueryIs ==
  /\ DriverQuery.offset = 0 /\ DriverQuery.limit = 0 /\ DriverQuery.order = "Native"
  /\ DriverQuery.offset \in Nat /\ DriverQuery.limit \in Nat
  /\ DriverQuery.attribute_filter = attribute_filter
  /\ DriverQuery.spatial_filter = spatial_filter
  BY DEF DriverQuery, Query

\* The cursor's filters let through what the layer wants, if they agree with
\* OGR's.
LEMMA WantedMatches ==
  ASSUME version \in DOMAIN Versions, Agreed,
         filter_geom \in Geometries \cup {NoFilter}
  PROVE  WantedFids \subseteq MatchingFids(version, DriverQuery)
  <1> SUFFICES ASSUME NEW f \in WantedFids PROVE f \in MatchingFids(version, DriverQuery)
    OBVIOUS
  <1>1. PICK row \in RowsAt(version) :
           /\ row.fid = f
           /\ attribute_filter = NoFilter \/ attribute_filter \in row.filters
           /\ filter_geom = NoFilter \/ filter_geom \in row.areas
    BY WantedIs
  <1>2. spatial_filter = NoFilter \/ spatial_filter \in row.areas
    <2>1. CASE filter_geom = NoFilter
      BY <2>1 DEF Agreed
    <2>2. CASE filter_geom # NoFilter
      <3>1. filter_geom \in DOMAIN EnvelopeOf /\ filter_geom \in row.areas
        BY <1>1, <2>2, DriverAssumption
      <3>2. EnvelopeOf[filter_geom] \in row.areas
        BY <3>1, DriverAssumption
      <3> QED BY <2>2, <3>2 DEF Agreed
    <2> QED BY <2>1, <2>2
  <1>3. Matches(row, DriverQuery)
    BY <1>1, <1>2, DriverQueryIs DEF Matches
  <1> QED BY <1>1, <1>3, MatchingIs

\* A list of what a beginning of the matching rows has of the wanted ones is a
\* beginning of these.
LEMMA WantedFront ==
  ASSUME NEW M \in SUBSET AllFids, NEW W \in SUBSET M,
         NEW got, Len(got) \in Nat, Len(got) <= Len(InOrder(M)),
         \A i \in 1 .. Len(got) : got[i] = InOrder(M)[i],
         NEW list \in Seq(AllFids), Ascending(list),
         \A i \in 1 .. Len(list) : list[i] \in W /\ \E j \in 1 .. Len(got) : got[j] = list[i],
         \A j \in 1 .. Len(got) : got[j] \in W => \E i \in 1 .. Len(list) : list[i] = got[j]
  PROVE  /\ IsPrefix(list, InOrder(W))
         /\ Len(got) = Len(InOrder(M)) => list = InOrder(W)
  <1>1. PICK all, T : /\ all = InOrder(M)
                      /\ T = {f \in W : \E i \in 1 .. Len(list) : list[i] = f}
    OBVIOUS
  <1>2. /\ all \in Seq(AllFids) /\ Len(all) \in Nat
        /\ \A i \in 1 .. Len(all) : all[i] \in M /\ all[i] \in AllFids
        /\ \A i, j \in 1 .. Len(all) : i < j => all[i] < all[j]
        /\ \A f \in M : \E i \in 1 .. Len(all) : all[i] = f
    BY <1>1, InOrderIs
  <1>3. W \in SUBSET AllFids /\ W \subseteq Nat /\ T \subseteq W
    <2>1. W \in SUBSET AllFids /\ T \subseteq W
      BY <1>1
    <2> QED BY <2>1, AllFidsList
  <1>4. Len(list) \in Nat /\ DOMAIN list = 1 .. Len(list)
    BY LenProperties
  <1>5. Lists(list, T)
    <2>1. \A i \in 1 .. Len(list) : list[i] \in T
      BY <1>1
    <2>2. list \in Seq(T)
      <3>1. PICK n \in Nat : n = Len(list)
        BY <1>4
      <3>2. list \in [1 .. n -> AllFids]
        BY <3>1, LenProperties
      <3>3. list = [i \in 1 .. n |-> list[i]]
        BY <3>2
      <3>4. \A i \in 1 .. n : list[i] \in T
        BY <2>1, <3>1
      <3>5. [i \in 1 .. n |-> list[i]] \in [1 .. n -> T]
        BY <3>4
      <3>6. list \in [1 .. n -> T]
        BY <3>3, <3>5
      <3> QED BY <3>6, SeqDef
    <2>3. \A i, j \in 1 .. Len(list) : i < j => list[i] < list[j]
      BY <1>4 DEF Ascending
    <2>4. \A f \in T : \E i \in 1 .. Len(list) : list[i] = f
      BY <1>1
    <2> QED BY <2>2, <2>3, <2>4 DEF Lists
  <1>6. Below(T, W)
    <2> SUFFICES ASSUME NEW x \in T, NEW y \in W \ T PROVE x < y
      BY <1>3 DEF Below
    <2>1. PICK j \in 1 .. Len(got) : got[j] = x
      BY <1>1
    <2>2. PICK k \in 1 .. Len(all) : all[k] = y
      BY <1>2
    <2>3. ~(k \in 1 .. Len(got))
      <3> SUFFICES ASSUME k \in 1 .. Len(got) PROVE FALSE
        OBVIOUS
      <3>1. got[k] = y
        BY <1>1, <2>2
      <3>2. \E i \in 1 .. Len(list) : list[i] = y
        BY <3>1
      <3> QED BY <1>1, <3>2
    <2>4. j \in 1 .. Len(all) /\ j < k
      BY <1>1, <1>2, <2>1, <2>2, <2>3
    <2>5. all[j] = x
      BY <1>1, <2>1
    <2> QED BY <1>2, <2>2, <2>4, <2>5
  <1>7. Lists(InOrder(W), W) /\ InOrder(W) \in Seq(AllFids)
    BY <1>3, InOrderLists, InOrderIs
  <1>8. IsFront(list, InOrder(W))
    BY <1>3, <1>5, <1>6, <1>7, ListsFront
  <1>9. IsPrefix(list, InOrder(W))
    BY <1>7, <1>8, PrefixFrom DEF IsFront
  <1>10. ASSUME Len(got) = Len(all) PROVE list = InOrder(W)
    <2>1. W \subseteq T
      <3> SUFFICES ASSUME NEW f \in W PROVE f \in T
        OBVIOUS
      <3>1. PICK k \in 1 .. Len(all) : all[k] = f
        BY <1>2
      <3>2. k \in 1 .. Len(got) /\ got[k] = f
        BY <1>1, <1>10, <3>1
      <3> QED BY <1>1, <3>2
    <2>2. T = W
      BY <1>3, <2>1
    <2> QED BY <1>3, <1>5, <1>7, <2>2, ListsUnique
  <1> QED BY <1>1, <1>9, <1>10

\* What the features are once a cursor has given `got` and said s.
LEMMA FeaturesAre ==
  ASSUME version \in DOMAIN Versions, LayerInv, NEW c, NEW got, NEW s,
         CursorOK(version, c, got, s), c.query = DriverQuery, Lets(got),
         c.opened = version, cursor.opened = version,
         Agreed, ~cursor_error, s = "none" \/ s = "end"
  PROVE  /\ IsPrefix(features, Wanted)
         /\ s = "end" => features = Wanted
  <1>1. PICK M, W : M = MatchingFids(version, DriverQuery) /\ W = WantedFids
    OBVIOUS
  <1>2. M \in SUBSET AllFids /\ W \in SUBSET M
    BY <1>1, MatchingIs, WantedMatches DEF LayerInv
  <1>3. Result(version, DriverQuery) = InOrder(M)
    BY <1>1, DriverQueryIs, ResultAscends DEF Matching
  <1>4. /\ s = "none" => /\ Len(got) <= Len(InOrder(M))
                         /\ \A i \in 1 .. Len(got) : got[i] = InOrder(M)[i]
        /\ s = "end" => got = InOrder(M)
    BY <1>3, CursorGives
  <1>5. Len(got) \in Nat /\ features \in Seq(AllFids) /\ Ascending(features)
    BY LineIs DEF LayerInv
  <1>6. /\ Len(got) <= Len(InOrder(M))
        /\ \A i \in 1 .. Len(got) : got[i] = InOrder(M)[i]
    BY <1>4, <1>5
  <1>7. /\ \A i \in 1 .. Len(features) :
              features[i] \in W /\ \E j \in 1 .. Len(got) : got[j] = features[i]
        /\ \A j \in 1 .. Len(got) :
              got[j] \in W => \E i \in 1 .. Len(features) : features[i] = got[j]
    BY <1>1 DEF Lets
  <1>8. /\ IsPrefix(features, InOrder(W))
        /\ Len(got) = Len(InOrder(M)) => features = InOrder(W)
    BY <1>2, <1>5, <1>6, <1>7, WantedFront
  <1> QED BY <1>1, <1>4, <1>8 DEF Wanted

\* What the invariant says of the features.
LEMMA LayerGets ==
  ASSUME version \in DOMAIN Versions, LayerInv, NEW got, NEW s, LayerReads(got, s),
         cursor.opened = version
  PROVE  /\ \A i \in 1 .. Len(features) : features[i] \in WantedFids
         /\ Agreed /\ ~cursor_error =>
              /\ IsPrefix(features, Wanted)
              /\ s = "end" => features = Wanted
  <1>1. /\ CursorOK(version, cursor, got, s) /\ cursor.query = DriverQuery /\ Lets(got)
        /\ ~cursor_error => s = "none" \/ s = "end"
    BY DEF LayerReads, CursorOK
  <1>2. \A i \in 1 .. Len(features) : features[i] \in WantedFids
    BY <1>1 DEF Lets
  <1>3. ASSUME Agreed, ~cursor_error
        PROVE  IsPrefix(features, Wanted) /\ (s = "end" => features = Wanted)
    BY <1>1, <1>3, FeaturesAre
  <1> QED BY <1>2, <1>3

-----------------------------------------------------------------------------
(* What the layer's steps leave as it is.                                  *)

LEMMA SameFilters ==
  ASSUME UNCHANGED <<version, attribute_filter, spatial_filter, filter_geom>>
  PROVE  /\ WantedFids' = WantedFids /\ Wanted' = Wanted /\ DriverQuery' = DriverQuery
         /\ Agreed' <=> Agreed
  <1>1. WantedFids' = WantedFids
    BY DEF WantedFids
  <1>2. Wanted' = Wanted
    BY <1>1 DEF Wanted
  <1>3. DriverQuery' = DriverQuery
    BY DEF DriverQuery
  <1>4. Agreed' <=> Agreed
    BY DEF Agreed
  <1> QED BY <1>1, <1>2, <1>3, <1>4

LEMMA NotNoCursor ==
  ASSUME NEW v, NEW c, NEW got, NEW s, CursorOK(v, c, got, s)
  PROVE  c # NoCursor
  <1>1. "closed" \in DOMAIN c /\ "closed" \notin DOMAIN NoCursor
    BY DEF CursorOK, CursorFields, NoCursor
  <1> QED BY <1>1

LEMMA LayerUnchanged ==
  ASSUME LayerInv, UNCHANGED <<version, cursor, given, said, dvars>>
  PROVE  LayerInv'
  <1>1. /\ UNCHANGED <<version, attribute_filter, spatial_filter, filter_geom, attr_query>>
        /\ UNCHANGED <<cursor, given, said, cursor_error, features, ended>>
    BY DEF dvars
  <1>2. ASSUME NEW got, NEW s, LayerReads(got, s) PROVE LayerReads(got, s)'
    <2>1. Lets(got)'
      BY <1>1, <1>2, SameFilters DEF LayerReads, Lets
    <2> QED BY <1>1, <1>2, <2>1, SameFilters DEF LayerReads
  <1>3. (\E got, s : LayerReads(got, s)) => \E got, s : LayerReads(got, s)'
    BY <1>2
  <1> QED BY <1>1, <1>3 DEF LayerInv

LEMMA CountKept ==
  ASSUME CountInv, UNCHANGED <<version, attribute_filter, spatial_filter, filter_geom>>,
         answer' = answer \/ answer'.kind # "count"
  PROVE  CountInv'
  BY SameFilters DEF CountInv

LEMMA LayerReset ==
  ASSUME LayerInv, Reset, UNCHANGED <<given, said>>,
         attr_query' \in {NoFilter, attribute_filter'},
         filter_geom' \in Geometries \cup {NoFilter}
  PROVE  LayerInv'
  <1>1. cursor' = NoCursor /\ features' = <<>> /\ ended' = FALSE
    BY DEF Reset
  <1>2. <<>> \in Seq(AllFids) /\ Ascending(<<>>)
    BY EmptySeq DEF Ascending
  <1> QED BY <1>1, <1>2 DEF LayerInv


-----------------------------------------------------------------------------
(* GetNextFeature and GetFeatureCount.                                     *)

\* A step of the layer by which the source and the caller's part stay as they
\* are, and no call is answered but a count.
Apart ==
    /\ UNCHANGED <<version, call, given, said>>
    /\ UNCHANGED <<attribute_filter, spatial_filter, filter_geom, attr_query>>

LEMMA UnknownCount ==
  ASSUME SourceInv, Apart, CountIs(-1, version)
  PROVE  SourceInv' /\ CountInv'
  <1>1. /\ answer'.kind = "count" /\ answer'.count = -1 /\ answer'.ended = version
        /\ version' = version /\ call' = call
    BY DEF CountIs, Apart
  <1>2. version \in 1 .. version
    BY RowsAssumption DEF SourceInv
  <1>3. SourceInv'
    BY <1>1, <1>2, QuietStep, TextsDiffer
  <1> QED BY <1>1, <1>3 DEF CountInv

\* The count of the features is that of the rows that are wanted.
LEMMA KnownCount ==
  ASSUME SourceInv, LayerInv, Apart, cursor # NoCursor, ~cursor_error,
         NEW got, NEW s, LayerReads(got, s),
         NEW o \in feature_next(cursor), o.returned = NoRow,
         CountIs(Len(features), o.cursor.opened)
  PROVE  SourceInv' /\ CountInv'
  <1>1. /\ answer'.kind = "count" /\ answer'.count = Len(features)
        /\ answer'.began = o.cursor.opened /\ answer'.ended = version
        /\ version' = version /\ call' = call
    BY DEF CountIs, Apart
  <1>2. version \in 1 .. version /\ version \in DOMAIN Versions
    BY RowsAssumption DEF SourceInv
  <1>3. SourceInv'
    BY <1>1, <1>2, QuietStep, TextsDiffer
  <1>4. UNCHANGED <<version, attribute_filter, spatial_filter, filter_geom>>
    BY DEF Apart
  <1>5. ASSUME Agreed, o.cursor.opened = version PROVE features = Wanted
    <2>1. /\ CursorOK(version, cursor, got, s) /\ cursor.query = DriverQuery /\ Lets(got)
          /\ s = "none" \/ s = "end"
      BY DEF LayerReads, CursorOK
    <2>2. StillOK(cursor, got, s, o)
      BY <1>2, <2>1, FeatureNextKeeps
    <2>3. Given(got, o.returned) = got /\ Says(s, o.returned) = "end"
      BY <2>1, SaysIs DEF Given
    <2>4. /\ CursorOK(version, o.cursor, got, "end")
          /\ o.cursor.query = DriverQuery /\ cursor.opened = version
      BY <1>5, <2>1, <2>2, <2>3 DEF StillOK
    <2> QED BY <1>2, <1>5, <2>1, <2>4, FeaturesAre
  <1>6. CountInv'
    BY <1>1, <1>4, <1>5, SameFilters DEF CountInv
  <1> QED BY <1>3, <1>6

LEMMA EnsureCursorKeeps ==
  ASSUME SourceInv, LayerInv, CountInv, ensure_cursor
  PROVE  SourceInv' /\ LayerInv' /\ CountInv'
  <1>1. /\ Apart /\ cursor = NoCursor
        /\ UNCHANGED <<version, attribute_filter, spatial_filter, filter_geom>>
    BY DEF ensure_cursor, Apart, source, filters
  <1>2. /\ version \in DOMAIN Versions /\ given' = <<>> /\ said' = "none"
        /\ features = <<>> /\ (ended => cursor_error)
        /\ attr_query' \in {NoFilter, attribute_filter'}
        /\ filter_geom' \in Geometries \cup {NoFilter}
    BY <1>1 DEF SourceInv, LayerInv, Apart
  <1>3. <<>> \in Seq(AllFids) /\ Ascending(<<>>) /\ Len(<<>>) = 0
    BY EmptySeq DEF Ascending
  <1>4. PICK c \in open_cursor(DriverQuery) :
          IF c = NoCursor THEN ReturnsNull(NoCursor, TRUE)
          ELSE /\ cursor' = c
               /\ UNCHANGED <<cursor_error, features, ended, doing, answer>>
    BY DEF ensure_cursor
  <1>5. CASE c = NoCursor
    <2>1. ReturnsNull(NoCursor, TRUE)
      BY <1>4, <1>5
    <2>2. CASE doing = "next"
      <3>1. /\ cursor' = NoCursor /\ cursor_error' /\ features' = features /\ answer' = answer
        BY <2>1, <2>2 DEF ReturnsNull
      <3>2. LayerInv'
        BY <1>2, <1>3, <3>1 DEF LayerInv
      <3>3. SourceInv' /\ CountInv'
        BY <1>1, <3>1, QuietStep, CountKept DEF Apart
      <3> QED BY <3>2, <3>3
    <2>3. CASE doing = "count"
      <3>1. Reset /\ CountIs(-1, version)
        BY <2>1, <2>3, TextsDiffer DEF ReturnsNull
      <3> QED BY <1>1, <1>2, <3>1, LayerReset, UnknownCount DEF Apart
    <2> QED BY <2>1, <2>2, <2>3 DEF ReturnsNull
  <1>6. CASE c # NoCursor
    <2>1. cursor' = c /\ UNCHANGED <<cursor_error, features, ended, doing, answer>>
      BY <1>4, <1>6
    <2>2. JustOpened(c, DriverQuery)
      BY <1>2, <1>6, DriverQueryIs, Opens
    <2>3. Lets(<<>>)'
      BY <1>2, <1>3, <2>1 DEF Lets
    <2>4. LayerReads(<<>>, "none")'
      <3>1. CursorOK(version', cursor', <<>>, "none")
        BY <1>1, <2>1, <2>2 DEF JustOpened
      <3>2. cursor'.query = DriverQuery'
        BY <1>1, <2>1, <2>2, SameFilters DEF JustOpened
      <3>3. ~cursor_error' => ~ended'
        BY <1>2, <2>1
      <3> QED BY <2>3, <3>1, <3>2, <3>3 DEF LayerReads
    <2>5. cursor' # NoCursor
      BY <1>6, <2>1
    <2>6. LayerInv'
      BY <1>2, <1>3, <2>1, <2>4, <2>5 DEF LayerInv
    <2>7. SourceInv' /\ CountInv'
      BY <1>1, <2>1, QuietStep, CountKept DEF Apart
    <2> QED BY <2>6, <2>7
  <1> QED BY <1>5, <1>6

\* No feature: what the layer reads has been read on.
LEMMA NoFeatureKeeps ==
  ASSUME SourceInv, LayerInv, CountInv, Apart, cursor # NoCursor,
         NEW o \in feature_next(cursor), NEW error \in BOOLEAN, ReturnsNull(o.cursor, error),
         ~error => o.returned = NoRow
  PROVE  SourceInv' /\ LayerInv' /\ CountInv'
  <1>1. /\ UNCHANGED <<version, given, said, attribute_filter, spatial_filter, filter_geom>>
        /\ version \in DOMAIN Versions /\ version' = version /\ call' = call
        /\ given' = <<>> /\ said' = "none"
        /\ attr_query' \in {NoFilter, attribute_filter'}
        /\ filter_geom' \in Geometries \cup {NoFilter}
    BY DEF Apart, SourceInv, LayerInv
  <1>2. PICK got, s : LayerReads(got, s)
    BY DEF LayerInv
  <1>3. CASE doing = "next"
    <2>1. /\ cursor' = o.cursor /\ ended' = TRUE /\ features' = features /\ answer' = answer
          /\ cursor_error' = (cursor_error \/ error)
      BY <1>3 DEF ReturnsNull
    <2>2. /\ CursorOK(version, cursor, got, s) /\ cursor.query = DriverQuery /\ Lets(got)
          /\ got \in Seq(AllFids) /\ s \in {"none", "error", "end"}
      BY <1>2 DEF LayerReads, CursorOK
    <2>3. StillOK(cursor, got, s, o)
      BY <1>1, <2>2, FeatureNextKeeps
    <2>4. PICK r, got1, s1, c : /\ r = o.returned /\ got1 = Given(got, r) /\ s1 = Says(s, r)
                                /\ c = o.cursor
      OBVIOUS
    <2>5. /\ CursorOK(version, c, got1, s1) /\ c.opened = cursor.opened
          /\ c.query = DriverQuery /\ r \in {NoRow, Error} \cup AllFids
      BY <2>2, <2>3, <2>4 DEF StillOK
    <2>6. \A j \in 1 .. Len(got) : j \in 1 .. Len(got1) /\ got1[j] = got[j]
      <3>1. CASE r \in {NoRow, Error}
        BY <2>4, <3>1 DEF Given
      <3>2. CASE r \notin {NoRow, Error}
        <4>1. got1 = Append(got, r) /\ r \in AllFids
          BY <2>4, <2>5, <3>2 DEF Given
        <4> QED BY <2>2, <4>1, AppendProperties, LenProperties
      <3> QED BY <3>1, <3>2
    <2>7. Lets(got1)'
      <3>1. ASSUME ~cursor_error' PROVE ~cursor_error /\ got1 = got
        BY <2>1, <2>4, <3>1 DEF Given
      <3> QED BY <1>1, <2>1, <2>2, <2>4, <2>5, <2>6, <3>1, SameFilters DEF Lets
    <2>8. ASSUME ~cursor_error' PROVE s1 = "end"
      <3>1. s # "error" /\ r = NoRow
        BY <1>2, <2>1, <2>4, <2>8 DEF LayerReads
      <3> QED BY <2>2, <2>4, <3>1, SaysIs
    <2>9. LayerReads(got1, s1)'
      <3>1. CursorOK(version', cursor', got1, s1) /\ cursor'.query = DriverQuery'
        BY <1>1, <2>1, <2>4, <2>5, SameFilters
      <3> QED BY <2>7, <2>8, <3>1, TextsDiffer DEF LayerReads
    <2>10. cursor' # NoCursor
      BY <2>1, <2>4, <2>5, NotNoCursor
    <2>11. LayerInv'
      BY <1>1, <2>1, <2>9, <2>10 DEF LayerInv
    <2>12. SourceInv' /\ CountInv'
      BY <1>1, <2>1, QuietStep, CountKept
    <2> QED BY <2>11, <2>12
  <1>4. CASE doing = "count"
    <2>1. /\ Reset
          /\ IF cursor_error \/ error THEN CountIs(-1, version)
             ELSE CountIs(Len(features), o.cursor.opened)
      BY <1>4, TextsDiffer DEF ReturnsNull
    <2>2. LayerInv'
      BY <1>1, <2>1, LayerReset
    <2>3. CASE cursor_error \/ error
      BY <2>1, <2>2, <2>3, UnknownCount
    <2>4. CASE ~cursor_error /\ ~error
      BY <1>2, <2>1, <2>2, <2>4, KnownCount
    <2> QED BY <2>3, <2>4
  <1> QED BY <1>3, <1>4 DEF ReturnsNull


\* A row of the cursor is accepted if it is wanted, and only then.
LEMMA AcceptedIs ==
  ASSUME version \in DOMAIN Versions, LayerInv, cursor.opened = version,
         NEW r \in MatchingFids(version, DriverQuery)
  PROVE  Accepted(r) <=> r \in WantedFids
  <1>1. \A row : row \in Fetched(r) <=> row \in RowsAt(version) /\ row.fid = r
    BY DEF Fetched
  <1>2. PICK own \in RowsAt(version) : own.fid = r /\ Matches(own, DriverQuery)
    BY MatchingIs
  <1>3. \A row \in RowsAt(version) : row.fid = r => row = own
    BY <1>2, RowsAre
  <1>4. attribute_filter = NoFilter \/ attribute_filter \in own.filters
    BY <1>2, DriverQueryIs DEF Matches
  <1>5. Accepted(r) <=> /\ filter_geom = NoFilter \/ filter_geom \in own.areas
                        /\ attr_query = NoFilter \/ attr_query \in own.filters
    BY <1>1, <1>2, <1>3 DEF Accepted
  <1>6. r \in WantedFids <=> /\ attribute_filter = NoFilter \/ attribute_filter \in own.filters
                             /\ filter_geom = NoFilter \/ filter_geom \in own.areas
    BY <1>2, <1>3, WantedIs
  <1>7. attr_query = NoFilter \/ attr_query = attribute_filter
    BY DEF LayerInv
  <1> QED BY <1>4, <1>5, <1>6, <1>7

Within(list, got) == \A i \in 1 .. Len(list) : \E j \in 1 .. Len(got) : got[j] = list[i]
Covers(list, got, wanted) ==
    \A j \in 1 .. Len(got) :
       got[j] \in wanted => \E i \in 1 .. Len(list) : list[i] = got[j]

\* One row more that the cursor has given, and the features with it or not.
LEMMA RowLets ==
  ASSUME LayerInv, NEW got \in Seq(AllFids), NEW r \in AllFids, NEW got1, NEW features1,
         Lets(got), got1 = Append(got, r), Ascending(got1),
         \/ /\ features1 = Append(features, r)
            /\ cursor.opened = version => r \in WantedFids
         \/ /\ features1 = features
            /\ cursor.opened = version => r \notin WantedFids
  PROVE  /\ features1 \in Seq(AllFids) /\ Ascending(features1)
         /\ Within(features1, got1)
         /\ cursor.opened = version =>
              /\ \A i \in 1 .. Len(features1) : features1[i] \in WantedFids
              /\ ~cursor_error => Covers(features1, got1, WantedFids)
  <1>1. PICK m, n : m = Len(got) /\ n = Len(features)
    OBVIOUS
  <1>2. /\ m \in Nat /\ Len(got1) = m + 1 /\ got1[m + 1] = r
        /\ \A j \in 1 .. m : got1[j] = got[j] /\ got[j] \in AllFids
        /\ DOMAIN got1 = 1 .. m + 1
    BY <1>1, AppendProperties, LenProperties, ElementOfSeq
  <1>3. features \in Seq(AllFids) /\ Ascending(features)
    BY DEF LayerInv
  <1>4. /\ n \in Nat /\ DOMAIN features = 1 .. n
        /\ \A i \in 1 .. n : features[i] \in AllFids
    BY <1>1, <1>3, LenProperties, ElementOfSeq
  <1>5. \A j \in 1 .. m : got1[j] < r
    <2>1. \A j \in 1 .. m : j \in 1 .. m + 1 /\ m + 1 \in 1 .. m + 1 /\ j < m + 1
      BY <1>2
    <2> QED BY <1>1, <1>2, <2>1 DEF Ascending
  <1>6. \A i \in 1 .. n : \E j \in 1 .. m : got1[j] = features[i]
    BY <1>1, <1>2 DEF Lets
  <1>7. \A j \in 1 .. m : j \in 1 .. Len(got1)
    BY <1>2
  <1>8. cursor.opened = version =>
          /\ \A i \in 1 .. n : features[i] \in WantedFids
          /\ ~cursor_error =>
               \A j \in 1 .. m : got1[j] \in WantedFids => \E i \in 1 .. n : features[i] = got1[j]
    BY <1>1, <1>2 DEF Lets
  <1>9. CASE features1 = features /\ (cursor.opened = version => r \notin WantedFids)
    <2>1. features1 = features /\ (cursor.opened = version => got1[m + 1] \notin WantedFids)
      BY <1>2, <1>9
    <2>2. ASSUME cursor.opened = version, ~cursor_error, NEW j \in 1 .. Len(got1),
                 got1[j] \in WantedFids
          PROVE  \E i \in 1 .. n : features[i] = got1[j]
      <3>1. j # m + 1
        BY <2>1, <2>2
      <3>2. j \in 1 .. m
        BY <1>2, <2>2, <3>1
      <3> QED BY <1>8, <2>2, <3>2
    <2>3. \A i \in 1 .. n : \E j \in 1 .. Len(got1) : got1[j] = features[i]
      BY <1>6, <1>7
    <2>4. Within(features1, got1)
      BY <1>1, <2>1, <2>3 DEF Within
    <2>5. cursor.opened = version /\ ~cursor_error => Covers(features1, got1, WantedFids)
      BY <1>1, <2>1, <2>2 DEF Covers
    <2> QED BY <1>1, <1>3, <1>8, <2>1, <2>4, <2>5
  <1>10. CASE /\ features1 = Append(features, r)
              /\ cursor.opened = version => r \in WantedFids
    <2>1. /\ features1 = Append(features, r)
          /\ cursor.opened = version => r \in WantedFids
      BY <1>10
    <2>2. /\ Len(features1) = n + 1 /\ features1[n + 1] = r
          /\ \A i \in 1 .. n : features1[i] = features[i]
          /\ DOMAIN features1 = 1 .. n + 1 /\ features1 \in Seq(AllFids)
      BY <1>1, <1>3, <2>1, AppendProperties, LenProperties
    <2>3. \A i \in 1 .. n + 1 : i \in 1 .. n \/ i = n + 1
      BY <1>4
    <2>4. \A i \in 1 .. n : i \in 1 .. n + 1
      BY <1>4
    <2>5. n + 1 \in 1 .. n + 1 /\ m + 1 \in 1 .. m + 1
      BY <1>2, <1>4
    <2>6. \A i \in 1 .. n : features[i] < r
      BY <1>5, <1>6
    <2>7. Ascending(features1)
      <3> SUFFICES ASSUME NEW i \in 1 .. n + 1, NEW j \in 1 .. n + 1, i < j
                   PROVE  features1[i] < features1[j]
        BY <2>2 DEF Ascending
      <3>1. i \in 1 .. n
        BY <1>4
      <3>2. CASE j = n + 1
        BY <2>2, <2>6, <3>1, <3>2
      <3>3. CASE j \in 1 .. n
        BY <1>3, <1>4, <2>2, <3>1, <3>3 DEF Ascending
      <3> QED BY <2>3, <3>2, <3>3
    <2>8. \A i \in 1 .. n + 1 : \E j \in 1 .. m + 1 : got1[j] = features1[i]
      <3> SUFFICES ASSUME NEW i \in 1 .. n + 1
                   PROVE  \E j \in 1 .. m + 1 : got1[j] = features1[i]
        OBVIOUS
      <3>1. CASE i \in 1 .. n
        BY <1>2, <1>6, <1>7, <2>2, <3>1
      <3>2. CASE i = n + 1
        BY <1>2, <2>2, <2>5, <3>2
      <3> QED BY <2>3, <3>1, <3>2
    <2>9. ASSUME cursor.opened = version PROVE \A i \in 1 .. n + 1 : features1[i] \in WantedFids
      BY <1>8, <2>1, <2>2, <2>3, <2>9
    <2>10. ASSUME cursor.opened = version, ~cursor_error, NEW j \in 1 .. m + 1,
                  got1[j] \in WantedFids
           PROVE  \E i \in 1 .. n + 1 : features1[i] = got1[j]
      <3>1. CASE j = m + 1
        BY <1>2, <2>2, <2>5, <3>1
      <3>2. CASE j \in 1 .. m
        <4>1. PICK i \in 1 .. n : features[i] = got1[j]
          BY <1>8, <2>10, <3>2
        <4> QED BY <2>2, <2>4, <4>1
      <3>3. j = m + 1 \/ j \in 1 .. m
        BY <1>2, <2>10
      <3> QED BY <3>1, <3>2, <3>3
    <2>11. Len(got1) = m + 1 /\ Len(features1) = n + 1
      BY <1>2, <2>2
    <2>12. cursor.opened = version /\ ~cursor_error => Covers(features1, got1, WantedFids)
      BY <2>10, <2>11 DEF Covers
    <2>13. Within(features1, got1)
      BY <2>8, <2>11 DEF Within
    <2> QED BY <2>2, <2>7, <2>9, <2>11, <2>12, <2>13
  <1> QED BY <1>9, <1>10

LEMMA RowKeeps ==
  ASSUME SourceInv, LayerInv, CountInv, Apart, cursor # NoCursor,
         NEW o \in feature_next(cursor), o.returned \notin {NoRow, Error},
         cursor' = o.cursor, UNCHANGED <<cursor_error, ended, answer>>,
         features' = IF Accepted(o.returned) THEN Append(features, o.returned) ELSE features
  PROVE  SourceInv' /\ LayerInv' /\ CountInv'
  <1>1. /\ UNCHANGED <<version, given, said, attribute_filter, spatial_filter, filter_geom>>
        /\ version \in DOMAIN Versions /\ version' = version /\ call' = call
        /\ given' = <<>> /\ said' = "none"
        /\ attr_query' \in {NoFilter, attribute_filter'}
        /\ filter_geom' \in Geometries \cup {NoFilter}
    BY DEF Apart, SourceInv, LayerInv
  <1>2. PICK got, s : LayerReads(got, s)
    BY DEF LayerInv
  <1>3. /\ CursorOK(version, cursor, got, s) /\ cursor.query = DriverQuery /\ Lets(got)
        /\ got \in Seq(AllFids) /\ s \in {"none", "error", "end"}
        /\ ~cursor_error => s # "error" /\ (ended => s = "end")
    BY <1>2 DEF LayerReads, CursorOK
  <1>4. StillOK(cursor, got, s, o)
    BY <1>1, <1>3, FeatureNextKeeps
  <1>5. PICK r, got1, c, features1 :
          /\ r = o.returned /\ got1 = Append(got, r) /\ c = o.cursor
          /\ features1 = IF Accepted(r) THEN Append(features, r) ELSE features
    OBVIOUS
  <1>6. r \in AllFids /\ Given(got, r) = got1 /\ Says(s, r) = s
    BY <1>3, <1>4, <1>5, SaysIs DEF StillOK, Given
  <1>7. /\ CursorOK(version, c, got1, s) /\ c.opened = cursor.opened
        /\ c.query = DriverQuery
    BY <1>3, <1>4, <1>5, <1>6 DEF StillOK
  <1>8. Ascending(got1)
    BY <1>1, <1>7, CursorGives
  <1>9. cursor.opened = version => r \in MatchingFids(version, DriverQuery)
    <2>1. Len(got) \in Nat /\ Len(got1) = Len(got) + 1 /\ got1[Len(got) + 1] = r
      BY <1>3, <1>5, <1>6, AppendProperties, LenProperties
    <2>2. Len(got) + 1 \in 1 .. Len(got1)
      BY <2>1
    <2> QED BY <1>1, <1>7, <2>1, <2>2, CursorGives
  <1>10. cursor.opened = version => (Accepted(r) <=> r \in WantedFids)
    BY <1>1, <1>9, AcceptedIs
  <1>11. \/ /\ features1 = Append(features, r)
            /\ cursor.opened = version => r \in WantedFids
         \/ /\ features1 = features
            /\ cursor.opened = version => r \notin WantedFids
    BY <1>5, <1>10
  <1>12. features' = features1
    BY <1>5
  <1>13. /\ features1 \in Seq(AllFids) /\ Ascending(features1)
         /\ Within(features1, got1)
         /\ cursor.opened = version =>
              /\ \A i \in 1 .. Len(features1) : features1[i] \in WantedFids
              /\ ~cursor_error => Covers(features1, got1, WantedFids)
    BY <1>3, <1>5, <1>6, <1>8, <1>11, RowLets
  <1>14. Lets(got1)'
    <2>1. /\ cursor'.opened = cursor.opened /\ WantedFids' = WantedFids
          /\ cursor_error' = cursor_error
      BY <1>1, <1>5, <1>7, SameFilters
    <2>2. Within(features', got1)
      BY <1>12, <1>13
    <2>3. cursor'.opened = version' => \A i \in 1 .. Len(features') : features'[i] \in WantedFids'
      BY <1>1, <1>12, <1>13, <2>1
    <2>4. ASSUME cursor'.opened = version', ~cursor_error'
          PROVE  Covers(features', got1, WantedFids')
      <3>1. Covers(features1, got1, WantedFids)
        BY <1>1, <1>13, <2>1, <2>4
      <3> QED BY <1>12, <2>1, <3>1
    <2> QED BY <2>2, <2>3, <2>4 DEF Lets, Within, Covers
  <1>15. LayerReads(got1, s)'
    <2>1. CursorOK(version', cursor', got1, s) /\ cursor'.query = DriverQuery'
      BY <1>1, <1>5, <1>7, SameFilters
    <2>2. ~cursor_error' => s # "error" /\ (ended' => s = "end")
      BY <1>3
    <2> QED BY <1>14, <2>1, <2>2 DEF LayerReads
  <1>16. cursor' # NoCursor
    BY <1>5, <1>7, NotNoCursor
  <1>17. LayerInv'
    BY <1>1, <1>12, <1>13, <1>15, <1>16 DEF LayerInv
  <1>18. SourceInv' /\ CountInv'
    BY <1>1, QuietStep, CountKept
  <1> QED BY <1>17, <1>18

LEMMA NextRowKeeps ==
  ASSUME SourceInv, LayerInv, CountInv, NextRow
  PROVE  SourceInv' /\ LayerInv' /\ CountInv'
  <1>1. Apart /\ cursor # NoCursor
    BY DEF NextRow, Apart, source, filters
  <1>2. PICK o \in feature_next(cursor) :
          \/ /\ o.returned = NoRow
             /\ ReturnsNull(o.cursor, FALSE)
          \/ /\ o.returned = Error \/ (o.returned # NoRow /\ ~to_ogr(o.returned))
             /\ ReturnsNull(o.cursor, TRUE)
          \/ /\ o.returned \notin {NoRow, Error} /\ to_ogr(o.returned)
             /\ cursor' = o.cursor
             /\ IF Accepted(o.returned)
                THEN /\ features' = Append(features, o.returned)
                     /\ doing' = IF doing = "next" THEN "none" ELSE doing
                ELSE UNCHANGED <<features, doing>>
             /\ UNCHANGED <<cursor_error, ended, answer>>
    BY DEF NextRow
  <1>3. CASE o.returned = NoRow /\ ReturnsNull(o.cursor, FALSE)
    BY <1>1, <1>3, NoFeatureKeeps
  <1>4. CASE ReturnsNull(o.cursor, TRUE)
    BY <1>1, <1>4, NoFeatureKeeps
  <1>5. CASE /\ o.returned \notin {NoRow, Error} /\ cursor' = o.cursor
             /\ features' = IF Accepted(o.returned) THEN Append(features, o.returned)
                            ELSE features
             /\ UNCHANGED <<cursor_error, ended, answer>>
    BY <1>1, <1>5, RowKeeps
  <1> QED BY <1>2, <1>3, <1>4, <1>5


-----------------------------------------------------------------------------
(* The driver's other steps, the calls and the Writers.                    *)

LEMMA GetFeatureKeeps ==
  ASSUME SourceInv, LayerInv, CountInv, NEW fid \in SomeFids, GetFeature(fid)
  PROVE  SourceInv' /\ LayerInv' /\ CountInv'
  <1>1. UNCHANGED dvars /\ (ByGdal(fid) \/ ReadByFid(fid))
    BY DEF GetFeature
  <1>2. SourceInv' /\ UNCHANGED <<version, cursor, given, said>>
    BY <1>1, ByGdalKeeps, ReadByFidBegins
  <1>3. answer'.kind # "count"
    <2>1. CASE ByGdal(fid)
      <3>1. answer'.kind = "read_by_fid"
        BY <2>1 DEF ByGdal, Answers, Call
      <3> QED BY <3>1, TextsDiffer
    <2>2. CASE ReadByFid(fid)
      <3>1. answer' = NoAnswer
        BY <2>2 DEF ReadByFid, Begins
      <3> QED BY <3>1, TextsDiffer
    <2> QED BY <1>1, <2>1, <2>2
  <1>4. LayerInv'
    BY <1>1, <1>2, LayerUnchanged
  <1>5. CountInv'
    BY <1>1, <1>2, <1>3, CountKept DEF dvars
  <1> QED BY <1>2, <1>4, <1>5

LEMMA FilterKeeps ==
  ASSUME SourceInv, LayerInv, Reset, answer' = NoAnswer,
         UNCHANGED <<version, call, given, said>>,
         attr_query' \in {NoFilter, attribute_filter'},
         filter_geom' \in Geometries \cup {NoFilter}
  PROVE  SourceInv' /\ LayerInv' /\ CountInv'
  <1>1. SourceInv'
    BY QuietStep, TextsDiffer
  <1>2. LayerInv'
    BY LayerReset
  <1>3. answer'.kind # "count"
    BY TextsDiffer
  <1> QED BY <1>1, <1>2, <1>3 DEF CountInv

LEMMA DriverStepKeeps ==
  ASSUME SourceInv, LayerInv, CountInv, DriverStep
  PROVE  SourceInv' /\ LayerInv' /\ CountInv'
  <1>0. /\ attr_query \in {NoFilter, attribute_filter}
        /\ filter_geom \in Geometries \cup {NoFilter}
    BY DEF LayerInv
  <1>1. CASE ResetReading
    <2>1. /\ Reset /\ UNCHANGED <<version, call, given, said, answer>>
          /\ UNCHANGED <<attribute_filter, spatial_filter, filter_geom, attr_query>>
      BY <1>1 DEF ResetReading, source, filters
    <2> QED BY <1>0, <2>1, LayerReset, QuietStep, CountKept
  <1>2. CASE GetNextFeature
    <2>1. /\ answer' = NoAnswer
          /\ UNCHANGED <<version, call, cursor, given, said>>
          /\ UNCHANGED <<attribute_filter, spatial_filter, filter_geom, attr_query,
                         cursor_error, features, ended>>
      BY <1>2 DEF GetNextFeature, source, filters
    <2>2. LayerInv'
      <3>1. ASSUME NEW got, NEW s, LayerReads(got, s) PROVE LayerReads(got, s)'
        <4>1. Lets(got)'
          BY <2>1, <3>1, SameFilters DEF LayerReads, Lets
        <4> QED BY <2>1, <3>1, <4>1, SameFilters DEF LayerReads
      <3>2. (\E got, s : LayerReads(got, s)) => \E got, s : LayerReads(got, s)'
        BY <3>1
      <3> QED BY <2>1, <3>2 DEF LayerInv
    <2> QED BY <2>1, <2>2, QuietStep, CountKept, TextsDiffer
  <1>3. CASE GetFeatureCount
    <2>1. /\ Reset /\ answer' = NoAnswer
          /\ UNCHANGED <<version, call, given, said>>
          /\ UNCHANGED <<attribute_filter, spatial_filter, filter_geom, attr_query>>
      BY <1>3 DEF GetFeatureCount, source, filters
    <2> QED BY <1>0, <2>1, FilterKeeps
  <1>4. CASE ensure_cursor
    BY <1>4, EnsureCursorKeeps
  <1>5. CASE NextRow
    BY <1>5, NextRowKeeps
  <1>6. ASSUME NEW fid \in SomeFids, GetFeature(fid)
        PROVE  SourceInv' /\ LayerInv' /\ CountInv'
    BY <1>6, GetFeatureKeeps
  <1>7. ASSUME NEW clause \in Clauses, SetAttributeFilter(clause)
        PROVE  SourceInv' /\ LayerInv' /\ CountInv'
    <2>1. /\ Reset /\ answer' = NoAnswer /\ UNCHANGED <<version, call, given, said, filter_geom>>
          /\ attr_query' \in {NoFilter, attribute_filter'}
      BY <1>7 DEF SetAttributeFilter, source
    <2> QED BY <1>0, <2>1, FilterKeeps
  <1>8. ASSUME NEW geometry \in Geometries, NEW accepted \in BOOLEAN,
               SetSpatialFilter(geometry, accepted)
        PROVE  SourceInv' /\ LayerInv' /\ CountInv'
    <2>1. /\ Reset /\ answer' = NoAnswer /\ UNCHANGED <<version, call, given, said>>
          /\ UNCHANGED <<attribute_filter, attr_query>>
          /\ filter_geom' = IF accepted THEN geometry ELSE filter_geom
      BY <1>8 DEF SetSpatialFilter, source
    <2>2. filter_geom' \in Geometries \cup {NoFilter}
      BY <1>0, <2>1
    <2> QED BY <1>0, <2>1, <2>2, FilterKeeps
  <1> QED BY <1>1, <1>2, <1>3, <1>4, <1>5, <1>6, <1>7, <1>8 DEF DriverStep

LEMMA CallLeavesCount ==
  ASSUME CallStep
  PROVE  answer' = answer \/ answer'.kind # "count"
  <1>1. ASSUME NEW status, NEW fids, Answers(call, status, fids),
               call.kind \in {"read_all", "read_by_fid"}
        PROVE  answer'.kind # "count"
    <2>1. answer'.kind = call.kind
      BY <1>1 DEF Answers
    <2> QED BY <1>1, <2>1, TextsDiffer
  <1>2. ASSUME NEW c, NEW batch, Goes(c, batch) PROVE answer' = answer
    BY <1>2 DEF Goes
  <1>3. CASE ReadAllNext
    <2>1. PICK o : CASE o.returned = Error -> Answers(call, "error", <<>>)
                     [] o.returned = NoRow -> Answers(call, "ok", call.batch)
                     [] o.returned \notin {NoRow, Error} /\ Len(call.batch) >= call.max ->
                          Answers(call, "limit", <<>>)
                     [] OTHER -> Goes(o.cursor, Append(call.batch, o.returned))
      BY <1>3 DEF ReadAllNext
    <2>2. \/ Answers(call, "error", <<>>) \/ Answers(call, "ok", call.batch)
          \/ Answers(call, "limit", <<>>) \/ Goes(o.cursor, Append(call.batch, o.returned))
      BY <2>1
    <2> QED BY <1>1, <1>2, <1>3, <2>2 DEF ReadAllNext
  <1>4. CASE ReadByFidNext
    <2>1. PICK o : CASE o.returned = Error -> Answers(call, "error", <<call.fid>>)
                     [] o.returned = NoRow \/ o.returned > call.fid ->
                          Answers(call, "missing", <<call.fid>>)
                     [] o.returned = call.fid -> Answers(call, "ok", <<call.fid>>)
                     [] OTHER -> Goes(o.cursor, <<>>)
      BY <1>4 DEF ReadByFidNext
    <2>2. \/ Answers(call, "error", <<call.fid>>) \/ Answers(call, "missing", <<call.fid>>)
          \/ Answers(call, "ok", <<call.fid>>) \/ Goes(o.cursor, <<>>)
      BY <2>1
    <2> QED BY <1>1, <1>2, <1>4, <2>2 DEF ReadByFidNext
  <1> QED BY <1>3, <1>4 DEF CallStep

\* What a layer has read before the source was changed is no longer compared
\* with it.
LEMMA WriterLeavesLayer ==
  ASSUME SourceInv, LayerInv, CountInv, WriterStep, UNCHANGED dvars
  PROVE  LayerInv' /\ CountInv'
  <1>1. /\ version' = version \/ version' = version + 1
        /\ UNCHANGED <<cursor, given, said, answer>>
    BY WriterKeeps
  <1>2. /\ UNCHANGED <<attribute_filter, spatial_filter, filter_geom, attr_query>>
        /\ UNCHANGED <<cursor_error, features, ended>>
    BY DEF dvars
  <1>3. CASE version' = version
    BY <1>1, <1>2, <1>3, LayerUnchanged, CountKept
  <1>4. CASE version' = version + 1
    <2>1. version \in Nat
      BY RowsAssumption DEF SourceInv
    <2>2. DriverQuery' = DriverQuery
      BY <1>2 DEF DriverQuery
    <2>3. ASSUME NEW got, NEW s, LayerReads(got, s) PROVE LayerReads(got, s)'
      <3>1. CursorOK(version, cursor, got, s) /\ cursor.query = DriverQuery /\ Lets(got)
        BY <2>3 DEF LayerReads
      <3>2. CursorOK(version', cursor', got, s)
        BY <1>1, <1>4, <2>1, <3>1, Outlives
      <3>3. cursor.opened \in 1 .. version
        BY <3>1 DEF CursorOK
      <3>4. cursor'.opened # version'
        BY <1>1, <1>4, <2>1, <3>3
      <3>5. Lets(got)'
        BY <1>2, <3>1, <3>4 DEF Lets
      <3> QED BY <1>1, <1>2, <2>2, <2>3, <3>2, <3>5 DEF LayerReads
    <2>4. (\E got, s : LayerReads(got, s)) => \E got, s : LayerReads(got, s)'
      BY <2>3
    <2>5. LayerInv'
      BY <1>1, <1>2, <2>4 DEF LayerInv
    <2>6. answer'.kind = "count" => answer'.ended # version'
      <3> SUFFICES ASSUME answer.kind = "count" PROVE answer.ended # version'
        BY <1>1
      <3>1. answer.ended \in 1 .. version
        BY DEF SourceInv
      <3> QED BY <1>4, <2>1, <3>1
    <2>7. CountInv'
      BY <2>6 DEF CountInv
    <2> QED BY <2>5, <2>7
  <1> QED BY <1>1, <1>3, <1>4

LEMMA DriverMoves ==
  ASSUME DriverInv, [DriverNext]_<<rvars, user, dvars>>
  PROVE  DriverInv'
  <1>1. ASSUME user = "caller", CallerStep, UNCHANGED <<user, dvars>> PROVE DriverInv'
    <2>1. SourceInv' /\ CallerInv'
      BY <1>1, CallerStepKeeps DEF DriverInv
    <2>2. user' = "caller" /\ "caller" # "driver"
      BY <1>1
    <2> QED BY <2>1, <2>2 DEF DriverInv
  <1>2. ASSUME CallStep, UNCHANGED <<user, dvars>> PROVE DriverInv'
    <2>1. SourceInv' /\ UNCHANGED <<version, cursor, given, said>>
      BY <1>2, CallStepKeeps DEF DriverInv
    <2>2. user = "caller" => CallerInv'
      BY <2>1 DEF DriverInv, CallerInv
    <2>3. ASSUME user = "driver" PROVE LayerInv' /\ CountInv'
      BY <1>2, <2>1, <2>3, LayerUnchanged, CallLeavesCount, CountKept DEF DriverInv, dvars
    <2> QED BY <1>2, <2>1, <2>2, <2>3 DEF DriverInv
  <1>3. ASSUME WriterStep, UNCHANGED <<user, dvars>> PROVE DriverInv'
    <2>1. SourceInv' /\ (user = "caller" => CallerInv')
      BY <1>3, WriterKeeps DEF DriverInv
    <2>2. user = "driver" => LayerInv' /\ CountInv'
      BY <1>3, WriterLeavesLayer DEF DriverInv
    <2> QED BY <1>3, <2>1, <2>2 DEF DriverInv
  <1>4. ASSUME DriverStep PROVE DriverInv'
    <2>1. user = "driver" /\ user' = user
      BY <1>4 DEF DriverStep, ResetReading, GetNextFeature, GetFeatureCount, ensure_cursor,
                  NextRow, GetFeature, SetAttributeFilter, SetSpatialFilter, At
    <2>2. SourceInv' /\ LayerInv' /\ CountInv'
      BY <1>4, <2>1, DriverStepKeeps DEF DriverInv
    <2>3. "driver" # "caller"
      OBVIOUS
    <2> QED BY <2>1, <2>2, <2>3 DEF DriverInv
  <1>5. ASSUME UNCHANGED <<rvars, user, dvars>> PROVE DriverInv'
    <2>1. UNCHANGED <<version, cursor, given, said, call, answer>>
      BY <1>5 DEF rvars
    <2>2. SourceInv' /\ (CallerInv => CallerInv')
      BY <2>1, QuietStep DEF DriverInv, CallerInv
    <2>3. user = "driver" => LayerInv' /\ CountInv'
      BY <1>5, <2>1, LayerUnchanged, CountKept DEF DriverInv, dvars
    <2> QED BY <1>5, <2>2, <2>3 DEF DriverInv
  <1> QED BY <1>1, <1>2, <1>3, <1>4, <1>5 DEF DriverNext

LEMMA DriverStart ==
  ASSUME DriverInit
  PROVE  DriverInv
  <1>1. RowsInv
    BY RowsStart DEF DriverInit
  <1>2. /\ cursor = NoCursor /\ given = <<>> /\ said = "none" /\ answer = NoAnswer
        /\ features = <<>> /\ ended = FALSE /\ attr_query = NoFilter /\ filter_geom = NoFilter
        /\ user \in {"caller", "driver"}
    BY DEF DriverInit, RowsInit
  <1>3. <<>> \in Seq(AllFids) /\ Ascending(<<>>)
    BY EmptySeq DEF Ascending
  <1>4. LayerInv
    BY <1>2, <1>3 DEF LayerInv
  <1>5. CountInv
    BY <1>2, TextsDiffer DEF CountInv
  <1> QED BY <1>1, <1>2, <1>4, <1>5 DEF RowsInv, DriverInv

\* What the invariant says of a layer.
LEMMA LayerIsFiltered ==
  ASSUME DriverInv
  PROVE  LayerGivesFiltered
  <1> SUFFICES ASSUME user = "driver" PROVE LayerGivesFiltered
    BY DEF LayerGivesFiltered
  <1>1. /\ version \in DOMAIN Versions /\ LayerInv /\ CountInv
        /\ features \in Seq(AllFids) /\ Ascending(features)
    BY DEF DriverInv, SourceInv, LayerInv
  <1>2. DOMAIN features = 1 .. Len(features)
    BY <1>1, LenProperties
  <1>3. ASSUME cursor # NoCursor, cursor.opened = version
        PROVE  /\ \A i \in DOMAIN features : features[i] \in WantedFids
               /\ Agreed /\ ~cursor_error =>
                     IsPrefix(features, Wanted) /\ (ended => features = Wanted)
    <2>1. PICK got, s : LayerReads(got, s)
      BY <1>1, <1>3 DEF LayerInv
    <2>2. ~cursor_error => (ended => s = "end")
      BY <2>1 DEF LayerReads
    <2>3. /\ \A i \in 1 .. Len(features) : features[i] \in WantedFids
          /\ Agreed /\ ~cursor_error =>
               /\ IsPrefix(features, Wanted)
               /\ s = "end" => features = Wanted
      BY <1>1, <1>3, <2>1, LayerGets
    <2> QED BY <1>2, <2>2, <2>3
  <1> QED BY <1>1, <1>3 DEF LayerGivesFiltered, CountInv

\* A layer has no cursor of the caller's to answer for.
LEMMA DriverCursorGives ==
  ASSUME DriverInv
  PROVE  CursorGivesResult
  <1>1. CASE user = "caller"
    BY <1>1, CallerGets DEF DriverInv
  <1>2. CASE user = "driver"
    <2> SUFFICES ASSUME cursor # NoCursor PROVE CursorGivesResult
      BY DEF CursorGivesResult
    <2>1. given = <<>> /\ said = "none" /\ version \in DOMAIN Versions
      BY <1>2 DEF DriverInv, LayerInv, SourceInv
    <2>2. PICK got, s : CursorOK(version, cursor, got, s)
      BY <1>2 DEF DriverInv, LayerInv, LayerReads
    <2>3. cursor.opened \in DOMAIN Versions /\ cursor.query.offset \in Nat /\ cursor.query.limit \in Nat
      BY <2>1, <2>2, RowsAssumption DEF CursorOK
    <2>4. PICK result : result = Result(cursor.opened, cursor.query)
      OBVIOUS
    <2>5. result \in Seq(AllFids) /\ Len(result) \in Nat
      BY <2>3, <2>4, ResultIs
    <2>6. <<>> \in Seq(AllFids) /\ Len(<<>>) = 0 /\ Ascending(<<>>)
      BY EmptySeq DEF Ascending
    <2>7. IsPrefix(<<>>, result)
      <3>1. Len(<<>>) <= Len(result) /\ \A i \in 1 .. Len(<<>>) : <<>>[i] = result[i]
        BY <2>5, <2>6
      <3> QED BY <2>5, <2>6, <3>1, PrefixFrom
    <2>8. "none" # "end" /\ "none" # "error"
      OBVIOUS
    <2>9. cursor.query.limit > 0 => Len(<<>>) <= cursor.query.limit
      BY <2>3, <2>6
    <2> QED BY <2>1, <2>4, <2>6, <2>7, <2>8, <2>9 DEF CursorGivesResult
  <1> QED BY <1>1, <1>2 DEF DriverInv

-----------------------------------------------------------------------------
(* The driver's layer over the facade.                                     *)

\* Whoever uses the source, a cursor of the facade or a layer of the driver is
\* as the rows of the source allow.
THEOREM DriverInvariant == DriverSpec => []DriverInv
  <1>1. DriverInit => DriverInv
    BY DriverStart
  <1>2. DriverInv /\ [DriverNext]_<<rvars, user, dvars>> => DriverInv'
    BY DriverMoves
  <1> QED BY <1>1, <1>2, PTL DEF DriverSpec

\* FastFileGDBLayer::GetNextFeature and GetFeatureCount: the rows that the
\* layer's filters let through, in order and none twice, and all of them at
\* the end; the count is theirs or unknown.
THEOREM DriverLayerGivesFiltered == DriverSpec => []LayerGivesFiltered
  <1>1. DriverInv => LayerGivesFiltered
    BY LayerIsFiltered
  <1> QED BY <1>1, DriverInvariant, PTL

\* The cursors of a caller beside the driver give their results all the same.
THEOREM DriverCursorGivesResult == DriverSpec => []CursorGivesResult
  <1>1. DriverInv => CursorGivesResult
    BY DriverCursorGives
  <1> QED BY <1>1, DriverInvariant, PTL

\* read_all and read_by_fid, and GetFeature over it, answer for all the rows.
THEOREM DriverCallsAnswerWhole == DriverSpec => []CallsAnswerWhole
  <1>1. DriverInv => CallsAnswerWhole
    BY DEF DriverInv, SourceInv
  <1> QED BY <1>1, DriverInvariant, PTL

=============================================================================
