-------------------------- MODULE ReaderFilesProofs --------------------------
(***************************************************************************)
(* Proofs about Readers and Layers over files that a Writer rewrites, for  *)
(* any number of threads, Readers and calls, and any commit.  Stamps only  *)
(* grow and a Reader's fingerprint is taken before anything is read under  *)
(* it: what was read lies between the fingerprint and the files, and where *)
(* the two are found equal it is what the fingerprint has.                 *)
(*                                                                         *)
(* The cache of offsets that all of them share comes first: whatever is    *)
(* asked of it, in whatever order, its list and its map keep the same keys *)
(* and it counts its bytes; and what the widths of an offset are worth:    *)
(* the six byte form loses a byte, and a file of version 4 has no offsets. *)
(***************************************************************************)
EXTENDS ReaderFiles, WellFoundedInduction, SequenceTheorems, TLAPS

\* lru_list without what depends on Len: each step is about these three.
ListIs(list, keys) ==
    /\ list \in Seq(keys)
    /\ {list[i] : i \in DOMAIN list} = keys
    /\ \A i, j \in DOMAIN list : list[i] = list[j] => i = j
    /\ Len(list) <= MaxEntries

KInv == ListIs(lru_list, DOMAIN cache)

----------------------------------------------------------------------------
\* A key that is moved to the front leaves the keys as they are.
LEMMA FrontKeepsKeys ==
    ASSUME NEW keys, ListIs(lru_list, keys), NEW i \in DOMAIN lru_list
    PROVE  ListIs(ToFront(i), keys)
<1> DEFINE n == Len(lru_list)
           new == ToFront(i)
<1>1. n \in Nat /\ DOMAIN lru_list = 1 .. n /\ i \in 1 .. n
  BY DEF ListIs
<1>2. DOMAIN new = 1 .. n
  BY <1>1 DEF ToFront
<1>3. \A j \in 1 .. n : new[j] = IF j = 1 THEN lru_list[i]
                                 ELSE IF j <= i THEN lru_list[j - 1] ELSE lru_list[j]
  BY <1>1 DEF ToFront
<1>4. \A j \in 1 .. n : lru_list[j] \in keys
  BY <1>1 DEF ListIs
<1>5. \A j \in 1 .. n : new[j] \in keys
  BY <1>1, <1>3, <1>4
<1>6. new \in Seq(keys) /\ Len(new) = n
  <2>1. new \in [1 .. n -> keys]
    BY <1>2, <1>5 DEF ToFront
  <2> QED BY <2>1, <1>1
<1>7. \A j, k \in 1 .. n : lru_list[j] = lru_list[k] => j = k
  BY <1>1 DEF ListIs
<1>8. \A j, k \in 1 .. n : new[j] = new[k] => j = k
  BY <1>1, <1>3, <1>7
<1>9. \A j \in 1 .. n : \E k \in 1 .. n : new[k] = lru_list[j]
  <2> SUFFICES ASSUME NEW j \in 1 .. n PROVE \E k \in 1 .. n : new[k] = lru_list[j]
    OBVIOUS
  <2>1. CASE j = i
    <3>1. 1 \in 1 .. n /\ new[1] = lru_list[j]
      BY <2>1, <1>1, <1>3
    <3> QED BY <3>1
  <2>2. CASE j < i
    <3>1. j + 1 \in 1 .. n /\ new[j + 1] = lru_list[j]
      BY <2>2, <1>1, <1>3
    <3> QED BY <3>1
  <2>3. CASE j > i
    <3>1. new[j] = lru_list[j]
      BY <2>3, <1>1, <1>3
    <3> QED BY <3>1
  <2> QED BY <2>1, <2>2, <2>3, <1>1
<1>10. \A k \in keys : \E j \in 1 .. n : lru_list[j] = k
  BY <1>1 DEF ListIs
<1> HIDE DEF new, n
<1>11. \A k \in keys : \E j \in 1 .. n : new[j] = k
  <2> SUFFICES ASSUME NEW k \in keys PROVE \E j \in 1 .. n : new[j] = k
    OBVIOUS
  <2>1. PICK i1 \in 1 .. n : lru_list[i1] = k
    BY <1>10
  <2>2. PICK i2 \in 1 .. n : new[i2] = lru_list[i1]
    BY <1>9
  <2> QED BY <2>1, <2>2
<1>12. {new[j] : j \in DOMAIN new} = keys
  BY <1>2, <1>5, <1>11
<1>13. n <= MaxEntries
  BY DEF ListIs, n
<1> QED BY <1>2, <1>6, <1>8, <1>12, <1>13 DEF ListIs, new

----------------------------------------------------------------------------
LEMMA InitAgrees == CacheInit => KInv
BY CacheAssumption DEF CacheInit, KInv, ListIs

LEMMA GetKeeps == ASSUME KInv, NEW key, get(key) PROVE KInv'
BY FrontKeepsKeys DEF KInv, get

LEMMA UpdateKeeps == ASSUME KInv, NEW key, NEW offsets, update(key, offsets) PROVE KInv'
<1>1. DOMAIN cache' = DOMAIN cache
  BY DEF update
<1>2. ListIs(lru_list', DOMAIN cache)
  BY FrontKeepsKeys DEF KInv, update
<1> QED BY <1>1, <1>2 DEF KInv

\* What is evicted is the tail of the list and only that, and there is room
\* for one more.
LEMMA InsertKeeps == ASSUME KInv, NEW key, NEW offsets, insert(key, offsets) PROVE KInv'
<1> DEFINE len == Len(lru_list)
<1>1. len \in Nat /\ DOMAIN lru_list = 1 .. len /\ len <= MaxEntries
      /\ MaxEntries \in Nat \ {0} /\ key \notin DOMAIN cache
  BY CacheAssumption DEF KInv, ListIs, insert
<1>2. PICK n \in 0 .. len :
        /\ n = 0 \/ n < MaxEntries
        /\ lru_list' = [j \in 1 .. n + 1 |-> IF j = 1 THEN key ELSE lru_list[j - 1]]
        /\ cache' = [k \in (DOMAIN cache \ {lru_list[j] : j \in n + 1 .. len}) \union {key} |->
                        IF k = key THEN offsets ELSE cache[k]]
  BY <1>1 DEF insert, Fits
<1> DEFINE keys == (DOMAIN cache \ {lru_list[j] : j \in n + 1 .. len}) \union {key}
<1>3. DOMAIN cache' = keys
  BY <1>2
<1>4. /\ \A j \in 1 .. len : lru_list[j] \in DOMAIN cache
      /\ \A k \in DOMAIN cache : \E j \in 1 .. len : lru_list[j] = k
      /\ \A j, k \in 1 .. len : lru_list[j] = lru_list[k] => j = k
  BY <1>1 DEF KInv, ListIs
<1>5. DOMAIN lru_list' = 1 .. n + 1 /\ lru_list'[1] = key
      /\ \A j \in 2 .. n + 1 : lru_list'[j] = lru_list[j - 1]
  BY <1>2
<1>6. \A j \in 1 .. n + 1 : lru_list'[j] \in keys
  <2>1. \A j \in 1 .. n : lru_list[j] \in keys
    BY <1>1, <1>4
  <2> QED BY <2>1, <1>5, <1>1
<1>7. lru_list' \in Seq(keys) /\ Len(lru_list') = n + 1
  <2>1. lru_list' \in [1 .. n + 1 -> keys]
    BY <1>2, <1>5, <1>6
  <2> QED BY <2>1, <1>1
<1>8. \A k \in keys : \E j \in 1 .. n + 1 : lru_list'[j] = k
  <2> SUFFICES ASSUME NEW k \in keys PROVE \E j \in 1 .. n + 1 : lru_list'[j] = k
    OBVIOUS
  <2>1. CASE k = key
    BY <2>1, <1>5, <1>1
  <2>2. CASE k # key
    <3>1. PICK j \in 1 .. len : lru_list[j] = k
      BY <2>2, <1>4
    <3>2. j \in 1 .. n
      BY <2>2, <3>1, <1>1
    <3>3. j + 1 \in 2 .. n + 1 /\ j + 1 \in 1 .. n + 1 /\ (j + 1) - 1 = j
      BY <3>2, <1>1
    <3>4. lru_list'[j + 1] = lru_list[(j + 1) - 1]
      BY <3>3, <1>5
    <3> QED BY <3>1, <3>3, <3>4
  <2> QED BY <2>1, <2>2
<1>9. \A j, k \in 1 .. n + 1 : lru_list'[j] = lru_list'[k] => j = k
  <2> SUFFICES ASSUME NEW j \in 1 .. n + 1, NEW k \in 1 .. n + 1,
                      lru_list'[j] = lru_list'[k]
               PROVE  j = k
    OBVIOUS
  <2>1. \A m \in 2 .. n + 1 : m - 1 \in 1 .. len /\ lru_list'[m] # key
    BY <1>1, <1>4, <1>5
  <2>2. CASE j = 1 \/ k = 1
    BY <2>1, <2>2, <1>5, <1>1
  <2>3. CASE j # 1 /\ k # 1
    <3>1. j \in 2 .. n + 1 /\ k \in 2 .. n + 1
      BY <2>3, <1>1
    <3>2. lru_list[j - 1] = lru_list[k - 1]
      BY <3>1, <1>5
    <3>3. j - 1 = k - 1
      BY <3>1, <3>2, <2>1, <1>4
    <3> QED BY <3>1, <3>3, <1>1
  <2> QED BY <2>2, <2>3
<1>11. n + 1 <= MaxEntries
  BY <1>1, <1>2
<1> HIDE DEF keys, len
<1>10. {lru_list'[j] : j \in DOMAIN lru_list'} = keys
  BY <1>5, <1>6, <1>8
<1> QED BY <1>3, <1>5, <1>7, <1>9, <1>10, <1>11 DEF KInv, ListIs

\* The list and the map of the cache never come apart.
THEOREM CacheKeysTheorem == CacheSpec => []CacheKeysAgree
<1>1. CacheInit => KInv
  BY InitAgrees
<1>2. KInv /\ [CacheNext]_cacheVars => KInv'
  <2> SUFFICES ASSUME KInv, [CacheNext]_cacheVars PROVE KInv'
    OBVIOUS
  <2>1. ASSUME NEW key, NEW offsets, get(key) \/ put(key, offsets) PROVE KInv'
    <3>1. CASE get(key)
      BY <3>1, GetKeeps
    <3>2. CASE update(key, offsets)
      BY <3>2, UpdateKeeps
    <3>3. CASE insert(key, offsets)
      BY <3>3, InsertKeeps
    <3>4. CASE too_large(key, offsets)
      BY <3>4 DEF too_large, KInv, cacheVars
    <3> QED BY <2>1, <3>1, <3>2, <3>3, <3>4 DEF put
  <2>2. CASE UNCHANGED cacheVars
    BY <2>2 DEF KInv, cacheVars
  <2> QED BY <2>1, <2>2 DEF CacheNext
<1>3. KInv => CacheKeysAgree
  BY DEF KInv, ListIs, CacheKeysAgree
<1> QED BY <1>1, <1>2, <1>3, PTL DEF CacheSpec

----------------------------------------------------------------------------
(* The count of bytes.  A set of numbers with a counterexample to a claim  *)
(* has a least one: so the sums below exist and are unique.                *)

LEMMA LeastNumber ==
    ASSUME NEW T, T \subseteq Nat, T # {}
    PROVE  \E x \in T : \A y \in T : x <= y
<1> DEFINE R == OpToRel(<, Nat)
<1>1. IsWellFoundedOn(R, Nat)
  BY NatLessThanWellFounded
<1>2. \A a, b \in Nat : a < b => <<a, b>> \in R
  BY DEF OpToRel
<1> HIDE DEF R
<1>3. PICK x \in T : \A y \in T : ~(<<y, x>> \in R)
  BY <1>1, WFMin
<1>4. ASSUME NEW y \in T PROVE x <= y
  <2>1. x \in Nat /\ y \in Nat /\ ~(<<y, x>> \in R)
    BY <1>3
  <2>2. ~(y < x)
    BY <1>2, <2>1
  <2> QED BY <2>1, <2>2
<1> QED BY <1>4

\* F[n] is the sum of weights behind position n, down to position from.
TailsFrom(F, weights, len, from) ==
    /\ DOMAIN F = from .. len
    /\ F[len] = 0
    /\ \A n \in from .. len - 1 : F[n] = F[n + 1] + weights[n + 1]

Tails(F, weights, len) == TailsFrom(F, weights, len, 0)

LEMMA TailsExist ==
    ASSUME NEW len \in Nat, NEW weights, \A i \in 1 .. len : weights[i] \in Int
    PROVE  \E F \in [0 .. len -> Int] : Tails(F, weights, len)
<1> DEFINE Good(k) == \E F \in [len - k .. len -> Int] : TailsFrom(F, weights, len, len - k)
           Bad == {k \in 0 .. len : ~Good(k)}
<1>1. ASSUME NEW k \in Bad, \A m \in Bad : k <= m PROVE FALSE
  <2>2. k \in 0 .. len /\ ~Good(k)
    OBVIOUS
  <2>3. k # 0
    <3>1. CASE k = 0
      <4> DEFINE F == [n \in len .. len |-> 0]
      <4>1. F \in [len - k .. len -> Int] /\ TailsFrom(F, weights, len, len - k)
        BY <3>1 DEF TailsFrom
      <4>2. Good(k)
        BY <4>1
      <4> QED BY <2>2, <4>2
    <3> QED BY <3>1
  <2>4. k - 1 \in 0 .. len /\ k - 1 \notin Bad
    <3>1. k - 1 \in 0 .. len /\ ~(k <= k - 1)
      BY <2>2, <2>3
    <3> HIDE DEF Bad
    <3> QED BY <1>1, <3>1
  <2> DEFINE from == len - k
  <2>5. from \in Nat /\ from < len /\ len - (k - 1) = from + 1
    BY <2>2, <2>3
  <2>6. PICK F \in [from + 1 .. len -> Int] : TailsFrom(F, weights, len, from + 1)
    BY <2>4, <2>5
  <2> HIDE DEF from
  <2>7. /\ F[len] = 0
        /\ \A n \in from + 1 .. len - 1 : F[n] = F[n + 1] + weights[n + 1]
    BY <2>6 DEF TailsFrom
  <2> DEFINE G == [n \in from .. len |-> IF n = from THEN F[n + 1] + weights[n + 1] ELSE F[n]]
  <2>8. G \in [from .. len -> Int] /\ TailsFrom(G, weights, len, from)
    <3>1. F[from + 1] \in Int /\ weights[from + 1] \in Int
      BY <2>5
    <3>2. G \in [from .. len -> Int] /\ DOMAIN G = from .. len
      BY <2>5, <3>1
    <3>3. G[from] = F[from + 1] + weights[from + 1] /\ \A n \in from + 1 .. len : G[n] = F[n]
      BY <2>5
    <3> HIDE DEF G
    <3>4. \A n \in from .. len - 1 : G[n] = G[n + 1] + weights[n + 1]
      BY <2>5, <2>7, <3>3
    <3> QED BY <2>5, <2>7, <3>2, <3>3, <3>4 DEF TailsFrom
  <2>9. Good(k)
    BY <2>8 DEF from
  <2> QED BY <2>2, <2>9
<1>2. Bad \subseteq Nat
  OBVIOUS
<1>3. Bad = {}
  <2> HIDE DEF Bad
  <2> QED BY <1>1, <1>2, LeastNumber
<1>4. len \in 0 .. len /\ len - len = 0
  OBVIOUS
<1>5. Good(len)
  BY <1>3, <1>4
<1> QED BY <1>4, <1>5 DEF Tails

LEMMA TailsUnique ==
    ASSUME NEW len \in Nat, NEW weights, NEW F, NEW G, F = [n \in 0 .. len |-> F[n]],
           G = [n \in 0 .. len |-> G[n]], Tails(F, weights, len), Tails(G, weights, len)
    PROVE  F = G
<1> DEFINE Bad == {k \in 0 .. len : F[len - k] # G[len - k]}
<1>1. /\ F[len] = 0 /\ G[len] = 0
      /\ \A n \in 0 .. len - 1 : F[n] = F[n + 1] + weights[n + 1]
      /\ \A n \in 0 .. len - 1 : G[n] = G[n + 1] + weights[n + 1]
  BY DEF Tails, TailsFrom
<1>2. ASSUME NEW k \in Bad, \A m \in Bad : k <= m PROVE FALSE
  <2>2. k \in 0 .. len /\ F[len - k] # G[len - k]
    OBVIOUS
  <2>3. k # 0
    BY <1>1, <2>2
  <2>4. k - 1 \in 0 .. len /\ k - 1 \notin Bad
    <3>1. k - 1 \in 0 .. len /\ ~(k <= k - 1)
      BY <2>2, <2>3
    <3> HIDE DEF Bad
    <3> QED BY <1>2, <3>1
  <2>5. F[len - (k - 1)] = G[len - (k - 1)]
    BY <2>4
  <2>6. len - (k - 1) = (len - k) + 1 /\ len - k \in 0 .. len - 1
    BY <2>2, <2>3
  <2>7. F[len - k] = F[(len - k) + 1] + weights[(len - k) + 1]
        /\ G[len - k] = G[(len - k) + 1] + weights[(len - k) + 1]
    BY <1>1, <2>6
  <2> QED BY <2>2, <2>5, <2>6, <2>7
<1>3. Bad \subseteq Nat
  OBVIOUS
<1>4. Bad = {}
  <2> HIDE DEF Bad
  <2> QED BY <1>2, <1>3, LeastNumber
<1>5. ASSUME NEW n \in 0 .. len PROVE F[n] = G[n]
  <2>1. len - n \in 0 .. len /\ len - (len - n) = n
    OBVIOUS
  <2> QED BY <1>4, <2>1
<1> QED BY <1>5

\* Freed, as defined by recursion, is this sum over what the keys hold.
Weights == [i \in DOMAIN lru_list |-> Held(lru_list[i])]

ListWeighs ==
    /\ Len(lru_list) \in Nat /\ DOMAIN lru_list = 1 .. Len(lru_list)
    /\ \A i \in DOMAIN lru_list : Held(lru_list[i]) \in Int

FreedSums ==
    /\ Freed \in [0 .. Len(lru_list) -> Int]
    /\ Tails(Freed, Weights, Len(lru_list))

LEMMA FreedIsTails == ListWeighs => FreedSums
<1> SUFFICES ASSUME ListWeighs PROVE FreedSums
  OBVIOUS
<1> USE DEF ListWeighs
<1> DEFINE len == Len(lru_list)
           Step(F) == [n \in 0 .. len |->
                          IF n = len THEN 0 ELSE F[n + 1] + Held(lru_list[n + 1])]
<1>1. PICK F \in [0 .. len -> Int] : Tails(F, Weights, len)
  BY TailsExist DEF Weights
<1>2. F = Step(F)
  <2>1. F = [n \in 0 .. len |-> F[n]]
    OBVIOUS
  <2>2. \A n \in 0 .. len : F[n] = IF n = len THEN 0 ELSE F[n + 1] + Held(lru_list[n + 1])
    <3>1. F[len] = 0 /\ \A n \in 0 .. len - 1 : F[n] = F[n + 1] + Weights[n + 1]
      BY <1>1 DEF Tails, TailsFrom
    <3>2. \A n \in 0 .. len - 1 : Weights[n + 1] = Held(lru_list[n + 1])
      BY DEF Weights
    <3>3. len \in Nat
      OBVIOUS
    <3> HIDE DEF len
    <3>4. \A n \in 0 .. len : n # len => n \in 0 .. len - 1
      BY <3>3
    <3> QED BY <3>1, <3>2, <3>4
  <2> QED BY <2>1, <2>2
<1>3. Freed = CHOOSE G : G = Step(G)
  BY DEF Freed
<1>4. Freed = Step(Freed)
  BY <1>2, <1>3
<1>5. Freed = [n \in 0 .. len |-> Freed[n]] /\ Tails(Freed, Weights, len)
  BY <1>4 DEF Tails, TailsFrom, Weights
<1>6. Freed = F
  BY <1>1, <1>5, TailsUnique
<1> QED BY <1>1, <1>6 DEF FreedSums

\* The same after a step, and what it is when another function is the sum.
LEMMA FreedAfter ==
    ASSUME ListWeighs', NEW F, F \in [0 .. Len(lru_list') -> Int],
           Tails(F, Weights', Len(lru_list'))
    PROVE  Freed' = F
<1>1. FreedSums'
  <2>1. (ListWeighs => FreedSums)'
    BY FreedIsTails, PTL
  <2> QED BY <2>1
<1>2. Freed' = [n \in 0 .. Len(lru_list') |-> Freed'[n]]
      /\ Tails(Freed', Weights', Len(lru_list'))
  BY <1>1 DEF FreedSums, Tails, TailsFrom
<1>3. F = [n \in 0 .. Len(lru_list') |-> F[n]] /\ Len(lru_list') \in Nat
  BY DEF ListWeighs
<1> QED BY <1>2, <1>3, TailsUnique


Sums(F, w, len) == F \in [0 .. len -> Int] /\ Tails(F, w, len)

\* The weights v of a list one of whose entries went to the front, with
\* another weight.
MovedToFront(w, v, len, i, b) ==
    /\ i \in 1 .. len /\ b \in Int /\ \A j \in 1 .. len : w[j] \in Int
    /\ v[1] = b
    /\ \A j \in 2 .. i : v[j] = w[j - 1]
    /\ \A j \in i + 1 .. len : v[j] = w[j]

LEMMA FrontSum ==
    ASSUME NEW len \in Nat, NEW w, NEW F, Sums(F, w, len), NEW v, NEW i, NEW b,
           MovedToFront(w, v, len, i, b)
    PROVE  \E G : Sums(G, v, len) /\ G[0] = F[0] - w[i] + b
<1> USE DEF MovedToFront, Sums
<1> DEFINE G == [n \in 0 .. len |-> IF n = 0 THEN F[0] - w[i] + b
                                   ELSE IF n < i THEN F[n - 1] - w[i] ELSE F[n]]
<1>1. F[len] = 0 /\ \A n \in 0 .. len - 1 : F[n] = F[n + 1] + w[n + 1]
  BY DEF Tails, TailsFrom
<1>2. \A n \in 0 .. len : F[n] \in Int
  OBVIOUS
<1>3. G \in [0 .. len -> Int] /\ DOMAIN G = 0 .. len
  <2>1. ASSUME NEW n \in 0 .. len PROVE G[n] \in Int
    BY SMTT(40), <1>2
  <2> QED BY <2>1
<1>4. /\ G[0] = F[0] - w[i] + b
      /\ \A n \in 1 .. i - 1 : G[n] = F[n - 1] - w[i]
      /\ \A n \in i .. len : G[n] = F[n]
  OBVIOUS
<1> HIDE DEF G
<1>5. ASSUME NEW n \in 0 .. len - 1 PROVE G[n] = G[n + 1] + v[n + 1]
  <2>1. CASE n = 0
    <3>1. F[0] \in Int /\ F[1] \in Int /\ w[1] \in Int /\ w[i] \in Int /\ F[0] = F[1] + w[1]
      BY <2>1, <1>1, <1>2
    <3>2. CASE i = 1
      <4>1. G[0] = F[0] - w[1] + b /\ G[1] = F[1]
        BY <3>2, <1>4
      <4> QED BY <2>1, <3>1, <4>1
    <3>3. CASE i # 1
      <4>1. G[0] = F[0] - w[i] + b /\ G[1] = F[0] - w[i]
        BY <3>3, <1>4
      <4> QED BY <2>1, <3>1, <4>1
    <3> QED BY <3>2, <3>3
  <2>2. CASE n \in 1 .. i - 1 /\ n + 1 < i
    <3>1. v[n + 1] = w[n] /\ F[n - 1] = F[n] + w[n]
      <4>1. n - 1 \in 0 .. len - 1 /\ n + 1 \in 2 .. i /\ (n - 1) + 1 = n /\ (n + 1) - 1 = n
        BY <2>2
      <4> QED BY <4>1, <1>1
    <3>2. G[n] = F[n - 1] - w[i] /\ G[n + 1] = F[n] - w[i]
      <4>1. n + 1 \in 1 .. i - 1 /\ (n + 1) - 1 = n
        BY <2>2
      <4> QED BY <2>2, <4>1, <1>4
    <3>3. F[n] \in Int /\ F[n - 1] \in Int /\ w[n] \in Int /\ w[i] \in Int
      BY <1>2, <2>2
    <3> QED BY SMTT(40), <3>1, <3>2, <3>3
  <2>3. CASE n + 1 = i /\ n # 0
    <3>1. v[i] = w[n] /\ F[n - 1] = F[n] + w[n] /\ F[n] = F[i] + w[i]
      <4>1. n - 1 \in 0 .. len - 1 /\ i \in 2 .. i /\ (n - 1) + 1 = n /\ i - 1 = n
        BY <2>3
      <4> QED BY <2>3, <4>1, <1>1
    <3>2. G[n] = F[n - 1] - w[i] /\ G[i] = F[i]
      BY <2>3, <1>4
    <3>3. /\ F[n] \in Int /\ F[n - 1] \in Int /\ F[i] \in Int /\ w[n] \in Int
          /\ w[i] \in Int
      BY <1>2, <2>3
    <3>4. G[n] = G[i] + v[i]
      BY <3>1, <3>2, <3>3
    <3> QED BY <2>3, <3>4
  <2>4. CASE n >= i
    BY <2>4, <1>1, <1>4
  <2> QED BY <2>1, <2>2, <2>3, <2>4
<1>6. G[len] = 0
  BY <1>1, <1>4
<1> QED BY <1>3, <1>4, <1>5, <1>6 DEF Tails, TailsFrom

\* Those of a list of which the first n entries stay, behind a new one.
MadeRoom(w, v, len, n, b) ==
    /\ n \in 0 .. len /\ b \in Int /\ \A j \in 1 .. len : w[j] \in Int
    /\ v[1] = b
    /\ \A j \in 2 .. n + 1 : v[j] = w[j - 1]

LEMMA InsertSum ==
    ASSUME NEW len \in Nat, NEW w, NEW F, Sums(F, w, len), NEW v, NEW n, NEW b,
           MadeRoom(w, v, len, n, b)
    PROVE  \E G : Sums(G, v, n + 1) /\ G[0] = F[0] - F[n] + b
<1> USE DEF MadeRoom, Sums
<1> DEFINE G == [m \in 0 .. n + 1 |-> IF m = 0 THEN F[0] - F[n] + b ELSE F[m - 1] - F[n]]
<1>1. \A m \in 0 .. len - 1 : F[m] = F[m + 1] + w[m + 1]
  BY DEF Tails, TailsFrom
<1>2. \A m \in 0 .. len : F[m] \in Int
  OBVIOUS
<1>3. G \in [0 .. n + 1 -> Int] /\ DOMAIN G = 0 .. n + 1
  <2>1. ASSUME NEW m \in 0 .. n + 1 PROVE G[m] \in Int
    BY <1>2
  <2> QED BY <2>1
<1>4. G[0] = F[0] - F[n] + b /\ \A m \in 1 .. n + 1 : G[m] = F[m - 1] - F[n]
  OBVIOUS
<1> HIDE DEF G
<1>5. ASSUME NEW m \in 0 .. n PROVE G[m] = G[m + 1] + v[m + 1]
  <2>1. CASE m = 0
    BY <2>1, <1>2, <1>4
  <2>2. CASE m # 0
    <3>1. /\ m - 1 \in 0 .. len - 1 /\ m + 1 \in 2 .. n + 1 /\ (m + 1) - 1 = m
          /\ (m - 1) + 1 = m /\ m \in 1 .. n + 1 /\ m + 1 \in 1 .. n + 1
      BY <2>2
    <3>2. v[m + 1] = w[m] /\ F[m - 1] = F[m] + w[m]
      BY <3>1, <1>1
    <3>3. G[m] = F[m - 1] - F[n] /\ G[m + 1] = F[m] - F[n]
      BY <3>1, <1>4
    <3>4. F[m] \in Int /\ F[m - 1] \in Int /\ F[n] \in Int /\ w[m] \in Int
      BY <3>1, <1>2
    <3> QED BY <3>2, <3>3, <3>4
  <2> QED BY <2>1, <2>2
<1>6. G[n + 1] = 0
  BY <1>2, <1>4
<1>7. Tails(G, v, n + 1)
  BY <1>3, <1>5, <1>6 DEF Tails, TailsFrom
<1> QED BY <1>3, <1>4, <1>7

----------------------------------------------------------------------------
\* What a value takes is a number of bytes.
BytesAreNumbers == \A offsets : BytesOf(offsets) \in Nat

AccountsInv == KInv /\ cached_bytes = Freed[0]

LEMMA ListIsWeighed == BytesAreNumbers /\ KInv => ListWeighs
<1> SUFFICES ASSUME BytesAreNumbers, KInv PROVE ListWeighs
  OBVIOUS
<1>1. Len(lru_list) \in Nat /\ DOMAIN lru_list = 1 .. Len(lru_list)
      /\ \A i \in DOMAIN lru_list : lru_list[i] \in DOMAIN cache
  BY DEF KInv, ListIs
<1> QED BY <1>1 DEF ListWeighs, Held, BytesAreNumbers

LEMMA ListIsWeighedAfter == BytesAreNumbers /\ KInv' => ListWeighs'
<1>1. (BytesAreNumbers /\ KInv => ListWeighs)'
  BY ListIsWeighed, PTL
<1> QED BY <1>1 DEF BytesAreNumbers

LEMMA SameLength == ASSUME NEW m \in Nat, NEW n \in Nat, 1 .. m = 1 .. n PROVE m = n
<1>1. m # 0 => m \in 1 .. n
  <2>1. m # 0 => m \in 1 .. m
    OBVIOUS
  <2> QED BY <2>1
<1>2. n # 0 => n \in 1 .. m
  <2>1. n # 0 => n \in 1 .. n
    OBVIOUS
  <2> QED BY <2>1
<1> QED BY <1>1, <1>2

LEMMA WeightsAre ==
    KInv => /\ DOMAIN Weights = DOMAIN lru_list
            /\ \A j \in DOMAIN lru_list : /\ lru_list[j] \in DOMAIN cache
                                          /\ Weights[j] = BytesOf(cache[lru_list[j]])
<1> SUFFICES ASSUME KInv
             PROVE  \A j \in DOMAIN lru_list : lru_list[j] \in DOMAIN cache
  BY DEF Weights, Held
<1> QED BY DEF KInv, ListIs

LEMMA WeightsAreAfter ==
    KInv' => \A j \in DOMAIN lru_list' : Weights'[j] = BytesOf(cache'[lru_list'[j]])
<1>1. (KInv => /\ DOMAIN Weights = DOMAIN lru_list
               /\ \A j \in DOMAIN lru_list : /\ lru_list[j] \in DOMAIN cache
                                             /\ Weights[j] = BytesOf(cache[lru_list[j]]))'
  BY WeightsAre, PTL
<1> QED BY <1>1

\* A hit, or a value that replaces another: its entry goes to the front.
LEMMA FrontAccounts ==
    ASSUME BytesAreNumbers, AccountsInv, KInv', NEW i \in DOMAIN lru_list,
           lru_list' = ToFront(i), NEW key, key = lru_list[i],
           \A k \in DOMAIN cache : k # key => cache'[k] = cache[k]
    PROVE  Freed'[0] = Freed[0] - BytesOf(cache[key]) + BytesOf(cache'[key])
<1> DEFINE len == Len(lru_list)
           w == Weights
           v == Weights'
           b == BytesOf(cache'[key])
<1>1. /\ ListWeighs /\ FreedSums /\ ListWeighs' /\ len \in Nat /\ DOMAIN lru_list = 1 .. len
      /\ Freed \in [0 .. len -> Int] /\ Tails(Freed, w, len) /\ b \in Int
  BY FreedIsTails, ListIsWeighed, ListIsWeighedAfter
  DEF AccountsInv, ListWeighs, FreedSums, BytesAreNumbers
<1>2. /\ \A j \in 1 .. len : /\ lru_list[j] \in DOMAIN cache
                             /\ w[j] = BytesOf(cache[lru_list[j]])
                             /\ j # i => lru_list[j] # key
      /\ \A j \in 1 .. len : w[j] \in Int
  <2>1. KInv /\ \A j, k \in DOMAIN lru_list : lru_list[j] = lru_list[k] => j = k
    BY DEF AccountsInv, KInv, ListIs
  <2>2. \A j \in 1 .. len : lru_list[j] \in DOMAIN cache /\ w[j] = BytesOf(cache[lru_list[j]])
    BY <1>1, <2>1, WeightsAre
  <2>3. \A j \in 1 .. len : w[j] \in Int
    BY <2>2 DEF BytesAreNumbers
  <2>4. \A j \in 1 .. len : j # i => lru_list[j] # key
    BY <1>1, <2>1
  <2> QED BY <2>2, <2>3, <2>4
<1>3. /\ DOMAIN lru_list' = 1 .. len /\ lru_list'[1] = key
      /\ \A j \in 2 .. i : lru_list'[j] = lru_list[j - 1]
      /\ \A j \in i + 1 .. len : lru_list'[j] = lru_list[j]
  BY <1>1 DEF ToFront
<1>4. Len(lru_list') = len
  BY <1>1, <1>3, SameLength DEF ListWeighs
<1>5. \A j \in 1 .. len : v[j] = BytesOf(cache'[lru_list'[j]])
  BY <1>3, WeightsAreAfter
<1> HIDE DEF len, w, v, b
<1>6. v[1] = b
  BY <1>1, <1>3, <1>5 DEF b
<1>7. \A j \in 2 .. i : v[j] = w[j - 1]
  <2> SUFFICES ASSUME NEW j \in 2 .. i PROVE v[j] = w[j - 1]
    OBVIOUS
  <2>1. j \in 1 .. len /\ j - 1 \in 1 .. len /\ j - 1 # i
    BY <1>1
  <2>2. lru_list[j - 1] \in DOMAIN cache /\ lru_list[j - 1] # key
    BY <1>2, <2>1
  <2> QED BY <1>2, <1>3, <1>5, <2>1, <2>2
<1>8. \A j \in i + 1 .. len : v[j] = w[j]
  <2> SUFFICES ASSUME NEW j \in i + 1 .. len PROVE v[j] = w[j]
    OBVIOUS
  <2>1. j \in 1 .. len /\ j # i
    BY <1>1
  <2>2. lru_list[j] \in DOMAIN cache /\ lru_list[j] # key
    BY <1>2, <2>1
  <2> QED BY <1>2, <1>3, <1>5, <2>1, <2>2
<1>9. PICK G : Sums(G, v, len) /\ G[0] = Freed[0] - w[i] + b
  <2>1. MovedToFront(w, v, len, i, b) /\ Sums(Freed, w, len)
    BY <1>1, <1>2, <1>6, <1>7, <1>8 DEF MovedToFront, Sums
  <2> QED BY <1>1, <2>1, FrontSum
<1>10. Freed' = G
  BY <1>1, <1>4, <1>9, FreedAfter DEF v, Sums
<1> QED BY <1>1, <1>2, <1>9, <1>10 DEF b

LEMMA InsertAccounts ==
    ASSUME BytesAreNumbers, AccountsInv, NEW key, NEW offsets, insert(key, offsets), KInv'
    PROVE  AccountsInv'
<1> DEFINE len == Len(lru_list)
           w == Weights
           v == Weights'
           b == BytesOf(offsets)
<1>1. /\ ListWeighs /\ ListWeighs' /\ len \in Nat /\ DOMAIN lru_list = 1 .. len
      /\ Freed \in [0 .. len -> Int] /\ Tails(Freed, w, len) /\ b \in Int
  BY FreedIsTails, ListIsWeighed, ListIsWeighedAfter
  DEF AccountsInv, ListWeighs, FreedSums, BytesAreNumbers
<1>2. PICK n \in 0 .. len :
        /\ lru_list' = [j \in 1 .. n + 1 |-> IF j = 1 THEN key ELSE lru_list[j - 1]]
        /\ cache' = [k \in (DOMAIN cache \ {lru_list[j] : j \in n + 1 .. len}) \union {key} |->
                        IF k = key THEN offsets ELSE cache[k]]
        /\ cached_bytes' = cached_bytes - Freed[n] + b
  BY DEF insert
<1>3. /\ DOMAIN lru_list' = 1 .. n + 1 /\ lru_list'[1] = key
      /\ \A j \in 2 .. n + 1 : lru_list'[j] = lru_list[j - 1]
  BY <1>2
<1>4. Len(lru_list') = n + 1
  <2>1. n + 1 \in Nat
    BY <1>1
  <2>2. Len(lru_list') \in Nat /\ 1 .. Len(lru_list') = 1 .. n + 1
    BY <1>1, <1>3 DEF ListWeighs
  <2> QED BY <2>1, <2>2, SameLength
<1>5. /\ \A j \in 1 .. len : /\ lru_list[j] \in DOMAIN cache /\ lru_list[j] # key
                             /\ w[j] = BytesOf(cache[lru_list[j]])
      /\ \A j \in 1 .. len : w[j] \in Int
  <2>1. KInv /\ key \notin DOMAIN cache
    BY DEF AccountsInv, insert
  <2>2. \A j \in 1 .. len : lru_list[j] \in DOMAIN cache /\ w[j] = BytesOf(cache[lru_list[j]])
    BY <1>1, <2>1, WeightsAre
  <2> QED BY <2>1, <2>2 DEF BytesAreNumbers
<1>6. \A j, k \in 1 .. len : lru_list[j] = lru_list[k] => j = k
  BY <1>1 DEF AccountsInv, KInv, ListIs
<1>7. cache'[key] = offsets /\ \A j \in 1 .. n : cache'[lru_list[j]] = cache[lru_list[j]]
  <2>1. \A j \in 1 .. n : lru_list[j] \in DOMAIN cache \ {lru_list[k] : k \in n + 1 .. len}
    BY <1>1, <1>5, <1>6
  <2> QED BY <1>1, <1>2, <1>5, <2>1
<1>8. \A j \in 1 .. n + 1 : v[j] = BytesOf(cache'[lru_list'[j]])
  BY <1>3, WeightsAreAfter
<1> HIDE DEF len, w, v, b
<1>9. v[1] = b
  BY <1>1, <1>3, <1>7, <1>8 DEF b
<1>10. \A j \in 2 .. n + 1 : v[j] = w[j - 1]
  <2> SUFFICES ASSUME NEW j \in 2 .. n + 1 PROVE v[j] = w[j - 1]
    OBVIOUS
  <2>1. j \in 1 .. n + 1 /\ j - 1 \in 1 .. n /\ j - 1 \in 1 .. len
    BY <1>1
  <2> QED BY <1>3, <1>5, <1>7, <1>8, <2>1
<1>11. PICK G : Sums(G, v, n + 1) /\ G[0] = Freed[0] - Freed[n] + b
  <2>1. MadeRoom(w, v, len, n, b) /\ Sums(Freed, w, len)
    BY <1>1, <1>5, <1>9, <1>10 DEF MadeRoom, Sums
  <2> QED BY SMTT(40), <1>1, <2>1, InsertSum
<1>12. Freed' = G
  BY <1>1, <1>4, <1>11, FreedAfter DEF v, Sums
<1> QED BY <1>2, <1>11, <1>12 DEF AccountsInv

LEMMA StepAccounts ==
    ASSUME BytesAreNumbers, AccountsInv, NEW key, NEW offsets, get(key) \/ put(key, offsets)
    PROVE  AccountsInv'
<1>1. CASE get(key)
  <2>1. KInv' /\ UNCHANGED <<cache, cached_bytes>>
    BY <1>1, GetKeeps DEF AccountsInv, get
  <2>2. PICK i \in DOMAIN lru_list : lru_list[i] = key /\ lru_list' = ToFront(i)
    BY <1>1 DEF get
  <2>3. Freed'[0] = Freed[0] - BytesOf(cache[key]) + BytesOf(cache[key])
        /\ BytesOf(cache[key]) \in Int
    BY <2>1, <2>2, FrontAccounts DEF BytesAreNumbers
  <2>4. Freed[0] \in Int
    BY FreedIsTails, ListIsWeighed DEF AccountsInv, FreedSums, ListWeighs
  <2> QED BY <2>1, <2>3, <2>4 DEF AccountsInv
<1>2. CASE update(key, offsets)
  <2>1. KInv'
    BY <1>2, UpdateKeeps DEF AccountsInv
  <2>2. PICK i \in DOMAIN lru_list : lru_list[i] = key /\ lru_list' = ToFront(i)
    BY <1>2 DEF update
  <2>3. /\ cache'[key] = offsets /\ \A k \in DOMAIN cache : k # key => cache'[k] = cache[k]
        /\ cached_bytes' = cached_bytes - BytesOf(cache[key]) + BytesOf(offsets)
    BY <1>2 DEF update
  <2>4. Freed'[0] = Freed[0] - BytesOf(cache[key]) + BytesOf(offsets)
    BY <2>1, <2>2, <2>3, FrontAccounts
  <2> QED BY <2>1, <2>3, <2>4 DEF AccountsInv
<1>3. CASE insert(key, offsets)
  BY <1>3, InsertKeeps, InsertAccounts DEF AccountsInv
<1>4. CASE too_large(key, offsets)
  <2>1. UNCHANGED <<cache, lru_list, cached_bytes>>
    BY <1>4 DEF too_large, cacheVars
  <2>2. KInv' /\ Freed' = Freed
    BY <2>1 DEF AccountsInv, KInv, Freed, Held
  <2> QED BY <2>1, <2>2 DEF AccountsInv
<1> QED BY <1>1, <1>2, <1>3, <1>4 DEF put

\* The count is always that of what the cache holds (gdb_tablx_cache.cpp): no
\* sequence of hits, replacements and evictions lets it drift.
THEOREM CacheAccountsTheorem ==
    ASSUME BytesAreNumbers PROVE CacheSpec => []CacheIsAccounted
<1>1. CacheInit => AccountsInv
  <2> SUFFICES ASSUME CacheInit PROVE AccountsInv
    OBVIOUS
  <2>1. KInv /\ ListWeighs /\ FreedSums
    BY InitAgrees, ListIsWeighed, FreedIsTails
  <2>2. Len(lru_list) = 0 /\ cached_bytes = 0
    BY DEF CacheInit
  <2> QED BY <2>1, <2>2 DEF AccountsInv, FreedSums, Tails, TailsFrom
<1>2. AccountsInv /\ [CacheNext]_cacheVars => AccountsInv'
  <2> SUFFICES ASSUME AccountsInv, [CacheNext]_cacheVars PROVE AccountsInv'
    OBVIOUS
  <2>1. CASE CacheNext
    BY <2>1, StepAccounts DEF CacheNext
  <2>2. CASE UNCHANGED cacheVars
    <3>1. KInv' /\ Freed' = Freed /\ cached_bytes' = cached_bytes
      BY <2>2 DEF AccountsInv, KInv, Freed, Held, cacheVars
    <3> QED BY <3>1 DEF AccountsInv
  <2> QED BY <2>1, <2>2
<1>3. AccountsInv => CacheIsAccounted
  BY DEF AccountsInv, KInv, ListIs, CacheIsAccounted, CacheKeysAgree
<1> QED BY <1>1, <1>2, <1>3, PTL DEF CacheSpec

----------------------------------------------------------------------------
(* Offsets.                                                                *)

Byte == 0 .. 255

\* Four and five bytes are worth what they are in base 256.
THEOREM ShortOffsetsAreExact ==
    ASSUME NEW b1 \in Byte, NEW b2 \in Byte, NEW b3 \in Byte, NEW b4 \in Byte,
           NEW b5 \in Byte
    PROVE  /\ read_offset(<<b1, b2, b3, b4>>) =
                  b1 + 256 * (b2 + 256 * (b3 + 256 * b4))
           /\ read_offset(<<b1, b2, b3, b4, b5>>) =
                  b1 + 256 * (b2 + 256 * (b3 + 256 * (b4 + 256 * b5)))
<1>1. /\ read_offset(<<b1, b2, b3, b4>>) = Low32(b1, b2, b3, b4)
      /\ read_offset(<<b1, b2, b3, b4, b5>>) = b1 + 256 * Low32(b2, b3, b4, b5)
  BY DEF read_offset
<1> QED BY <1>1 DEF Low32, Byte

LEMMA ModPlusMultiple ==
    ASSUME NEW a \in Nat, NEW k \in Byte
    PROVE  (a + k * 4294967296) % 4294967296 = a % 4294967296
BY DEF Byte

\* gdb_tablx.cpp:169: the fifth of six bytes is shifted out of a uint32_t.
\* Two offsets that differ in it only are read as the same row's place.
THEOREM SixBytesLoseOne ==
    ASSUME NEW b1 \in Byte, NEW b2 \in Byte, NEW b3 \in Byte, NEW b4 \in Byte,
           NEW b5 \in Byte, NEW other \in Byte, NEW b6 \in Byte
    PROVE  read_offset(<<b1, b2, b3, b4, b5, b6>>)
             = read_offset(<<b1, b2, b3, b4, other, b6>>)
<1> DEFINE low == 256 * (b2 + 256 * b3 + 65536 * b4)
<1>1. /\ 256 * Low32(b2, b3, b4, b5) = low + b5 * 4294967296
      /\ 256 * Low32(b2, b3, b4, other) = low + other * 4294967296
  BY DEF Low32, Byte
<1>2. 65536 * 65536 = 4294967296 /\ low \in Nat
  BY DEF Byte
<1>3. /\ Uint32(256 * Low32(b2, b3, b4, b5)) = low % 4294967296
      /\ Uint32(256 * Low32(b2, b3, b4, other)) = low % 4294967296
  BY <1>1, <1>2, ModPlusMultiple DEF Uint32, Byte
<1> QED BY <1>3 DEF read_offset

\* A file of version 4 is parsed, and its table has no rows that can be read.
THEOREM VersionFourHasNoOffsets ==
    ASSUME NEW file, file.version = 4, file.data \in Seq(Byte), parse(file).ok
    PROVE  parse(file).offsets = <<>>
BY DEF parse

----------------------------------------------------------------------------
\* The Readers and Layers over the files.

ReaderFields == {"open", "files", "names", "stamps", "indexes", "parses"}
LayerFields == {"reader", "table", "offsets"}
AlwaysThere == Files \ {"indexes"}

DiskOK ==
    /\ AlwaysThere \subseteq DOMAIN disk
    /\ \A f \in DOMAIN disk : disk[f] \in Nat

CallsOK ==
    /\ calls \in [DOMAIN MaxCalls -> Nat]
    /\ readers = [r \in 1 .. calls["open"] |-> readers[r]]
    /\ calls["open"] <= MaxCalls["open"]
    /\ DOMAIN index_lock = 1 .. MaxCalls["open"]

\* An open Reader's fingerprint lies behind the files.
ReaderOK(r) ==
    /\ DOMAIN readers[r] = ReaderFields
    /\ readers[r].open =>
        /\ AlwaysThere \subseteq DOMAIN readers[r].stamps
        /\ DOMAIN readers[r].stamps \subseteq DOMAIN disk
        /\ \A f \in DOMAIN readers[r].stamps :
              readers[r].stamps[f] \in Nat /\ readers[r].stamps[f] <= disk[f]

\* What was read of file f under Reader r.
Between(r, f, stamp) ==
    stamp \in Nat /\ readers[r].stamps[f] <= stamp /\ stamp <= disk[f]

IsOpen(r) == r \in DOMAIN readers /\ readers[r].open

LayerOK(l) ==
    /\ DOMAIN l = LayerFields
    /\ l # NoLayer => IsOpen(l.reader) /\ Between(l.reader, "table", l.table)

\* The Reader or Layer that thread t is opening.
OpeningOK(t) ==
    /\ DOMAIN opening[t] = LayerFields
    /\ pc[t] \in {"load", "capture"} =>
          opening[t].reader \in DOMAIN readers /\ ~readers[opening[t].reader].open
    /\ pc[t] \in {"table", "lookup", "parse", "store"} => IsOpen(opening[t].reader)
    /\ pc[t] \in {"lookup", "parse", "store"} =>
          Between(opening[t].reader, "table", opening[t].table)

\* Calls that the fingerprint let through.
Reading == {"read", "index", "lock", "parse_indexes", "metadata"}

ReadingOK(t) ==
    pc[t] \in Reading =>
        /\ layer[t] # NoLayer
        /\ layer[t].table = readers[layer[t].reader].stamps["table"]

LoadsOK(t) ==
    /\ loads[t] \in Seq(Int)
    /\ Len(loads[t]) <= Len(MetadataLoads)
    /\ pc[t] = "metadata" =>
          \A i \in DOMAIN loads[t] :
              Between(layer[t].reader, MetadataLoads[i], loads[t][i])

AnswerOK(t) ==
    /\ answer[t].ok \in BOOLEAN
    /\ answer[t].ok =>
        LET r == answer[t].reader
        IN  /\ IsOpen(r)
            /\ answer[t].snapshot =
                  Metadata(readers[r].stamps["table"],
                           [i \in DOMAIN MetadataLoads |->
                               Stamp(MetadataLoads[i], readers[r].stamps)],
                           readers[r].names)

ThreadOK(t) ==
    /\ OpeningOK(t)
    /\ LayerOK(layer[t])
    /\ ReadingOK(t)
    /\ LoadsOK(t)
    /\ AnswerOK(t)

\* No two threads open the same Reader.
OpeningApart ==
    \A t, u \in Threads :
        /\ pc[t] \in {"load", "capture"} /\ pc[u] \in {"load", "capture"}
        /\ opening[t].reader = opening[u].reader
        => t = u

\* The exclusive lock of a Reader's indexes is with the thread that parses
\* them, and they are not parsed yet.
LockOK ==
    /\ \A r \in DOMAIN readers : index_lock[r] # 0 =>
          /\ index_lock[r] \in Threads
          /\ pc[index_lock[r]] = "parse_indexes"
          /\ layer[index_lock[r]].reader = r
    /\ \A r \in 1 .. MaxCalls["open"] : r \notin DOMAIN readers => index_lock[r] = 0
    /\ \A t \in Threads : pc[t] = "parse_indexes" =>
          /\ index_lock[layer[t].reader] = t
          /\ readers[layer[t].reader].indexes = "unread"

ParsedOK ==
    \A r \in DOMAIN readers :
        /\ readers[r].parses \in {0, 1}
        /\ readers[r].parses = 1 <=> readers[r].indexes # "unread"

FilesInv ==
    /\ DOMAIN pc = Threads /\ DOMAIN layer = Threads /\ DOMAIN opening = Threads
    /\ DOMAIN loads = Threads /\ DOMAIN answer = Threads
    /\ writing \in Seq(Files)
    /\ DiskOK
    /\ CallsOK
    /\ \A r \in DOMAIN readers : ReaderOK(r)
    /\ \A t \in Threads : ThreadOK(t)
    /\ OpeningApart
    /\ LockOK
    /\ ParsedOK

----------------------------------------------------------------------------
(* What a step may do to what other threads rely on.                       *)

\* Readers do not go away, and an open one keeps its fingerprint and names.
Frozen ==
    \A r \in DOMAIN readers :
        /\ r \in DOMAIN readers'
        /\ DOMAIN readers'[r] = ReaderFields
        /\ readers[r].open =>
              /\ readers'[r].open
              /\ readers'[r].stamps = readers[r].stamps
              /\ readers'[r].names = readers[r].names

\* Files do not go away, and their stamps only grow.
DiskGrows ==
    \A f \in DOMAIN disk :
        f \in DOMAIN disk' /\ disk'[f] \in Nat /\ disk[f] <= disk'[f]

\* Thread t is where it was, and the Reader it opens is still not open.
Rests(t) ==
    /\ pc'[t] = pc[t] /\ layer'[t] = layer[t] /\ opening'[t] = opening[t]
    /\ loads'[t] = loads[t] /\ answer'[t] = answer[t]
    /\ pc[t] \in {"load", "capture"} => ~readers'[opening[t].reader].open

\* What read_metadata loads are system tables.
LEMMA MetadataLoadsType == MetadataLoads \in Seq(SystemTables)
<1>1. /\ <<Items>> \in Seq(SystemTables)
      /\ <<Items, Items>> \in Seq(SystemTables)
      /\ <<Items, Relationships, Types>> \in Seq(SystemTables)
      /\ <<Items, ItemTypes, Relationships, Types>> \in Seq(SystemTables)
      /\ <<Items, Relationships, Types, ItemTypes, "GDB_Datasets",
           "GDB_DatasetRelationships">> \in Seq(SystemTables)
  BY DEF Items, Relationships, Types, ItemTypes, SystemTables
<1>2. \A a, b \in Seq(SystemTables) : a \o b \in Seq(SystemTables)
  BY ConcatProperties
<1> QED BY <1>1, <1>2 DEF MetadataLoads

LEMMA ReadsAreFiles ==
    /\ "table" \in AlwaysThere /\ "tablx" \in AlwaysThere
    /\ \A i \in DOMAIN MetadataLoads : MetadataLoads[i] \in AlwaysThere
<1>1. \A i \in DOMAIN MetadataLoads : MetadataLoads[i] \in SystemTables
  BY MetadataLoadsType, ElementOfSeq, LenProperties
<1>2. SystemTables \subseteq AlwaysThere /\ LayerFiles \ {"indexes"} \subseteq AlwaysThere
  BY DEF AlwaysThere, Files, SystemTables, LayerFiles
<1> QED BY <1>1, <1>2 DEF LayerFiles

\* What was read stays between the fingerprint and the files.
LEMMA BetweenStays ==
    ASSUME DiskOK, Frozen, DiskGrows, NEW r, IsOpen(r), NEW f \in AlwaysThere,
           NEW stamp, Between(r, f, stamp)
    PROVE  IsOpen(r)' /\ Between(r, f, stamp)' /\ readers'[r].stamps = readers[r].stamps
           /\ readers'[r].names = readers[r].names
<1>1. r \in DOMAIN readers' /\ readers'[r].open
      /\ readers'[r].stamps = readers[r].stamps
      /\ readers'[r].names = readers[r].names
  BY DEF IsOpen, Frozen
<1>2. f \in DOMAIN disk /\ disk[f] \in Nat /\ disk'[f] \in Nat /\ disk[f] <= disk'[f]
  BY DEF DiskOK, DiskGrows
<1> QED BY <1>1, <1>2 DEF IsOpen, Between

\* A Layer that is open stays as good, and so does an answer.
LEMMA LayerStays ==
    ASSUME DiskOK, Frozen, DiskGrows, NEW t \in Threads, LayerOK(layer[t]),
           layer'[t] = layer[t]
    PROVE  LayerOK(layer[t])'
<1>1. CASE layer[t] = NoLayer
  BY <1>1 DEF LayerOK
<1>2. CASE layer[t] # NoLayer
  <2>1. IsOpen(layer[t].reader) /\ Between(layer[t].reader, "table", layer[t].table)
    BY <1>2 DEF LayerOK
  <2>2. readers'[layer[t].reader].stamps = readers[layer[t].reader].stamps
        /\ IsOpen(layer[t].reader)'
    BY <2>1 DEF Frozen, IsOpen
  <2>3. disk["table"] \in Nat /\ disk'["table"] \in Nat /\ disk["table"] <= disk'["table"]
    BY ReadsAreFiles DEF DiskOK, DiskGrows
  <2> QED BY <2>1, <2>2, <2>3 DEF LayerOK, Between, IsOpen
<1> QED BY <1>1, <1>2

LEMMA AnswerStays ==
    ASSUME Frozen, NEW t \in Threads, AnswerOK(t), answer'[t] \in {answer[t], NoAnswer}
    PROVE  AnswerOK(t)'
<1>1. CASE answer'[t] = NoAnswer
  BY <1>1 DEF AnswerOK, NoAnswer
<1>2. CASE answer'[t] = answer[t]
  <2>1. ASSUME answer[t].ok
        PROVE  /\ IsOpen(answer[t].reader)'
               /\ readers'[answer[t].reader].stamps = readers[answer[t].reader].stamps
               /\ readers'[answer[t].reader].names = readers[answer[t].reader].names
    BY <1>2, <2>1 DEF AnswerOK, IsOpen, Frozen
  <2> QED BY <1>2, <2>1 DEF AnswerOK
<1> QED BY <1>1, <1>2

\* A thread that rests is not disturbed by the steps of others.
LEMMA ThreadStays ==
    ASSUME DiskOK, Frozen, DiskGrows, NEW t \in Threads, ThreadOK(t), Rests(t),
           \A r \in DOMAIN readers : r \in DOMAIN readers'
    PROVE  ThreadOK(t)'
<1>1. OpeningOK(t)'
  <2>1. DOMAIN opening'[t] = LayerFields
    BY DEF ThreadOK, OpeningOK, Rests
  <2>2. pc'[t] \in {"load", "capture"} =>
          opening'[t].reader \in DOMAIN readers' /\ ~readers'[opening'[t].reader].open
    BY DEF ThreadOK, OpeningOK, Rests
  <2>3. pc'[t] \in {"table", "lookup", "parse", "store"} => IsOpen(opening[t].reader)'
    BY DEF ThreadOK, OpeningOK, Rests, IsOpen, Frozen
  <2>4. ASSUME pc[t] \in {"lookup", "parse", "store"}
        PROVE  Between(opening[t].reader, "table", opening[t].table)'
    <3>1. IsOpen(opening[t].reader) /\ Between(opening[t].reader, "table", opening[t].table)
      BY <2>4 DEF ThreadOK, OpeningOK
    <3>2. /\ opening'[t] = opening[t]
          /\ readers'[opening[t].reader].stamps = readers[opening[t].reader].stamps
      BY <3>1 DEF Rests, Frozen, IsOpen
    <3>3. disk["table"] \in Nat /\ disk'["table"] \in Nat /\ disk["table"] <= disk'["table"]
      BY ReadsAreFiles DEF DiskOK, DiskGrows
    <3> QED BY <3>1, <3>2, <3>3 DEF Between
  <2> QED BY <2>1, <2>2, <2>3, <2>4 DEF OpeningOK, Rests, IsOpen
<1>2. LayerOK(layer[t])'
  BY LayerStays DEF ThreadOK, Rests
<1>3. ReadingOK(t)'
  BY DEF ThreadOK, ReadingOK, LayerOK, Rests, IsOpen, Frozen
<1>4. LoadsOK(t)'
  <2>1. loads'[t] = loads[t] /\ pc'[t] = pc[t] /\ layer'[t] = layer[t] /\ LoadsOK(t)
    BY DEF ThreadOK, Rests
  <2>2. ASSUME pc[t] = "metadata", NEW i \in DOMAIN loads[t]
        PROVE  Between(layer[t].reader, MetadataLoads[i], loads[t][i])'
    <3>1. IsOpen(layer[t].reader)
      BY <2>2 DEF ThreadOK, ReadingOK, Reading, LayerOK
    <3>2. Between(layer[t].reader, MetadataLoads[i], loads[t][i])
      BY <2>1, <2>2 DEF LoadsOK
    <3>3. i \in DOMAIN MetadataLoads
      <4>1. /\ Len(loads[t]) \in Nat /\ DOMAIN loads[t] = 1 .. Len(loads[t])
            /\ Len(MetadataLoads) \in Nat /\ DOMAIN MetadataLoads = 1 .. Len(MetadataLoads)
        BY <2>1, LenProperties, MetadataLoadsType DEF LoadsOK
      <4> QED BY <2>1, <4>1 DEF LoadsOK
    <3>4. MetadataLoads[i] \in DOMAIN disk
      BY <3>3, ReadsAreFiles DEF DiskOK
    <3>5. readers'[layer[t].reader].stamps = readers[layer[t].reader].stamps
      BY <3>1 DEF Frozen, IsOpen
    <3>6. disk[MetadataLoads[i]] \in Nat /\ disk'[MetadataLoads[i]] \in Nat
            /\ disk[MetadataLoads[i]] <= disk'[MetadataLoads[i]]
      BY <3>4 DEF DiskOK, DiskGrows
    <3>7. readers[layer[t].reader].stamps[MetadataLoads[i]] <= loads[t][i]
      BY <3>2 DEF Between
    <3> QED BY <2>1, <3>2, <3>5, <3>6, <3>7 DEF Between
  <2> QED BY <2>1, <2>2 DEF LoadsOK
<1>5. AnswerOK(t)'
  BY AnswerStays DEF ThreadOK, Rests
<1> QED BY <1>1, <1>2, <1>3, <1>4, <1>5 DEF ThreadOK

\* Only thread t moves.
OthersRest(t) ==
    /\ DOMAIN pc' = Threads /\ DOMAIN layer' = Threads /\ DOMAIN opening' = Threads
    /\ DOMAIN loads' = Threads /\ DOMAIN answer' = Threads
    /\ \A u \in Threads \ {t} :
          /\ pc'[u] = pc[u] /\ layer'[u] = layer[u] /\ opening'[u] = opening[u]
          /\ loads'[u] = loads[u] /\ answer'[u] = answer[u]

\* A call begins or goes on.
CallsCount ==
    \/ calls' = calls
    \/ \E kind \in DOMAIN MaxCalls \ {"open"} : Counts(kind)

LEMMA CallsStay ==
    ASSUME CallsOK, CallsCount, UNCHANGED <<readers, index_lock>>
    PROVE  CallsOK'
BY FilesAssumption DEF CallsOK, CallsCount, Counts

\* A step of thread t that leaves the files, the Readers and their locks.
LEMMA QuietKeeps ==
    ASSUME FilesInv, NEW t \in Threads, OthersRest(t), CallsCount,
           UNCHANGED <<disk, writing, readers, index_lock>>,
           pc[t] # "parse_indexes", pc'[t] # "parse_indexes",
           pc'[t] \notin {"load", "capture"},
           ThreadOK(t)'
    PROVE  FilesInv'
<1>1. DiskOK' /\ CallsOK' /\ ParsedOK' /\ \A r \in DOMAIN readers' : ReaderOK(r)'
  BY CallsStay DEF FilesInv, DiskOK, ParsedOK, ReaderOK
<1>2. Frozen /\ DiskGrows
  BY DEF FilesInv, Frozen, DiskGrows, DiskOK, ReaderOK
<1>3. ASSUME NEW u \in Threads \ {t} PROVE ThreadOK(u)'
  <2>1. Rests(u) /\ ThreadOK(u)
    BY DEF OthersRest, Rests, FilesInv, ThreadOK, OpeningOK
  <2> QED BY <1>2, <2>1, ThreadStays DEF FilesInv
<1>4. OpeningApart'
  BY DEF FilesInv, OpeningApart, OthersRest
<1>5. LockOK'
  <2>1. ASSUME NEW r \in DOMAIN readers, index_lock[r] # 0
        PROVE  /\ index_lock[r] \in Threads
               /\ pc'[index_lock[r]] = "parse_indexes"
               /\ layer'[index_lock[r]].reader = r
    <3>1. /\ index_lock[r] \in Threads /\ pc[index_lock[r]] = "parse_indexes"
          /\ layer[index_lock[r]].reader = r
      BY <2>1 DEF FilesInv, LockOK
    <3> QED BY <3>1 DEF OthersRest
  <2>2. ASSUME NEW u \in Threads, pc'[u] = "parse_indexes"
        PROVE  /\ index_lock[layer'[u].reader] = u
               /\ readers[layer'[u].reader].indexes = "unread"
    BY <2>2 DEF FilesInv, LockOK, OthersRest
  <2>3. \A r \in 1 .. MaxCalls["open"] : r \notin DOMAIN readers => index_lock[r] = 0
    BY DEF FilesInv, LockOK
  <2> QED BY <2>1, <2>2, <2>3 DEF LockOK
<1> QED BY <1>1, <1>3, <1>4, <1>5 DEF FilesInv, OthersRest

----------------------------------------------------------------------------
\* At first there are the files and nothing else.
LEMMA InitFilesInv == Init => FilesInv
<1> SUFFICES ASSUME Init PROVE FilesInv
  OBVIOUS
<1>1. DiskOK
  BY FilesAssumption DEF Init, DiskOK, AlwaysThere
<1>2. readers = <<>> /\ DOMAIN readers = {}
  BY DEF Init
<1>3. CallsOK
  BY <1>2, FilesAssumption DEF Init, CallsOK
<1>4. \A r \in DOMAIN readers : ReaderOK(r)
  BY <1>2
<1>5. ASSUME NEW t \in Threads PROVE ThreadOK(t)
  <2>1. /\ pc[t] = "idle" /\ layer[t] = NoLayer /\ opening[t] = NoLayer
        /\ loads[t] = <<>> /\ answer[t] = NoAnswer
    BY DEF Init
  <2>2. DOMAIN NoLayer = LayerFields
    BY DEF NoLayer, LayerFields
  <2>3. OpeningOK(t) /\ LayerOK(layer[t]) /\ ReadingOK(t)
    BY <2>1, <2>2 DEF OpeningOK, LayerOK, ReadingOK, Reading
  <2>4. LoadsOK(t)
    <3>1. <<>> \in Seq(Int) /\ Len(<<>>) = 0 /\ Len(MetadataLoads) \in Nat
      BY EmptySeq, MetadataLoadsType, LenProperties
    <3> QED BY <2>1, <3>1 DEF LoadsOK
  <2>5. AnswerOK(t)
    BY <2>1 DEF AnswerOK, NoAnswer
  <2> QED BY <2>3, <2>4, <2>5 DEF ThreadOK
<1>6. OpeningApart /\ LockOK /\ ParsedOK
  BY <1>2 DEF Init, OpeningApart, LockOK, ParsedOK
<1>7. writing \in Seq(Files)
  BY EmptySeq DEF Init
<1> QED BY <1>1, <1>3, <1>4, <1>5, <1>6, <1>7 DEF FilesInv, Init

----------------------------------------------------------------------------
(* The Writer.                                                             *)

LEMMA WriterKeeps == ASSUME FilesInv, BeginCommit \/ WriteFile PROVE FilesInv'
<1>a. UNCHANGED <<readers, index_lock, pc, layer, opening, loads, answer, calls>>
  BY DEF BeginCommit, WriteFile
<1>1. DiskOK' /\ DiskGrows /\ writing' \in Seq(Files)
  <2>1. CASE BeginCommit
    BY <2>1, CommitsAssumption DEF BeginCommit, FilesInv, DiskOK, DiskGrows
  <2>2. CASE WriteFile
    <3>1. Head(writing) \in Files /\ Tail(writing) \in Seq(Files)
      BY <2>2, HeadTailProperties DEF WriteFile, FilesInv
    <3> DEFINE f == Head(writing)
               before == IF f \in DOMAIN disk THEN disk[f] ELSE 0
    <3>2. PICK step \in {1, 2} :
            /\ disk' = [g \in DOMAIN disk \union {f} |->
                            IF g = f THEN before + step ELSE disk[g]]
            /\ writing' \in {writing, Tail(writing)}
      BY <2>2 DEF WriteFile
    <3>3. before \in Nat
      BY DEF FilesInv, DiskOK
    <3>4. writing' \in Seq(Files)
      BY <3>1, <3>2 DEF FilesInv
    <3>5. DOMAIN disk' = DOMAIN disk \union {f}
          /\ disk'[f] = before + step
          /\ \A g \in DOMAIN disk \ {f} : disk'[g] = disk[g]
      BY <3>2
    <3> HIDE DEF f
    <3>6. \A g \in DOMAIN disk :
            g \in DOMAIN disk' /\ disk'[g] \in Nat /\ disk[g] <= disk'[g]
      BY <3>3, <3>5 DEF FilesInv, DiskOK
    <3>7. disk'[f] \in Nat
      BY <3>3, <3>5
    <3> QED BY <3>4, <3>5, <3>6, <3>7 DEF FilesInv, DiskOK, DiskGrows
  <2> QED BY <2>1, <2>2
<1>2. Frozen
  BY <1>a DEF FilesInv, ReaderOK, Frozen
<1>3. ASSUME NEW r \in DOMAIN readers' PROVE ReaderOK(r)'
  <2>1. r \in DOMAIN readers /\ readers'[r] = readers[r] /\ ReaderOK(r) /\ DiskOK
    BY <1>a DEF FilesInv
  <2>2. ASSUME readers[r].open, NEW f \in DOMAIN readers[r].stamps
        PROVE  /\ f \in DOMAIN disk' /\ readers[r].stamps[f] \in Nat
               /\ readers[r].stamps[f] <= disk'[f]
    <3>1. f \in DOMAIN disk /\ readers[r].stamps[f] \in Nat
          /\ readers[r].stamps[f] <= disk[f] /\ disk[f] \in Nat
      BY <2>1, <2>2 DEF ReaderOK, DiskOK
    <3> QED BY <1>1, <3>1 DEF DiskGrows
  <2> QED BY <2>1, <2>2 DEF ReaderOK
<1>4. ASSUME NEW t \in Threads PROVE ThreadOK(t)'
  <2>1. Rests(t) /\ ThreadOK(t)
    BY <1>a DEF FilesInv, Rests, ThreadOK, OpeningOK
  <2> QED BY <1>1, <1>2, <2>1, ThreadStays, <1>a DEF FilesInv
<1> QED
  BY ZenonT(40), <1>a, <1>1, <1>3, <1>4
  DEF FilesInv, CallsOK, OpeningApart, LockOK, ParsedOK

----------------------------------------------------------------------------
(* The threads.  What a step leaves of thread t is as it should be.        *)

LEMMA QuietIsFrozen ==
    ASSUME FilesInv, UNCHANGED <<disk, readers>> PROVE Frozen /\ DiskGrows
BY DEF FilesInv, Frozen, DiskGrows, DiskOK, ReaderOK

LEMMA PartsStay ==
    ASSUME FilesInv, NEW t \in Threads, Frozen, DiskGrows
    PROVE  /\ layer'[t] = layer[t] => LayerOK(layer[t])'
           /\ answer'[t] \in {answer[t], NoAnswer} => AnswerOK(t)'
           /\ loads'[t] \in {loads[t], <<>>} /\ pc'[t] # "metadata" => LoadsOK(t)'
<1>1. ThreadOK(t)
  BY DEF FilesInv
<1>2. ASSUME layer'[t] = layer[t] PROVE LayerOK(layer[t])'
  BY <1>1, <1>2, LayerStays DEF FilesInv, ThreadOK
<1>3. ASSUME answer'[t] \in {answer[t], NoAnswer} PROVE AnswerOK(t)'
  BY <1>1, <1>3, AnswerStays DEF ThreadOK
<1>4. ASSUME loads'[t] \in {loads[t], <<>>}, pc'[t] # "metadata" PROVE LoadsOK(t)'
  <2>1. ASSUME NEW s, s = <<>> PROVE s \in Seq(Int) /\ Len(s) <= Len(MetadataLoads)
    <3>1. Len(MetadataLoads) \in Nat
      BY MetadataLoadsType, LenProperties
    <3> QED BY <2>1, <3>1, EmptySeq
  <2>2. loads[t] \in Seq(Int) /\ Len(loads[t]) <= Len(MetadataLoads)
    BY <1>1 DEF ThreadOK, LoadsOK
  <2>3. loads'[t] \in Seq(Int) /\ Len(loads'[t]) <= Len(MetadataLoads)
    BY <1>4, <2>1, <2>2
  <2> QED BY <1>4, <2>3 DEF LoadsOK
<1> QED BY <1>2, <1>3, <1>4

\* A step of thread t that loads nothing and returns no metadata.
LEMMA PlainKeeps ==
    ASSUME FilesInv, NEW t \in Threads, OthersRest(t), CallsCount,
           UNCHANGED <<disk, writing, readers, index_lock>>,
           pc[t] # "parse_indexes", pc'[t] # "parse_indexes",
           pc'[t] \notin {"load", "capture", "metadata"},
           answer'[t] \in {answer[t], NoAnswer}, loads'[t] \in {loads[t], <<>>},
           OpeningOK(t)', LayerOK(layer[t])', ReadingOK(t)'
    PROVE  FilesInv'
<1>1. ThreadOK(t)'
  BY QuietIsFrozen, PartsStay DEF ThreadOK
<1> QED BY <1>1, QuietKeeps

\* The same when thread t keeps its Layer.
LEMMA SameLayerKeeps ==
    ASSUME FilesInv, NEW t \in Threads, OthersRest(t), CallsCount,
           UNCHANGED <<disk, writing, readers, index_lock>>, layer'[t] = layer[t],
           pc[t] # "parse_indexes", pc'[t] # "parse_indexes",
           pc'[t] \notin {"load", "capture", "metadata"},
           answer'[t] \in {answer[t], NoAnswer}, loads'[t] \in {loads[t], <<>>},
           OpeningOK(t)', ReadingOK(t)'
    PROVE  FilesInv'
BY QuietIsFrozen, PartsStay, PlainKeeps

\* Thread t goes on or returns: the other threads do nothing.
LEMMA OnlyOneMoves ==
    ASSUME FilesInv, NEW t \in Threads, NEW there, NEW what, NEW l, NEW o, NEW s,
           pc' = [pc EXCEPT ![t] = there], answer' \in {answer, [answer EXCEPT ![t] = what]},
           layer' \in {layer, [layer EXCEPT ![t] = l]},
           opening' \in {opening, [opening EXCEPT ![t] = o]},
           loads' \in {loads, [loads EXCEPT ![t] = s]}
    PROVE  /\ OthersRest(t) /\ pc'[t] = there /\ answer'[t] \in {answer[t], what}
           /\ layer'[t] \in {layer[t], l} /\ opening'[t] \in {opening[t], o}
           /\ loads'[t] \in {loads[t], s}
BY DEF FilesInv, OthersRest

LEMMA NoLayerFields == DOMAIN NoLayer = LayerFields
BY DEF NoLayer, LayerFields

\* open_layer lets only an open Reader through.
LEMMA OpenLayerKeeps == ASSUME FilesInv, NEW t \in Threads, OpenLayer(t) PROVE FilesInv'
<1>1. /\ UNCHANGED <<disk, writing, readers, index_lock, layer, loads>>
      /\ pc[t] = "idle" /\ Counts("open_layer")
  BY DEF OpenLayer, NoReader, fileVars
<1>2. CallsCount
  BY <1>1, FilesAssumption DEF CallsCount
<1>3. PICK r \in DOMAIN readers, there \in {"table", "idle"} :
        /\ readers[r].open
        /\ pc' = [pc EXCEPT ![t] = there] /\ answer' = [answer EXCEPT ![t] = NoAnswer]
        /\ \/ opening' = [opening EXCEPT ![t] = [NoLayer EXCEPT !.reader = r]]
           \/ there = "idle" /\ opening' = opening
  BY DEF OpenLayer, Starts, Opens, Fails, Returns
<1>4. /\ OthersRest(t) /\ pc'[t] = there /\ answer'[t] \in {answer[t], NoAnswer}
      /\ layer'[t] = layer[t] /\ loads'[t] = loads[t]
  BY <1>1, <1>3 DEF FilesInv, OthersRest
<1>5. OpeningOK(t)'
  <2>1. OpeningOK(t) /\ DOMAIN opening = Threads
    BY DEF FilesInv, ThreadOK
  <2>2. CASE opening' = opening /\ there = "idle"
    BY <2>1, <2>2, <1>4 DEF OpeningOK
  <2>3. CASE opening' = [opening EXCEPT ![t] = [NoLayer EXCEPT !.reader = r]]
    <3>1. opening'[t] = [NoLayer EXCEPT !.reader = r]
      BY <2>1, <2>3
    <3>2. DOMAIN opening'[t] = LayerFields /\ opening'[t].reader = r
      BY <3>1 DEF NoLayer, LayerFields
    <3> QED BY <3>2, <1>1, <1>3, <1>4 DEF OpeningOK, IsOpen
  <2> QED BY <2>2, <2>3, <1>3
<1>6. ReadingOK(t)'
  BY <1>3, <1>4 DEF ReadingOK, Reading
<1> QED BY <1>1, <1>2, <1>3, <1>4, <1>5, <1>6, SameLayerKeeps

\* open_layer gives up: nothing of the Layer stays.
LEMMA OpenFailsKeeps ==
    ASSUME FilesInv, NEW t \in Threads, OpenFails(t), pc[t] # "parse_indexes",
           UNCHANGED <<disk, writing, calls, readers, index_lock>>
    PROVE  FilesInv'
<1>1. /\ OthersRest(t) /\ pc'[t] = "idle" /\ answer'[t] = NoAnswer
      /\ layer'[t] = layer[t] /\ loads'[t] = loads[t] /\ opening'[t] = NoLayer
  BY DEF OpenFails, Fails, Returns, Opens, FilesInv, OthersRest
<1>2. OpeningOK(t)' /\ ReadingOK(t)'
  BY <1>1, NoLayerFields DEF OpeningOK, ReadingOK, Reading
<1> QED BY <1>1, <1>2, SameLayerKeeps DEF CallsCount

\* The table is mapped under a fingerprint that was current: its stamp lies
\* between the fingerprint and the file.
LEMMA OpenTableKeeps == ASSUME FilesInv, NEW t \in Threads, OpenTable(t) PROVE FilesInv'
<1>1. UNCHANGED <<disk, writing, calls, readers, index_lock>> /\ pc[t] = "table"
  BY DEF OpenTable, NoReader, Same
<1>2. CASE OpenFails(t)
  BY <1>1, <1>2, OpenFailsKeeps
<1>3. CASE /\ Opens(t, [opening[t] EXCEPT !.table = disk["table"]])
           /\ Goes(t, "lookup") /\ UNCHANGED <<layer, loads>>
  <2>1. /\ OthersRest(t) /\ pc'[t] = "lookup" /\ answer'[t] = answer[t]
        /\ layer'[t] = layer[t] /\ loads'[t] = loads[t]
        /\ opening'[t] = [opening[t] EXCEPT !.table = disk["table"]]
    BY <1>3 DEF Goes, Opens, FilesInv, OthersRest
  <2>2. OpeningOK(t) /\ IsOpen(opening[t].reader)
    BY <1>1 DEF FilesInv, ThreadOK, OpeningOK
  <2>3. /\ DOMAIN opening'[t] = LayerFields /\ opening'[t].reader = opening[t].reader
        /\ opening'[t].table = disk["table"]
    BY <2>1, <2>2 DEF OpeningOK, LayerFields
  <2>4. Between(opening[t].reader, "table", disk["table"])
    <3>1. /\ ReaderOK(opening[t].reader) /\ readers[opening[t].reader].open
          /\ disk["table"] \in Nat
      BY <2>2, ReadsAreFiles DEF FilesInv, IsOpen, DiskOK
    <3>2. "table" \in DOMAIN readers[opening[t].reader].stamps
      BY <3>1, ReadsAreFiles DEF ReaderOK
    <3> QED BY <3>1, <3>2 DEF ReaderOK, Between
  <2>6. OpeningOK(t)'
    BY <1>1, <2>1, <2>2, <2>3, <2>4 DEF OpeningOK, IsOpen, Between
  <2>7. ReadingOK(t)'
    BY <2>1 DEF ReadingOK, Reading
  <2> QED BY <1>1, <2>1, <2>6, <2>7, SameLayerKeeps DEF CallsCount
<1> QED BY <1>2, <1>3 DEF OpenTable

\* open_layer returns a Layer: its table was mapped under the fingerprint.
LEMMA LayerOpenedKeeps ==
    ASSUME FilesInv, NEW t \in Threads, NEW offsets, LayerOpened(t, offsets),
           pc[t] \in {"lookup", "store"}
    PROVE  FilesInv'
<1>1. UNCHANGED <<disk, writing, calls, readers, index_lock>>
  BY DEF LayerOpened, NoReader, Same
<1>2. /\ OthersRest(t) /\ pc'[t] = "idle" /\ answer'[t] = NoAnswer
      /\ layer'[t] = [opening[t] EXCEPT !.offsets = offsets]
      /\ loads'[t] = loads[t] /\ opening'[t] = NoLayer
  BY DEF LayerOpened, Returns, Opens, FilesInv, OthersRest
<1>3. /\ OpeningOK(t) /\ IsOpen(opening[t].reader)
      /\ Between(opening[t].reader, "table", opening[t].table)
  BY DEF FilesInv, ThreadOK, OpeningOK
<1>4. LayerOK(layer[t])'
  <2>1. /\ DOMAIN layer'[t] = LayerFields /\ layer'[t].reader = opening[t].reader
        /\ layer'[t].table = opening[t].table
    BY <1>2, <1>3 DEF OpeningOK, LayerFields
  <2> QED BY <1>1, <1>3, <2>1 DEF LayerOK, IsOpen, Between
<1>5. OpeningOK(t)' /\ ReadingOK(t)'
  BY <1>2, NoLayerFields DEF OpeningOK, ReadingOK, Reading
<1> QED BY <1>1, <1>2, <1>4, <1>5, PlainKeeps DEF CallsCount

LEMMA LookUpKeeps == ASSUME FilesInv, NEW t \in Threads, LookUp(t) PROVE FilesInv'
<1>1. CASE LayerOpened(t, cache[disk["tablx"]])
  BY <1>1, LayerOpenedKeeps DEF LookUp
<1>2. CASE Goes(t, "parse") /\ NoReader /\ NoLayerStep /\ Same
  <2>1. /\ OthersRest(t) /\ pc'[t] = "parse" /\ pc[t] = "lookup" /\ answer'[t] = answer[t]
        /\ layer'[t] = layer[t] /\ loads'[t] = loads[t] /\ opening'[t] = opening[t]
        /\ UNCHANGED <<disk, writing, calls, readers, index_lock>>
    BY <1>2 DEF LookUp, Goes, FilesInv, OthersRest, NoReader, NoLayerStep, Same
  <2>2. OpeningOK(t)' /\ ReadingOK(t)'
    BY <2>1 DEF FilesInv, ThreadOK, OpeningOK, ReadingOK, Reading, IsOpen, Between
  <2> QED BY <2>1, <2>2, SameLayerKeeps DEF CallsCount
<1> QED BY <1>1, <1>2 DEF LookUp

LEMMA ParseTablxKeeps == ASSUME FilesInv, NEW t \in Threads, ParseTablx(t) PROVE FilesInv'
<1>1. UNCHANGED <<disk, writing, calls, readers, index_lock>> /\ pc[t] = "parse"
  BY DEF ParseTablx, NoReader, Same
<1>2. CASE OpenFails(t)
  BY <1>1, <1>2, OpenFailsKeeps
<1>3. CASE /\ Opens(t, [opening[t] EXCEPT !.offsets = disk["tablx"]])
           /\ Goes(t, "store") /\ UNCHANGED <<layer, loads>>
  <2>1. /\ OthersRest(t) /\ pc'[t] = "store" /\ answer'[t] = answer[t]
        /\ layer'[t] = layer[t] /\ loads'[t] = loads[t]
        /\ opening'[t] = [opening[t] EXCEPT !.offsets = disk["tablx"]]
    BY <1>3 DEF Goes, Opens, FilesInv, OthersRest
  <2>2. /\ OpeningOK(t) /\ IsOpen(opening[t].reader)
        /\ Between(opening[t].reader, "table", opening[t].table)
    BY <1>1 DEF FilesInv, ThreadOK, OpeningOK
  <2>3. /\ DOMAIN opening'[t] = LayerFields /\ opening'[t].reader = opening[t].reader
        /\ opening'[t].table = opening[t].table
    BY <2>1, <2>2 DEF OpeningOK, LayerFields
  <2>4. OpeningOK(t)' /\ ReadingOK(t)'
    BY <1>1, <2>1, <2>2, <2>3 DEF OpeningOK, IsOpen, Between, ReadingOK, Reading
  <2> QED BY <1>1, <2>1, <2>4, SameLayerKeeps DEF CallsCount
<1> QED BY <1>2, <1>3 DEF ParseTablx

LEMMA StoreOffsetsKeeps ==
    ASSUME FilesInv, NEW t \in Threads, StoreOffsets(t) PROVE FilesInv'
BY LayerOpenedKeeps DEF StoreOffsets

\* Where fingerprint and files agree, what was read is what the fingerprint has.
LEMMA CurrentIsExact ==
    ASSUME FilesInv, NEW r, IsOpen(r), source_is_current(r), NEW f \in AlwaysThere,
           NEW stamp, Between(r, f, stamp)
    PROVE  f \in DOMAIN readers[r].stamps /\ stamp = readers[r].stamps[f]
<1>1. readers[r].stamps = disk
  BY DEF source_is_current
<1>2. f \in DOMAIN disk /\ disk[f] \in Nat
  BY DEF FilesInv, DiskOK
<1> QED BY <1>1, <1>2 DEF Between

\* A read begins: the Layer's table is that of the fingerprint.
LEMMA StartReadKeeps == ASSUME FilesInv, NEW t \in Threads, StartRead(t) PROVE FilesInv'
<1>1. /\ UNCHANGED <<disk, writing, readers, index_lock, layer, opening, loads>>
      /\ pc[t] = "idle" /\ layer[t] # NoLayer /\ Counts("read")
  BY DEF StartRead, NoReader, NoLayerStep, fileVars
<1>2. CallsCount
  BY <1>1, FilesAssumption DEF CallsCount
<1>3. PICK there \in {"read", "index", "idle"} :
        /\ pc' = [pc EXCEPT ![t] = there] /\ answer' = [answer EXCEPT ![t] = NoAnswer]
        /\ there # "idle" => source_is_current(layer[t].reader)
  BY DEF StartRead, Starts, Fails, Returns
<1>4. OthersRest(t) /\ pc'[t] = there /\ answer'[t] = NoAnswer
  BY <1>1, <1>3 DEF FilesInv, OthersRest
<1>5. OpeningOK(t)'
  BY <1>1, <1>4 DEF FilesInv, ThreadOK, OpeningOK
<1>6. ReadingOK(t)'
  <2>1. IsOpen(layer[t].reader) /\ Between(layer[t].reader, "table", layer[t].table)
    BY <1>1 DEF FilesInv, ThreadOK, LayerOK
  <2>2. there # "idle" => layer[t].table = readers[layer[t].reader].stamps["table"]
    BY <1>3, <2>1, CurrentIsExact, ReadsAreFiles
  <2> QED BY <1>1, <1>4, <2>2 DEF ReadingOK, Reading
<1> QED BY <1>1, <1>2, <1>4, <1>5, <1>6, SameLayerKeeps

\* A read goes on, or returns, with the Layer it has.
LEMMA ReadGoesOn ==
    ASSUME FilesInv, NEW t \in Threads, NEW there \in {"read", "lock", "idle"},
           pc[t] \in {"read", "index", "lock"}, pc' = [pc EXCEPT ![t] = there],
           answer' \in {answer, [answer EXCEPT ![t] = NoAnswer]},
           UNCHANGED <<disk, writing, calls, readers, index_lock, layer, opening, loads>>
    PROVE  FilesInv'
<1>1. OthersRest(t) /\ pc'[t] = there /\ answer'[t] \in {answer[t], NoAnswer}
  BY DEF FilesInv, OthersRest
<1>2. OpeningOK(t)' /\ ReadingOK(t)'
  BY <1>1 DEF FilesInv, ThreadOK, OpeningOK, ReadingOK, Reading
<1> QED BY <1>1, <1>2, SameLayerKeeps DEF CallsCount

LEMMA FindIndexesKeeps ==
    ASSUME FilesInv, NEW t \in Threads, FindIndexes(t) PROVE FilesInv'
<1>1. PICK there \in {"read", "lock"} : pc' = [pc EXCEPT ![t] = there]
  BY DEF FindIndexes, Goes
<1>2. /\ pc[t] = "index" /\ answer' = answer
      /\ UNCHANGED <<disk, writing, calls, readers, index_lock, layer, opening, loads>>
  BY DEF FindIndexes, Goes, NoReader, NoLayerStep, Same
<1> QED BY <1>1, <1>2, ReadGoesOn

LEMMA ReadKeeps == ASSUME FilesInv, NEW t \in Threads, Read(t) PROVE FilesInv'
<1>1. /\ pc[t] = "read" /\ pc' = [pc EXCEPT ![t] = "idle"]
      /\ answer' = [answer EXCEPT ![t] = NoAnswer]
      /\ UNCHANGED <<disk, writing, calls, readers, index_lock, layer, opening, loads>>
  BY DEF Read, Returns, NoReader, NoLayerStep, Same
<1> QED BY <1>1, ReadGoesOn

----------------------------------------------------------------------------
(* read_metadata.                                                          *)

LEMMA StartMetadataKeeps ==
    ASSUME FilesInv, NEW t \in Threads, StartMetadata(t) PROVE FilesInv'
<1>1. /\ UNCHANGED <<disk, writing, readers, index_lock, layer, opening>>
      /\ pc[t] = "idle" /\ layer[t] # NoLayer /\ Counts("metadata")
      /\ loads' = [loads EXCEPT ![t] = <<>>]
  BY DEF StartMetadata, NoReader, fileVars
<1>2. CallsCount
  BY <1>1, FilesAssumption DEF CallsCount
<1>3. PICK there \in {"metadata", "idle"} :
        /\ pc' = [pc EXCEPT ![t] = there] /\ answer' = [answer EXCEPT ![t] = NoAnswer]
        /\ there = "metadata" => source_is_current(layer[t].reader)
  BY DEF StartMetadata, Starts, Fails, Returns
<1>4. OthersRest(t) /\ pc'[t] = there /\ answer'[t] = NoAnswer /\ loads'[t] = <<>>
  BY <1>1, <1>3 DEF FilesInv, OthersRest
<1>5. OpeningOK(t)'
  BY <1>1, <1>4 DEF FilesInv, ThreadOK, OpeningOK
<1>6. ReadingOK(t)'
  <2>1. IsOpen(layer[t].reader) /\ Between(layer[t].reader, "table", layer[t].table)
    BY <1>1 DEF FilesInv, ThreadOK, LayerOK
  <2>2. there # "idle" => layer[t].table = readers[layer[t].reader].stamps["table"]
    BY <1>3, <2>1, CurrentIsExact, ReadsAreFiles
  <2> QED BY <1>1, <1>4, <2>2 DEF ReadingOK, Reading
<1>7. LoadsOK(t)'
  <2>1. ASSUME NEW s, s = <<>>
        PROVE  s \in Seq(Int) /\ Len(s) <= Len(MetadataLoads) /\ DOMAIN s = {}
    <3>1. Len(MetadataLoads) \in Nat
      BY MetadataLoadsType, LenProperties
    <3> QED BY <2>1, <3>1, EmptySeq
  <2>2. /\ loads'[t] \in Seq(Int) /\ Len(loads'[t]) <= Len(MetadataLoads)
        /\ DOMAIN loads'[t] = {}
    BY <1>4, <2>1
  <2> QED BY <2>2 DEF LoadsOK
<1>8. ThreadOK(t)'
  BY <1>1, <1>4, <1>5, <1>6, <1>7, QuietIsFrozen, PartsStay DEF ThreadOK
<1> QED BY <1>1, <1>2, <1>3, <1>4, <1>8, QuietKeeps

\* A file that is read under an open Reader's fingerprint is no older than it.
LEMMA NowIsBetween ==
    ASSUME FilesInv, NEW r, IsOpen(r), NEW f \in AlwaysThere
    PROVE  Between(r, f, disk[f]) /\ f \in DOMAIN disk
<1>1. ReaderOK(r) /\ readers[r].open /\ disk[f] \in Nat /\ f \in DOMAIN disk
  BY DEF FilesInv, IsOpen, DiskOK
<1>2. f \in DOMAIN readers[r].stamps
  BY <1>1 DEF ReaderOK
<1> QED BY <1>1, <1>2 DEF ReaderOK, Between

\* One more table is loaded, as it is now.
LEMMA LoadTableKeeps ==
    ASSUME FilesInv, NEW t \in Threads, LoadTable(t) PROVE FilesInv'
<1> DEFINE n == Len(loads[t])
           now == Stamp(MetadataLoads[n + 1], disk)
<1>1. /\ UNCHANGED <<disk, writing, calls, readers, index_lock, pc, answer, layer, opening>>
      /\ pc[t] = "metadata" /\ n < Len(MetadataLoads)
      /\ loads' = [loads EXCEPT ![t] = Append(loads[t], now)]
  BY DEF LoadTable, NoReader, Same
<1>2. /\ ThreadOK(t) /\ IsOpen(layer[t].reader) /\ loads[t] \in Seq(Int)
      /\ \A i \in DOMAIN loads[t] : Between(layer[t].reader, MetadataLoads[i], loads[t][i])
  BY <1>1 DEF FilesInv, ThreadOK, ReadingOK, Reading, LayerOK, LoadsOK
<1>3. /\ n \in Nat /\ DOMAIN loads[t] = 1 .. n
      /\ Len(MetadataLoads) \in Nat /\ DOMAIN MetadataLoads = 1 .. Len(MetadataLoads)
  BY <1>2, MetadataLoadsType, LenProperties
<1>4. Between(layer[t].reader, MetadataLoads[n + 1], now) /\ now \in Int
  <2>1. MetadataLoads[n + 1] \in AlwaysThere
    BY <1>1, <1>3, ReadsAreFiles
  <2>2. /\ Between(layer[t].reader, MetadataLoads[n + 1], disk[MetadataLoads[n + 1]])
        /\ MetadataLoads[n + 1] \in DOMAIN disk
    BY <1>2, <2>1, NowIsBetween
  <2> QED BY <2>2 DEF Stamp, Between
<1>5. OthersRest(t) /\ loads'[t] = Append(loads[t], now)
  BY <1>1 DEF FilesInv, OthersRest
<1> HIDE DEF now
<1>6. /\ loads'[t] \in Seq(Int) /\ Len(loads'[t]) = n + 1 /\ DOMAIN loads'[t] = 1 .. n + 1
      /\ \A i \in 1 .. n : loads'[t][i] = loads[t][i]
      /\ loads'[t][n + 1] = now
  BY <1>2, <1>3, <1>4, <1>5, AppendProperties
<1>7. LoadsOK(t)'
  <2>1. ASSUME NEW i \in 1 .. n + 1
        PROVE  Between(layer[t].reader, MetadataLoads[i], loads'[t][i])
    <3>1. CASE i = n + 1
      BY <3>1, <1>4, <1>6
    <3>2. CASE i \in 1 .. n
      BY <3>2, <1>2, <1>3, <1>6
    <3> QED BY <2>1, <3>1, <3>2, <1>3
  <2> QED BY <1>1, <1>3, <1>6, <2>1 DEF LoadsOK, Between
<1>8. OpeningOK(t)' /\ ReadingOK(t)'
  BY <1>1, <1>2 DEF ThreadOK, OpeningOK, ReadingOK, IsOpen, Between
<1>9. ThreadOK(t)'
  BY <1>1, <1>7, <1>8, QuietIsFrozen, PartsStay DEF ThreadOK
<1> QED BY <1>1, <1>5, <1>9, QuietKeeps DEF CallsCount

\* When the fingerprint is found current after the loads, they are what it has.
LEMMA LoadsAreOneSnapshot ==
    ASSUME FilesInv, NEW t \in Threads, pc[t] = "metadata",
           Len(loads[t]) = Len(MetadataLoads), source_is_current(layer[t].reader)
    PROVE  /\ layer[t].table = readers[layer[t].reader].stamps["table"]
           /\ loads[t] = [i \in DOMAIN MetadataLoads |->
                             Stamp(MetadataLoads[i], readers[layer[t].reader].stamps)]
<1> DEFINE r == layer[t].reader
           n == Len(MetadataLoads)
<1>1. /\ IsOpen(r) /\ loads[t] \in Seq(Int)
      /\ layer[t].table = readers[r].stamps["table"]
      /\ \A i \in DOMAIN loads[t] : Between(r, MetadataLoads[i], loads[t][i])
  BY DEF FilesInv, ThreadOK, ReadingOK, Reading, LayerOK, LoadsOK
<1>2. n \in Nat /\ DOMAIN loads[t] = 1 .. n /\ DOMAIN MetadataLoads = 1 .. n
  BY <1>1, MetadataLoadsType, LenProperties
<1>3. ASSUME NEW i \in 1 .. n
      PROVE  loads[t][i] = Stamp(MetadataLoads[i], readers[r].stamps)
  <2>1. MetadataLoads[i] \in AlwaysThere /\ Between(r, MetadataLoads[i], loads[t][i])
    BY <1>1, <1>2, ReadsAreFiles
  <2>2. /\ MetadataLoads[i] \in DOMAIN readers[r].stamps
        /\ loads[t][i] = readers[r].stamps[MetadataLoads[i]]
    BY <1>1, <2>1, CurrentIsExact
  <2> QED BY <2>2 DEF Stamp
<1>4. loads[t] = [i \in 1 .. n |-> loads[t][i]]
  BY <1>1, <1>2
<1> HIDE DEF n, r
<1>5. loads[t] = [i \in DOMAIN MetadataLoads |-> Stamp(MetadataLoads[i], readers[r].stamps)]
  BY <1>2, <1>3, <1>4
<1> QED BY <1>1, <1>5 DEF r

LEMMA EndMetadataKeeps ==
    ASSUME FilesInv, NEW t \in Threads, EndMetadata(t) PROVE FilesInv'
<1> DEFINE r == layer[t].reader
           read == Metadata(layer[t].table, loads[t], readers[r].names)
<1>1. /\ UNCHANGED <<disk, writing, calls, readers, index_lock, layer, opening>>
      /\ pc[t] = "metadata" /\ Len(loads[t]) = Len(MetadataLoads)
      /\ loads' = [loads EXCEPT ![t] = <<>>] /\ pc' = [pc EXCEPT ![t] = "idle"]
  BY DEF EndMetadata, NoReader, Same, Fails, Returns
<1>2. \/ answer' = [answer EXCEPT ![t] = NoAnswer]
      \/ source_is_current(r) /\ answer' = [answer EXCEPT ![t] = Answer(r, read)]
  BY DEF EndMetadata, Fails, Returns
<1>3. OthersRest(t) /\ pc'[t] = "idle" /\ loads'[t] = <<>>
  BY <1>1, <1>2 DEF FilesInv, OthersRest
<1>4. AnswerOK(t)'
  <2>1. CASE answer' = [answer EXCEPT ![t] = NoAnswer]
    <3>1. answer'[t] = NoAnswer
      BY <2>1 DEF FilesInv
    <3> QED BY <1>1, <3>1, QuietIsFrozen, PartsStay
  <2>2. CASE source_is_current(r) /\ answer' = [answer EXCEPT ![t] = Answer(r, read)]
    <3>1. IsOpen(r)
      BY <1>1 DEF FilesInv, ThreadOK, ReadingOK, Reading, LayerOK
    <3>2. read = Metadata(readers[r].stamps["table"],
                          [i \in DOMAIN MetadataLoads |->
                              Stamp(MetadataLoads[i], readers[r].stamps)],
                          readers[r].names)
      BY <1>1, <2>2, LoadsAreOneSnapshot
    <3> HIDE DEF read
    <3>3. answer'[t] = Answer(r, read)
      BY <2>2 DEF FilesInv
    <3>4. answer'[t].ok = TRUE /\ answer'[t].reader = r /\ answer'[t].snapshot = read
      BY <3>3 DEF Answer
    <3> QED BY <1>1, <3>1, <3>2, <3>4 DEF AnswerOK, IsOpen
  <2> QED BY <1>2, <2>1, <2>2
<1>5. OpeningOK(t)' /\ ReadingOK(t)'
  BY <1>1, <1>3 DEF FilesInv, ThreadOK, OpeningOK, ReadingOK, Reading
<1>6. ThreadOK(t)'
  BY <1>1, <1>3, <1>4, <1>5, QuietIsFrozen, PartsStay DEF ThreadOK
<1> QED BY <1>1, <1>3, <1>6, QuietKeeps DEF CallsCount

----------------------------------------------------------------------------
(* Reader::open.                                                           *)

\* A sequence of which only its length is known grows by one at its end.
LEMMA AppendAny ==
    ASSUME NEW c \in Nat, NEW s, s = [r \in 1 .. c |-> s[r]], NEW e
    PROVE  /\ DOMAIN s = 1 .. c /\ Len(s) = c
           /\ Append(s, e) = [r \in 1 .. c + 1 |-> Append(s, e)[r]]
           /\ DOMAIN Append(s, e) = 1 .. c + 1
           /\ \A r \in 1 .. c : Append(s, e)[r] = s[r]
           /\ Append(s, e)[c + 1] = e
<1> DEFINE S == {s[r] : r \in 1 .. c} \union {e}
<1>1. s \in [1 .. c -> S]
  OBVIOUS
<1>2. s \in Seq(S) /\ Len(s) = c /\ DOMAIN s = 1 .. c /\ e \in S
  BY <1>1
<1> HIDE DEF S
<1>3. /\ Append(s, e) \in Seq(S) /\ Len(Append(s, e)) = c + 1
      /\ \A r \in 1 .. c : Append(s, e)[r] = s[r]
      /\ Append(s, e)[c + 1] = e
  BY <1>2, AppendProperties
<1>4. DOMAIN Append(s, e) = 1 .. c + 1
  BY <1>3, LenProperties
<1>5. Append(s, e) = [r \in 1 .. c + 1 |-> Append(s, e)[r]]
  BY <1>3, <1>4
<1> QED BY <1>2, <1>3, <1>4, <1>5

\* Thread t moves, and nothing that an open Reader has is touched.
LEMMA OthersStay ==
    ASSUME FilesInv, NEW t \in Threads, OthersRest(t), Frozen, disk' = disk,
           \A u \in Threads \ {t} : pc[u] \in {"load", "capture"} =>
              ~readers'[opening[u].reader].open
    PROVE  DiskGrows /\ DiskOK' /\ \A u \in Threads \ {t} : ThreadOK(u)'
<1>1. DiskGrows /\ DiskOK'
  BY DEF FilesInv, DiskOK, DiskGrows
<1>2. ASSUME NEW u \in Threads \ {t} PROVE ThreadOK(u)'
  <2>1. Rests(u) /\ ThreadOK(u) /\ DiskOK /\ \A r \in DOMAIN readers : r \in DOMAIN readers'
    BY DEF OthersRest, Rests, FilesInv, Frozen
  <2> QED BY <1>1, <2>1, ThreadStays
<1> QED BY <1>1, <1>2

LEMMA ScanKeeps == ASSUME FilesInv, NEW t \in Threads, Scan(t) PROVE FilesInv'
<1> DEFINE c == calls["open"]
           new == [open |-> FALSE, files |-> DOMAIN disk, names |-> {}, stamps |-> << >>,
                   indexes |-> "unread", parses |-> 0]
<1>1. /\ UNCHANGED <<disk, writing, index_lock, layer, loads>> /\ pc[t] = "idle"
      /\ c < MaxCalls["open"] /\ calls' = [calls EXCEPT !["open"] = c + 1]
      /\ readers' = Append(readers, new)
      /\ opening' = [opening EXCEPT ![t] = [NoLayer EXCEPT !.reader = Len(readers) + 1]]
      /\ pc' = [pc EXCEPT ![t] = "load"] /\ answer' = [answer EXCEPT ![t] = NoAnswer]
  BY DEF Scan, Counts, Opens, Starts, fileVars
<1>2. /\ c \in Nat /\ MaxCalls["open"] \in Nat /\ calls \in [DOMAIN MaxCalls -> Nat]
      /\ "open" \in DOMAIN MaxCalls /\ readers = [r \in 1 .. c |-> readers[r]]
      /\ DOMAIN index_lock = 1 .. MaxCalls["open"]
  BY FilesAssumption DEF FilesInv, CallsOK
<1>a. /\ new.open = FALSE /\ new.indexes = "unread" /\ new.parses = 0
      /\ DOMAIN new = ReaderFields
  BY DEF ReaderFields
<1> HIDE DEF new, c
<1>3. /\ DOMAIN readers = 1 .. c /\ Len(readers) = c
      /\ readers' = [r \in 1 .. c + 1 |-> readers'[r]] /\ DOMAIN readers' = 1 .. c + 1
      /\ \A r \in DOMAIN readers : r \in DOMAIN readers' /\ readers'[r] = readers[r]
      /\ readers'[c + 1] = new
  BY <1>1, <1>2, AppendAny
<1>4. OthersRest(t) /\ pc'[t] = "load" /\ answer'[t] = NoAnswer
      /\ opening'[t] = [NoLayer EXCEPT !.reader = c + 1]
  BY <1>1, <1>3 DEF FilesInv, OthersRest
<1>5. Frozen
  BY <1>3 DEF Frozen, FilesInv, ReaderOK
<1>6. ASSUME NEW u \in Threads, pc[u] \in {"load", "capture"}
      PROVE  opening[u].reader \in DOMAIN readers /\ ~readers'[opening[u].reader].open
  BY <1>3, <1>6 DEF FilesInv, ThreadOK, OpeningOK
<1>7. DiskGrows /\ DiskOK' /\ \A u \in Threads \ {t} : ThreadOK(u)'
  BY <1>1, <1>4, <1>5, <1>6, OthersStay
<1>8. DOMAIN opening'[t] = LayerFields /\ opening'[t].reader = c + 1
  BY <1>4 DEF NoLayer, LayerFields
<1>9. ThreadOK(t)'
  <2>1. OpeningOK(t)' /\ ReadingOK(t)'
    BY <1>2, <1>3, <1>4, <1>8, <1>a DEF OpeningOK, ReadingOK, Reading
  <2> QED BY <1>1, <1>4, <1>5, <1>7, <2>1, PartsStay DEF ThreadOK
<1>10. CallsOK'
  <2>1. calls'["open"] = c + 1 /\ calls' \in [DOMAIN MaxCalls -> Nat] /\ c + 1 <= MaxCalls["open"]
    BY <1>1, <1>2
  <2> QED BY <2>1, <1>1, <1>2, <1>3 DEF CallsOK
<1>11. \A r \in DOMAIN readers' : ReaderOK(r)'
  <2>1. ASSUME NEW r \in DOMAIN readers PROVE ReaderOK(r)'
    BY <1>1, <1>3 DEF FilesInv, ReaderOK
  <2>2. ASSUME NEW r, r = c + 1 PROVE ReaderOK(r)'
    BY <2>2, <1>3, <1>a DEF ReaderOK
  <2> QED BY <2>1, <2>2, <1>2, <1>3
<1>12. OpeningApart'
  <2>1. \A u \in Threads \ {t} :
            pc'[u] \in {"load", "capture"} => opening'[u].reader # opening'[t].reader
    <3>1. \A u \in Threads : pc[u] \in {"load", "capture"} => opening[u].reader # c + 1
      BY <1>2, <1>3, <1>6
    <3> QED BY <3>1, <1>4, <1>8 DEF OthersRest
  <2>2. ASSUME NEW u \in Threads, NEW v \in Threads,
               pc'[u] \in {"load", "capture"}, pc'[v] \in {"load", "capture"},
               opening'[u].reader = opening'[v].reader
        PROVE  u = v
    <3>1. CASE u # t /\ v # t
      <4>1. /\ pc[u] \in {"load", "capture"} /\ pc[v] \in {"load", "capture"}
            /\ opening[u].reader = opening[v].reader
        BY <2>2, <3>1, <1>4 DEF OthersRest
      <4> QED BY <4>1 DEF OpeningApart, FilesInv
    <3>2. CASE u = t \/ v = t
      BY <2>1, <2>2, <3>2
    <3> QED BY <3>1, <3>2
  <2> QED BY <2>2 DEF OpeningApart
<1>13. LockOK' /\ ParsedOK'
  <2>1. index_lock[c + 1] = 0
    BY <1>1, <1>2, <1>3 DEF FilesInv, LockOK
  <2>2. ASSUME NEW u \in Threads, pc[u] = "parse_indexes"
        PROVE  /\ index_lock[layer[u].reader] = u /\ layer[u].reader \in DOMAIN readers
               /\ readers[layer[u].reader].indexes = "unread" /\ u # t
    <3>1. IsOpen(layer[u].reader)
      BY <2>2 DEF FilesInv, ThreadOK, ReadingOK, Reading, LayerOK
    <3> QED BY <2>2, <3>1, <1>1 DEF FilesInv, LockOK, IsOpen
  <2>3. ASSUME NEW r \in DOMAIN readers', index_lock[r] # 0
        PROVE  /\ index_lock[r] \in Threads \ {t} /\ pc[index_lock[r]] = "parse_indexes"
               /\ layer[index_lock[r]].reader = r
    BY <2>1, <2>3, <1>1, <1>2, <1>3 DEF FilesInv, LockOK
  <2>4. \A r \in 1 .. MaxCalls["open"] : r \notin DOMAIN readers' => index_lock[r] = 0
    BY <1>3 DEF FilesInv, LockOK
  <2>5. \A u \in Threads : pc'[u] = "parse_indexes" => u # t /\ pc[u] = "parse_indexes"
    BY <1>4 DEF OthersRest
  <2>6. LockOK'
    BY <1>1, <1>3, <1>4, <2>2, <2>3, <2>4, <2>5 DEF LockOK, OthersRest
  <2>7. ParsedOK'
    BY <1>2, <1>3, <1>a DEF FilesInv, ParsedOK
  <2> QED BY <2>6, <2>7
<1> QED BY <1>1, <1>4, <1>7, <1>9, <1>10, <1>11, <1>12, <1>13 DEF FilesInv, OthersRest

\* A Reader that is being opened goes on, or is open with the fingerprint of
\* this moment.
LEMMA OpeningKeeps ==
    ASSUME FilesInv, NEW t \in Threads, NEW r, NEW new, OthersRest(t),
           UNCHANGED <<disk, writing, calls, index_lock, layer, loads>>,
           r = opening[t].reader, pc[t] \in {"load", "capture"},
           answer'[t] \in {answer[t], NoAnswer},
           readers' = [readers EXCEPT ![r] = new],
           DOMAIN new = ReaderFields, new.indexes = readers[r].indexes,
           new.parses = readers[r].parses, new.open => new.stamps = disk,
           \/ pc'[t] = "capture" /\ ~new.open /\ opening'[t] = opening[t]
           \/ pc'[t] = "idle" /\ opening'[t] = NoLayer
    PROVE  FilesInv'
<1>1. /\ OpeningOK(t) /\ r \in DOMAIN readers /\ ~readers[r].open
      /\ DOMAIN opening[t] = LayerFields
  BY DEF FilesInv, ThreadOK, OpeningOK
<1>2. /\ DOMAIN readers' = DOMAIN readers /\ readers'[r] = new
      /\ \A s \in DOMAIN readers \ {r} : readers'[s] = readers[s]
  BY <1>1
<1>3. Frozen
  BY <1>1, <1>2 DEF Frozen, FilesInv, ReaderOK
<1>4. ASSUME NEW u \in Threads \ {t}, pc[u] \in {"load", "capture"}
      PROVE  ~readers'[opening[u].reader].open
  <2>1. opening[u].reader \in DOMAIN readers /\ ~readers[opening[u].reader].open
    BY <1>4 DEF FilesInv, ThreadOK, OpeningOK
  <2>2. opening[u].reader # r
    BY <1>4 DEF FilesInv, OpeningApart
  <2> QED BY <2>1, <2>2, <1>2
<1>5. DiskGrows /\ DiskOK' /\ \A u \in Threads \ {t} : ThreadOK(u)'
  BY <1>3, <1>4, OthersStay
<1>6. ThreadOK(t)'
  <2>1. OpeningOK(t)' /\ ReadingOK(t)'
    BY <1>1, <1>2, NoLayerFields DEF OpeningOK, ReadingOK, Reading
  <2>2. LayerOK(layer[t])' /\ AnswerOK(t)' /\ LoadsOK(t)'
    BY <1>3, <1>5, PartsStay
  <2> QED BY <2>1, <2>2 DEF ThreadOK
<1>7. CallsOK'
  BY <1>2 DEF FilesInv, CallsOK
<1>8. \A s \in DOMAIN readers' : ReaderOK(s)'
  <2>1. ASSUME NEW s \in DOMAIN readers \ {r} PROVE ReaderOK(s)'
    BY <2>1, <1>2 DEF FilesInv, ReaderOK
  <2>2. ReaderOK(r)'
    BY <1>2 DEF FilesInv, ReaderOK, DiskOK
  <2> QED BY <2>1, <2>2, <1>2
<1>9. OpeningApart'
  <2>1. ASSUME NEW u \in Threads, pc'[u] \in {"load", "capture"}
        PROVE  pc[u] \in {"load", "capture"} /\ opening'[u].reader = opening[u].reader
    BY <2>1 DEF OthersRest
  <2> QED BY <2>1 DEF FilesInv, OpeningApart
<1>10. LockOK' /\ ParsedOK'
  <2>1. \A s \in DOMAIN readers : /\ readers'[s].indexes = readers[s].indexes
                                  /\ readers'[s].parses = readers[s].parses
    BY <1>2
  <2>2. \A u \in Threads : pc'[u] = "parse_indexes" <=> pc[u] = "parse_indexes"
    BY DEF OthersRest
  <2>3. \A u \in Threads : pc[u] = "parse_indexes" => layer[u].reader \in DOMAIN readers
    BY DEF FilesInv, ThreadOK, ReadingOK, Reading, LayerOK, IsOpen
  <2>4. LockOK'
    BY <1>2, <2>1, <2>2, <2>3 DEF FilesInv, LockOK
  <2>5. ParsedOK'
    BY <1>2, <2>1 DEF FilesInv, ParsedOK
  <2> QED BY <2>4, <2>5
<1> QED BY <1>5, <1>6, <1>7, <1>8, <1>9, <1>10 DEF FilesInv, OthersRest

\* Reader::open gives up.
LEMMA ScanFailsKeeps ==
    ASSUME FilesInv, NEW t \in Threads, Fails(t, "failed"), Opens(t, NoLayer),
           pc[t] # "parse_indexes",
           UNCHANGED <<disk, writing, calls, readers, index_lock, layer, loads>>
    PROVE  FilesInv'
BY OpenFailsKeeps DEF OpenFails, Fails

LEMMA LoadCatalogKeeps ==
    ASSUME FilesInv, NEW t \in Threads, LoadCatalog(t) PROVE FilesInv'
<1> DEFINE r == opening[t].reader
           new == [readers[r] EXCEPT !.names = Catalog[disk["catalog"]]]
<1>1. UNCHANGED <<disk, writing, calls, index_lock, layer, loads>> /\ pc[t] = "load"
  BY DEF LoadCatalog, Same
<1>2. CASE /\ readers' = [readers EXCEPT ![r].names = Catalog[disk["catalog"]]]
           /\ Goes(t, "capture") /\ UNCHANGED opening
  <2>1. r \in DOMAIN readers /\ ~readers[r].open /\ DOMAIN readers[r] = ReaderFields
    BY <1>1 DEF FilesInv, ThreadOK, OpeningOK, ReaderOK
  <2>2. readers' = [readers EXCEPT ![r] = new]
    BY <1>2
  <2>3. /\ OthersRest(t) /\ pc'[t] = "capture" /\ answer'[t] = answer[t]
        /\ opening'[t] = opening[t]
    BY <1>1, <1>2 DEF Goes, FilesInv, OthersRest
  <2>4. /\ DOMAIN new = ReaderFields /\ ~new.open /\ new.indexes = readers[r].indexes
        /\ new.parses = readers[r].parses
    BY <2>1 DEF ReaderFields
  <2> HIDE DEF new
  <2> QED BY <1>1, <2>2, <2>3, <2>4, OpeningKeeps
<1>3. CASE Fails(t, "CatalogResolveFailed") /\ Opens(t, NoLayer) /\ UNCHANGED readers
  BY <1>1, <1>3, ScanFailsKeeps DEF Fails
<1> QED BY <1>2, <1>3 DEF LoadCatalog

LEMMA CaptureKeeps == ASSUME FilesInv, NEW t \in Threads, Capture(t) PROVE FilesInv'
<1> DEFINE r == opening[t].reader
           new == [readers[r] EXCEPT !.stamps = disk, !.open = TRUE]
<1>1. /\ UNCHANGED <<disk, writing, calls, index_lock, layer, loads>> /\ pc[t] = "capture"
      /\ Opens(t, NoLayer)
  BY DEF Capture, Same
<1>2. CASE /\ readers' = [readers EXCEPT ![r].stamps = disk, ![r].open = TRUE]
           /\ Returns(t, NoAnswer)
  <2>1. r \in DOMAIN readers /\ ~readers[r].open /\ DOMAIN readers[r] = ReaderFields
    BY <1>1 DEF FilesInv, ThreadOK, OpeningOK, ReaderOK
  <2>2. readers' = [readers EXCEPT ![r] = new]
    BY <1>2, <2>1
  <2>3. /\ OthersRest(t) /\ pc'[t] = "idle" /\ answer'[t] = NoAnswer
        /\ opening'[t] = NoLayer
    BY <1>1, <1>2 DEF Opens, Returns, FilesInv, OthersRest
  <2>4. /\ DOMAIN new = ReaderFields /\ new.stamps = disk
        /\ new.indexes = readers[r].indexes /\ new.parses = readers[r].parses
    BY <2>1 DEF ReaderFields
  <2> HIDE DEF new
  <2> QED BY <1>1, <2>2, <2>3, <2>4, OpeningKeeps
<1>3. CASE Fails(t, "SourceSnapshotFailed") /\ UNCHANGED readers
  BY <1>1, <1>3, ScanFailsKeeps DEF Fails
<1> QED BY <1>2, <1>3 DEF Capture

----------------------------------------------------------------------------
(* The indexes of a Reader.                                                *)

\* Whoever holds the exclusive lock parses what nobody has parsed.
LEMMA ParserFacts ==
    ASSUME FilesInv, NEW u \in Threads, pc[u] = "parse_indexes"
    PROVE  /\ layer[u].reader \in DOMAIN readers /\ u # 0
           /\ index_lock[layer[u].reader] = u
           /\ readers[layer[u].reader].indexes = "unread"
<1>1. IsOpen(layer[u].reader)
  BY DEF FilesInv, ThreadOK, ReadingOK, Reading, LayerOK
<1> QED BY <1>1, FilesAssumption DEF FilesInv, LockOK, IsOpen

LEMMA LockIndexesKeeps ==
    ASSUME FilesInv, NEW t \in Threads, LockIndexes(t) PROVE FilesInv'
<1> DEFINE r == layer[t].reader
<1>1. /\ UNCHANGED <<disk, writing, calls, readers, layer, opening, loads, answer>>
      /\ pc[t] = "lock" /\ index_lock[r] = 0
  BY DEF LockIndexes, NoLayerStep, Same, Goes
<1>2. CASE pc' = [pc EXCEPT ![t] = "read"] /\ UNCHANGED index_lock
  BY <1>1, <1>2, ReadGoesOn
<1>3. CASE /\ readers[r].indexes = "unread" /\ pc' = [pc EXCEPT ![t] = "parse_indexes"]
           /\ index_lock' = [index_lock EXCEPT ![r] = t]
  <2>1. OthersRest(t) /\ pc'[t] = "parse_indexes"
    BY <1>1, <1>3 DEF FilesInv, OthersRest
  <2>2. IsOpen(r) /\ r \in 1 .. MaxCalls["open"] /\ DOMAIN index_lock = 1 .. MaxCalls["open"]
    <3>1. IsOpen(r) /\ CallsOK
      BY <1>1 DEF FilesInv, ThreadOK, ReadingOK, Reading, LayerOK
    <3>2. calls["open"] \in Nat /\ MaxCalls["open"] \in Nat
      BY <3>1, FilesAssumption DEF CallsOK
    <3> QED BY <3>1, <3>2 DEF CallsOK, IsOpen
  <2>3. Frozen
    BY <1>1 DEF FilesInv, Frozen, ReaderOK
  <2>4. DiskGrows /\ DiskOK' /\ \A u \in Threads \ {t} : ThreadOK(u)'
    <3>1. \A u \in Threads : pc[u] \in {"load", "capture"} => ~readers'[opening[u].reader].open
      BY <1>1 DEF FilesInv, ThreadOK, OpeningOK
    <3> QED BY <1>1, <2>1, <2>3, <3>1, OthersStay
  <2>5. ThreadOK(t)'
    <3>1. OpeningOK(t)' /\ ReadingOK(t)'
      BY <1>1, <2>1 DEF FilesInv, ThreadOK, OpeningOK, ReadingOK, Reading
    <3> QED BY <1>1, <2>1, <2>3, <2>4, <3>1, PartsStay DEF ThreadOK
  <2>6. CallsOK' /\ ParsedOK' /\ \A s \in DOMAIN readers' : ReaderOK(s)'
    <3>1. DOMAIN index_lock' = DOMAIN index_lock
      BY <1>3
    <3> QED BY ZenonT(40), <1>1, <3>1 DEF FilesInv, CallsOK, ParsedOK, ReaderOK
  <2>7. OpeningApart'
    <3>1. \A u \in Threads : pc'[u] \in {"load", "capture"} => pc[u] \in {"load", "capture"}
      BY <2>1 DEF OthersRest
    <3> QED BY <1>1, <3>1 DEF FilesInv, OpeningApart
  <2>8. LockOK'
    <3>1. index_lock'[r] = t /\ \A s \in 1 .. MaxCalls["open"] \ {r} : index_lock'[s] = index_lock[s]
      BY <1>3, <2>2
    <3>2. ASSUME NEW s \in DOMAIN readers, index_lock'[s] # 0
          PROVE  /\ index_lock'[s] \in Threads /\ pc'[index_lock'[s]] = "parse_indexes"
                 /\ layer[index_lock'[s]].reader = s
      <4>1. CASE s = r
        BY <3>1, <4>1, <2>1
      <4>2. CASE s # r
        <5>1. index_lock'[s] = index_lock[s]
          BY <1>3, <4>2
        <5>2. /\ index_lock[s] \in Threads /\ pc[index_lock[s]] = "parse_indexes"
              /\ layer[index_lock[s]].reader = s
          BY <3>2, <5>1 DEF FilesInv, LockOK
        <5> QED BY <5>1, <5>2, <1>1, <2>1 DEF OthersRest
      <4> QED BY <4>1, <4>2
    <3>3. ASSUME NEW u \in Threads, pc'[u] = "parse_indexes"
          PROVE  /\ index_lock'[layer[u].reader] = u
                 /\ readers[layer[u].reader].indexes = "unread"
      <4>1. CASE u = t
        BY <4>1, <3>1, <1>3
      <4>2. CASE u # t
        <5>1. pc[u] = "parse_indexes"
          BY <3>3, <4>2, <2>1 DEF OthersRest
        <5>2. layer[u].reader # r /\ index_lock[layer[u].reader] = u
              /\ readers[layer[u].reader].indexes = "unread"
          BY <5>1, <1>1, ParserFacts
        <5> QED BY <5>2, <1>3
      <4> QED BY <4>1, <4>2
    <3>4. \A s \in 1 .. MaxCalls["open"] : s \notin DOMAIN readers => index_lock'[s] = 0
      BY <2>2, <3>1 DEF FilesInv, LockOK, IsOpen
    <3> QED BY <1>1, <3>2, <3>3, <3>4 DEF LockOK
  <2> QED BY <1>1, <2>1, <2>4, <2>5, <2>6, <2>7, <2>8 DEF FilesInv, OthersRest
<1> QED BY <1>2, <1>3 DEF LockIndexes, Goes, IndexesOf

\* The outcome is published once: nobody else holds the lock.
LEMMA ParseIndexesKeeps ==
    ASSUME FilesInv, NEW t \in Threads, ParseIndexes(t) PROVE FilesInv'
<1> DEFINE r == layer[t].reader
<1>1. /\ UNCHANGED <<disk, writing, calls, layer, opening, loads, answer>>
      /\ pc[t] = "parse_indexes" /\ pc' = [pc EXCEPT ![t] = "read"]
      /\ index_lock' = [index_lock EXCEPT ![r] = 0]
  BY DEF ParseIndexes, NoLayerStep, Same, Goes
<1>2. /\ r \in DOMAIN readers /\ readers[r].indexes = "unread" /\ index_lock[r] = t
      /\ DOMAIN readers[r] = ReaderFields /\ readers[r].parses = 0
  BY <1>1, ParserFacts DEF FilesInv, ReaderOK, ParsedOK
<1>3. PICK how \in {"parsed", "failed"} :
        readers' = [readers EXCEPT ![r].indexes = how, ![r].parses = readers[r].parses + 1]
  BY <1>2 DEF ParseIndexes
<1>4. /\ DOMAIN readers' = DOMAIN readers
      /\ \A s \in DOMAIN readers \ {r} : readers'[s] = readers[s]
      /\ readers'[r].indexes = how /\ readers'[r].parses = 1
      /\ readers'[r].open = readers[r].open /\ readers'[r].stamps = readers[r].stamps
      /\ readers'[r].names = readers[r].names /\ DOMAIN readers'[r] = ReaderFields
  <2> DEFINE new == [readers[r] EXCEPT !.indexes = how, !.parses = readers[r].parses + 1]
  <2>1. readers' = [readers EXCEPT ![r] = new]
    BY <1>2, <1>3
  <2>2. /\ new.indexes = how /\ new.parses = 1 /\ new.open = readers[r].open
        /\ new.stamps = readers[r].stamps /\ new.names = readers[r].names
        /\ DOMAIN new = ReaderFields
    BY <1>2 DEF ReaderFields
  <2> HIDE DEF new
  <2> QED BY <1>2, <2>1, <2>2
<1>5. OthersRest(t) /\ pc'[t] = "read"
  BY <1>1 DEF FilesInv, OthersRest
<1>6. Frozen
  BY <1>4 DEF FilesInv, Frozen, ReaderOK
<1>7. DiskGrows /\ DiskOK' /\ \A u \in Threads \ {t} : ThreadOK(u)'
  <2>1. \A s \in DOMAIN readers : readers'[s].open = readers[s].open
    BY <1>4
  <2>2. \A u \in Threads : pc[u] \in {"load", "capture"} => ~readers'[opening[u].reader].open
    BY <2>1 DEF FilesInv, ThreadOK, OpeningOK
  <2> QED BY <1>1, <1>5, <1>6, <2>2, OthersStay
<1>8. ThreadOK(t)'
  <2>1. OpeningOK(t)' /\ ReadingOK(t)'
    BY <1>1, <1>4, <1>5 DEF FilesInv, ThreadOK, OpeningOK, ReadingOK, Reading
  <2> QED BY <1>1, <1>5, <1>6, <1>7, <2>1, PartsStay DEF ThreadOK
<1>9. CallsOK'
  <2>1. DOMAIN index_lock' = DOMAIN index_lock
    BY <1>1
  <2>2. readers' = [s \in DOMAIN readers |-> readers'[s]]
    BY <1>3
  <2> QED BY <1>1, <1>4, <2>1, <2>2 DEF FilesInv, CallsOK
<1>10. \A s \in DOMAIN readers' : ReaderOK(s)'
  <2>1. \A s \in DOMAIN readers : /\ readers'[s].open = readers[s].open
                                  /\ readers'[s].stamps = readers[s].stamps
                                  /\ DOMAIN readers'[s] = ReaderFields
    BY <1>4 DEF FilesInv, ReaderOK
  <2> QED BY <1>1, <1>4, <2>1 DEF FilesInv, ReaderOK
<1>11. OpeningApart'
  <2>1. \A u \in Threads : pc'[u] \in {"load", "capture"} => pc[u] \in {"load", "capture"}
    BY <1>5 DEF OthersRest
  <2> QED BY <1>1, <2>1 DEF FilesInv, OpeningApart
<1>12. ParsedOK'
  BY <1>4 DEF FilesInv, ParsedOK
<1>13. LockOK'
  <2>1. ASSUME NEW s \in DOMAIN readers, index_lock'[s] # 0
        PROVE  /\ index_lock'[s] \in Threads /\ pc'[index_lock'[s]] = "parse_indexes"
               /\ layer[index_lock'[s]].reader = s
    <3>0. DOMAIN index_lock = 1 .. MaxCalls["open"] /\ r \in DOMAIN index_lock
      <4>1. calls["open"] \in Nat /\ MaxCalls["open"] \in Nat /\ CallsOK
        BY FilesAssumption DEF FilesInv, CallsOK
      <4> QED BY <4>1, <1>2 DEF CallsOK
    <3>1. s # r /\ index_lock'[s] = index_lock[s]
      BY <1>1, <2>1, <3>0
    <3>2. /\ index_lock[s] \in Threads /\ pc[index_lock[s]] = "parse_indexes"
          /\ layer[index_lock[s]].reader = s
      BY <2>1, <3>1 DEF FilesInv, LockOK
    <3> QED BY <3>1, <3>2, <1>5 DEF OthersRest
  <2>2. ASSUME NEW u \in Threads, pc'[u] = "parse_indexes"
        PROVE  /\ index_lock'[layer[u].reader] = u
               /\ readers'[layer[u].reader].indexes = "unread"
    <3>1. u # t /\ pc[u] = "parse_indexes"
      BY <2>2, <1>5 DEF OthersRest
    <3>2. /\ layer[u].reader \in DOMAIN readers /\ index_lock[layer[u].reader] = u
          /\ readers[layer[u].reader].indexes = "unread"
      BY <3>1, ParserFacts
    <3>3. layer[u].reader # r
      BY <3>1, <3>2, <1>2
    <3> QED BY <3>2, <3>3, <1>1, <1>4
  <2>3. \A s \in 1 .. MaxCalls["open"] : s \notin DOMAIN readers' => index_lock'[s] = 0
    BY <1>1, <1>2, <1>4 DEF FilesInv, LockOK
  <2> QED BY <1>1, <1>4, <2>1, <2>2, <2>3 DEF LockOK
<1> QED
  BY <1>1, <1>5, <1>7, <1>8, <1>9, <1>10, <1>11, <1>12, <1>13 DEF FilesInv, OthersRest

----------------------------------------------------------------------------
LEMMA ThreadKeeps == ASSUME FilesInv, NEW t \in Threads, Thread(t) PROVE FilesInv'
<1>1. CASE Scan(t) \/ LoadCatalog(t) \/ Capture(t)
  BY <1>1, ScanKeeps, LoadCatalogKeeps, CaptureKeeps
<1>2. CASE OpenLayer(t) \/ OpenTable(t) \/ LookUp(t) \/ ParseTablx(t) \/ StoreOffsets(t)
  BY <1>2, OpenLayerKeeps, OpenTableKeeps, LookUpKeeps, ParseTablxKeeps, StoreOffsetsKeeps
<1>3. CASE StartRead(t) \/ FindIndexes(t) \/ LockIndexes(t) \/ ParseIndexes(t) \/ Read(t)
  BY <1>3, StartReadKeeps, FindIndexesKeeps, LockIndexesKeeps, ParseIndexesKeeps, ReadKeeps
<1>4. CASE StartMetadata(t) \/ LoadTable(t) \/ EndMetadata(t)
  BY <1>4, StartMetadataKeeps, LoadTableKeeps, EndMetadataKeeps
<1> QED BY <1>1, <1>2, <1>3, <1>4 DEF Thread

LEMMA FilesInductive == FilesInv /\ [Next]_vars => FilesInv'
<1> SUFFICES ASSUME FilesInv, [Next]_vars PROVE FilesInv'
  OBVIOUS
<1>1. CASE BeginCommit \/ WriteFile
  BY <1>1, WriterKeeps
<1>2. CASE \E t \in Threads : Thread(t)
  BY <1>2, ThreadKeeps
<1>3. CASE UNCHANGED vars
  <2>1. UNCHANGED <<disk, writing, readers, index_lock, pc, layer, opening, loads, answer,
                    calls>>
    BY <1>3 DEF vars
  <2>2. DiskOK' /\ CallsOK' /\ OpeningApart' /\ LockOK' /\ ParsedOK'
        /\ \A r \in DOMAIN readers' : ReaderOK(r)'
    BY ZenonT(40), <2>1
    DEF FilesInv, DiskOK, CallsOK, OpeningApart, LockOK, ParsedOK, ReaderOK
  <2>3. ASSUME NEW t \in Threads PROVE ThreadOK(t)'
    <3>1. Rests(t) /\ ThreadOK(t) /\ DiskOK /\ Frozen /\ DiskGrows
      BY <2>1, QuietIsFrozen DEF FilesInv, Rests, ThreadOK, OpeningOK
    <3> QED BY <2>1, <3>1, ThreadStays
  <2> QED BY <2>1, <2>2, <2>3 DEF FilesInv
<1> QED BY <1>1, <1>2, <1>3 DEF Next, Done

\* The files, the Readers and the threads are always in order, whatever the
\* Writer rewrites and whenever.
THEOREM FilesInvariance == Spec => []FilesInv
BY InitFilesInv, FilesInductive, PTL DEF Spec

\* A call that passes the comparison of fingerprints reads a table mapped as
\* the fingerprint has it (reader.cpp, Layer::query and its kin).
THEOREM ReadsFollowFingerprint == Spec => []QueriesReadSnapshot
<1>1. FilesInv => QueriesReadSnapshot
  BY DEF FilesInv, ThreadOK, ReadingOK, Reading, QueriesReadSnapshot
<1> QED BY <1>1, FilesInvariance, PTL

\* What read_metadata returns from its nineteen loads is one moment's content
\* of the six tables.
THEOREM MetadataSnapshot == Spec => []MetadataIsOneSnapshot
<1>1. FilesInv => MetadataIsOneSnapshot
  BY DEF FilesInv, ThreadOK, AnswerOK, MetadataIsOneSnapshot
<1> QED BY <1>1, FilesInvariance, PTL

\* However many threads ask for a Reader's indexes, they are parsed once and
\* have one outcome (gdb_catalog.cpp, the second look under the exclusive lock).
THEOREM OneParse == Spec => []IndexesParsedOnce
<1>1. FilesInv => IndexesParsedOnce
  BY DEF FilesInv, ParsedOK, IndexesParsedOnce
<1> QED BY <1>1, FilesInvariance, PTL

\* Whatever the threads do, the cache of offsets sees gets and puts only: what
\* is proved of it by itself holds for the process.
THEOREM ReadersUseTheCache == Spec => CacheSpec
<1>1. Init => CacheInit
  BY DEF Init
<1>2. [Next]_vars => [CacheNext]_cacheVars
  <2> SUFFICES ASSUME [Next]_vars PROVE [CacheNext]_cacheVars
    OBVIOUS
  <2>1. CASE BeginCommit \/ WriteFile \/ UNCHANGED vars
    BY <2>1 DEF BeginCommit, WriteFile, vars, cacheVars
  <2>2. ASSUME NEW t \in Threads, Thread(t) PROVE [CacheNext]_cacheVars
    <3>1. CASE LookUp(t)
      BY <3>1 DEF LookUp, CacheNext, NoCache, cacheVars
    <3>2. CASE StoreOffsets(t)
      BY <3>2 DEF StoreOffsets, CacheNext, NoCache, cacheVars
    <3>3. CASE ~LookUp(t) /\ ~StoreOffsets(t)
      <4>1. NoCache
        BY <2>2, <3>3
        DEF Thread, Scan, LoadCatalog, Capture, OpenLayer, OpenTable, ParseTablx, StartRead,
            FindIndexes, LockIndexes, ParseIndexes, Read, StartMetadata, LoadTable, EndMetadata
      <4> QED BY <4>1 DEF NoCache, cacheVars
    <3> QED BY <3>1, <3>2, <3>3
  <2> QED BY <2>1, <2>2 DEF Next, Done
<1> QED BY <1>1, <1>2, PTL DEF Spec, CacheSpec

\* No sequence of opens, of whatever threads, makes the cache's count drift.
THEOREM ReadersKeepTheAccount == ASSUME BytesAreNumbers PROVE Spec => []CacheIsAccounted
BY ReadersUseTheCache, CacheAccountsTheorem, PTL
=============================================================================
