--------------------------- MODULE GdSharedProofs ---------------------------
(***************************************************************************)
(* The round robin spreads its picks and the inode cache holds a key once, *)
(* for every number of threads and paths, every pool and every width of    *)
(* the counter.                                                            *)
(***************************************************************************)
EXTENDS GdShared, FiniteSetTheorems, TLAPS

-----------------------------------------------------------------------------
(***************************************************************************)
(* Division                                                                *)
(***************************************************************************)

\* A number has one quotient and one remainder.
LEMMA OneRemainder ==
  ASSUME NEW b \in Nat, b > 0, NEW q \in Int, NEW p \in Int,
         NEW r \in 0 .. b - 1, NEW s \in 0 .. b - 1, b * q + r = b * p + s
  PROVE  r = s
<1>1. \A x, y \in Int : x < y => b * x + b <= b * y
  <2> TAKE x, y \in Int
  <2> HAVE x < y
  <2>1. PICK d \in Nat : y = x + 1 + d
    <3>1. y - x - 1 \in Nat /\ y = x + 1 + (y - x - 1)
      OBVIOUS
    <3> QED BY <3>1
  <2>2. b * y = b * x + b + b * d
    BY <2>1
  <2>3. b * d >= 0 /\ b * x \in Int /\ b * d \in Int
    OBVIOUS
  <2> QED BY <2>2, <2>3
<1>2. b * q \in Int /\ b * p \in Int
  OBVIOUS
<1>3. CASE q < p
  <2>1. b * q + b <= b * p
    BY <1>1, <1>3
  <2> QED BY <1>2, <2>1
<1>4. CASE p < q
  <2>1. b * p + b <= b * q
    BY <1>1, <1>4
  <2> QED BY <1>2, <2>1
<1>5. CASE p = q
  BY <1>2, <1>5
<1> QED BY <1>3, <1>4, <1>5

LEMMA Division ==
  ASSUME NEW a \in Int, NEW b \in Int, b > 0
  PROVE  a = b * (a \div b) + (a % b) /\ a \div b \in Int /\ a % b \in 0 .. b - 1
<1>1. a = b * (a \div b) + (a % b)
  BY SMTT(60)
<1>2. a \div b \in Int /\ a % b \in 0 .. b - 1
  OBVIOUS
<1> QED BY <1>1, <1>2

\* Remainders of neighbours.
LEMMA NextRemainder ==
  ASSUME NEW a \in Nat, NEW b \in Nat, b > 0
  PROVE  /\ a % b \in 0 .. b - 1
         /\ (a + 1) % b = IF a % b = b - 1 THEN 0 ELSE (a % b) + 1
<1> DEFINE q == a \div b
           r == a % b
           p == (a + 1) \div b
           s == (a + 1) % b
<1>1. a = b * q + r /\ q \in Int /\ r \in 0 .. b - 1
  BY Division
<1>2. a + 1 = b * p + s /\ p \in Int /\ s \in 0 .. b - 1
  BY Division
<1> HIDE DEF q, r, p, s
<1>3. CASE r = b - 1
  <2>1. b * (q + 1) = b * q + b
    BY <1>1
  <2>2. b * p + s = b * (q + 1) + 0
    <3>1. b * q \in Int /\ b * p \in Int
      BY <1>1, <1>2
    <3> QED BY <1>1, <1>2, <1>3, <2>1, <3>1
  <2>3. q + 1 \in Int /\ 0 \in 0 .. b - 1
    BY <1>1
  <2>4. s = 0
    BY <1>2, <2>2, <2>3, OneRemainder
  <2> QED BY <1>1, <1>3, <2>4 DEF r, s
<1>4. CASE r # b - 1
  <2>1. b * p + s = b * q + (r + 1)
    <3>1. b * q \in Int /\ b * p \in Int
      BY <1>1, <1>2
    <3> QED BY <1>1, <1>2, <3>1
  <2>2. r + 1 \in 0 .. b - 1
    BY <1>1, <1>4
  <2>3. s = r + 1
    BY <1>1, <1>2, <2>1, <2>2, OneRemainder
  <2> QED BY <1>1, <1>4, <2>3 DEF r, s
<1> QED BY <1>3, <1>4

LEMMA ZeroRemainder ==
  ASSUME NEW b \in Nat, b > 0
  PROVE  0 % b = 0
<1> DEFINE q == 0 \div b
           r == 0 % b
<1>1. 0 = b * q + r /\ q \in Int /\ r \in 0 .. b - 1
  BY Division
<1> HIDE DEF q, r
<1>2. b * q + r = b * 0 + 0 /\ 0 \in 0 .. b - 1
  BY <1>1
<1>3. r = 0
  BY <1>1, <1>2, OneRemainder
<1> QED BY <1>3 DEF r

-----------------------------------------------------------------------------
(***************************************************************************)
(* Round robin                                                             *)
(***************************************************************************)

\* The slot of a pick that moved the counter on from c.
SlotFrom(c, n) == rr_index(Wrap(c + 1), n)

\* The counter's step and back again.
LEMMA Undone ==
  ASSUME NEW c \in LongMin .. LongMax
  PROVE  /\ Wrap(c + 1) \in LongMin .. LongMax
         /\ Wrap(Wrap(c + 1) - 1) = c
         /\ Wrap(c + 1) >= c => Wrap(c + 1) = c + 1
  BY SharedAssumption DEF Wrap, LongMin

\* Consecutive counters pick consecutive slots, round the pool, through zero.
LEMMA SlotsTurn ==
  ASSUME NEW n \in Nat, n > 1, NEW c \in LongMin .. LongMax
  PROVE  /\ SlotFrom(c, n) \in 0 .. n - 1
         /\ c < LongMax => SlotFrom(c + 1, n) =
                             IF SlotFrom(c, n) = n - 1 THEN 0 ELSE SlotFrom(c, n) + 1
<1> DEFINE At(k) == LET m == Rem(k, n) IN IF m < 0 THEN m + n ELSE m
<1>1. \A k \in LongMin .. LongMax : SlotFrom(k, n) = At(k)
  <2> TAKE k \in LongMin .. LongMax
  <2>1. Wrap(Wrap(k + 1) - 1) = k
    BY Undone
  <2>2. ~(n <= 0)
    OBVIOUS
  <2> QED BY <2>1, <2>2 DEF SlotFrom, rr_index
<1>2. LongMin \in Int /\ LongMax \in Nat /\ c \in Int
  BY SharedAssumption DEF LongMin
<1>3. n > 0 /\ 0 % n = 0
  BY ZeroRemainder
<1>4. CASE c >= 0
  <2>1. c \in Nat /\ c + 1 >= 0
    BY <1>2, <1>4
  <2>2. /\ c % n \in 0 .. n - 1
        /\ (c + 1) % n = IF c % n = n - 1 THEN 0 ELSE (c % n) + 1
    BY <1>3, <2>1, NextRemainder
  <2>3. At(c) = c % n /\ At(c + 1) = (c + 1) % n
    <3>1. (c + 1) % n >= 0 /\ c % n >= 0
      BY <2>2
    <3> QED BY <1>4, <2>1, <3>1 DEF Rem
  <2>4. c < LongMax => c + 1 \in LongMin .. LongMax
    BY <1>2
  <2> HIDE DEF At
  <2> QED BY <1>1, <2>2, <2>3, <2>4
<1>5. CASE c < 0
  <2> DEFINE a == -(c + 1)
  <2>1. a \in Nat /\ -c = a + 1 /\ c + 1 = -a
    BY <1>2, <1>5
  <2>2. /\ a % n \in 0 .. n - 1
        /\ (a + 1) % n = IF a % n = n - 1 THEN 0 ELSE (a % n) + 1
    BY <1>3, <2>1, NextRemainder
  <2>3. Rem(c, n) = -((a + 1) % n)
    BY <1>2, <1>5, <2>1 DEF Rem
  <2>4. Rem(c + 1, n) = -(a % n)
    <3>1. CASE a = 0
      <4>1. c + 1 = 0
        BY <2>1, <3>1
      <4> QED BY <1>3, <3>1, <4>1 DEF Rem
    <3>2. CASE a # 0
      <4>1. ~(c + 1 >= 0) /\ -(c + 1) = a
        BY <1>2, <2>1, <3>2
      <4> QED BY <4>1 DEF Rem
    <3> QED BY <3>1, <3>2
  <2> HIDE DEF a
  <2> DEFINE x == a % n
             y == (a + 1) % n
  <2>5. x \in 0 .. n - 1 /\ y = IF x = n - 1 THEN 0 ELSE x + 1
    BY <2>2
  <2>6. Rem(c, n) = -y /\ Rem(c + 1, n) = -x
    BY <2>3, <2>4
  <2> HIDE DEF x, y
  <2>7. At(c) = IF x = n - 1 THEN 0 ELSE (n - 1) - x
    BY <2>5, <2>6
  <2>8. At(c + 1) = IF x = 0 THEN 0 ELSE n - x
    BY <2>5, <2>6
  <2>9. c < LongMax => c + 1 \in LongMin .. LongMax
    BY <1>2
  <2> HIDE DEF At
  <2> QED BY <1>1, <1>2, <2>7, <2>8, <2>9, <2>5
<1> QED BY <1>2, <1>4, <1>5

LEMMA PoolFacts ==
  /\ \A n \in PoolSizes : n \in Nat
  /\ \A n \in PoolSizes \cup {1} : \A s \in 0 .. n - 1 : s \in Slots
  /\ 0 \in Slots
  /\ LongMin \in Int /\ LongMax \in Nat /\ 0 \in LongMin .. LongMax
<1>1. PoolSizes \cup {1} \subseteq Nat
  BY SharedAssumption
<1>2. \A n \in PoolSizes \cup {1} : -n .. n \in {-k .. k : k \in PoolSizes \cup {1}}
  OBVIOUS
<1>3. \A n \in PoolSizes \cup {1} : \A s \in 0 .. n - 1 : s \in -n .. n
  BY <1>1
<1>4. 0 \in -1 .. 1
  OBVIOUS
<1> QED BY <1>1, <1>2, <1>3, <1>4, SharedAssumption DEF Slots, LongMin

\* The slot Pick takes is one of the pool's, and how the counter moves on.
LEMMA PickEffect ==
  ASSUME SharedTypeOK, Pick
  PROVE  /\ UNCHANGED <<size, cacheVars>>
         /\ size <= 1 => picks' = [picks EXCEPT ![0] = @ + 1] /\ UNCHANGED <<rr, wraps>>
         /\ size > 1 => /\ NextSlot \in 0 .. size - 1
                        /\ picks' = [picks EXCEPT ![NextSlot] = @ + 1]
                        /\ rr' = Wrap(rr + 1)
                        /\ wraps' = IF rr' < rr THEN wraps + 1 ELSE wraps
<1>1. size \in Nat /\ rr \in LongMin .. LongMax
  BY PoolFacts DEF SharedTypeOK
<1>2. CASE size <= 1
  BY <1>1, <1>2 DEF Pick
<1>3. CASE size > 1
  <2>1. NextSlot \in 0 .. size - 1
    BY <1>1, <1>3, SlotsTurn DEF NextSlot, SlotFrom
  <2>2. ~(size <= 1)
    BY <1>1, <1>3
  <2> QED BY <2>1, <2>2 DEF Pick, NextSlot
<1> QED BY <1>1, <1>2, <1>3

LEMMA SharedTyped ==
  ASSUME SharedTypeOK, [SharedNext]_sharedVars
  PROVE  SharedTypeOK'
<1>1. CASE Pick
  <2>1. UNCHANGED <<size, entries, fresh, missed, leaked, expiries>>
    BY <1>1 DEF Pick, cacheVars
  <2>2. size \in Nat /\ rr \in LongMin .. LongMax /\ wraps \in Nat /\ picks \in [Slots -> Nat]
    BY PoolFacts DEF SharedTypeOK
  <2>3. picks' \in [Slots -> Nat]
    <3>1. PICK s \in Slots : picks' = [picks EXCEPT ![s] = @ + 1]
      BY <1>1, <2>2, PickEffect, PoolFacts DEF SharedTypeOK
    <3> QED BY <2>2, <3>1
  <2>4. rr' \in LongMin .. LongMax
    BY <1>1, <2>2, PickEffect, Undone
  <2>5. wraps' \in Nat
    BY <1>1, <2>2, PickEffect
  <2> QED BY <2>1, <2>3, <2>4, <2>5 DEF SharedTypeOK
<1>2. ASSUME NEW t \in Threads, NEW p \in Paths, cache_inode_find(t, p) PROVE SharedTypeOK'
  BY <1>2 DEF SharedTypeOK, cache_inode_find, poolVars
<1>3. ASSUME NEW t \in Threads, cache_inode_add(t) PROVE SharedTypeOK'
  <2>1. missed[t] \in Paths
    BY <1>3 DEF SharedTypeOK, cache_inode_add
  <2>2. entries' \in [Paths -> 0 .. 1] /\ leaked' \in Nat /\ entries'[missed[t]] = 1
    BY <1>3, <2>1 DEF SharedTypeOK, cache_inode_add
  <2>3. \A q \in Paths : entries[q] = 1 => entries'[q] = 1
    BY <1>3, <2>1 DEF SharedTypeOK, cache_inode_add
  <2> QED BY <1>3, <2>1, <2>2, <2>3 DEF SharedTypeOK, cache_inode_add, poolVars
<1>4. ASSUME NEW t \in Threads, NoMemory(t) PROVE SharedTypeOK'
  BY <1>4 DEF SharedTypeOK, NoMemory, poolVars
<1>5. ASSUME NEW p \in Paths, Expire(p) PROVE SharedTypeOK'
  BY <1>5 DEF SharedTypeOK, Expire, poolVars
<1>6. CASE UNCHANGED sharedVars
  BY <1>6 DEF SharedTypeOK, sharedVars, poolVars, cacheVars
<1> QED BY <1>1, <1>2, <1>3, <1>4, <1>5, <1>6 DEF SharedNext

\* One pick keeps the laps even: the slot picked was not ahead, and is now,
\* unless that closed the round or the counter wrapped, when a lap begins.
LEMMA PickSpreads ==
  ASSUME SharedTypeOK, LapsEven, Pick
  PROVE  LapsEven'
<1>1. /\ size \in Nat /\ rr \in LongMin .. LongMax /\ wraps \in Nat
      /\ picks \in [Slots -> Nat] /\ size' = size
      /\ \A s \in 0 .. size - 1 : s \in Slots
      /\ 0 \in Slots
  BY PickEffect, PoolFacts DEF SharedTypeOK
<1>2. CASE size <= 1
  <2>1. picks' = [picks EXCEPT ![0] = @ + 1]
    BY <1>2, PickEffect
  <2>2. \A s \in Slots : picks'[s] > 0 => s \in (0 .. size - 1) \cup {0}
    BY <1>1, <2>1 DEF LapsEven
  <2>3. ~(size' > 1)
    BY <1>1, <1>2
  <2> QED BY <1>1, <2>2, <2>3 DEF LapsEven
<1>3. CASE size > 1
  <2> DEFINE n == size
             x == NextSlot
             y == NextSlot'
  <2>1. /\ x \in 0 .. n - 1 /\ picks' = [picks EXCEPT ![x] = @ + 1]
        /\ rr' = Wrap(rr + 1) /\ wraps' = IF rr' < rr THEN wraps + 1 ELSE wraps
    BY <1>3, PickEffect
  <2>2. y \in 0 .. n - 1
    BY <1>1, <1>3, <2>1, Undone, SlotsTurn DEF NextSlot, SlotFrom
  <2>3. ~(rr' < rr) => y = IF x = n - 1 THEN 0 ELSE x + 1
    <3> HAVE ~(rr' < rr)
    <3>1. rr' = rr + 1 /\ rr' \in LongMin .. LongMax
      BY <1>1, <2>1, Undone, PoolFacts
    <3>2. rr < LongMax
      BY <1>1, <3>1, PoolFacts
    <3> QED BY <1>1, <1>3, <3>1, <3>2, SlotsTurn DEF NextSlot, SlotFrom
  <2>4. PICK f \in 0 .. n - 1 : \A i, j \in 0 .. n - 1 :
          picks[i] + Ahead(f, j) <= picks[j] + Ahead(f, i) + wraps
    BY <1>3 DEF LapsEven
  <2>5. \A s \in 0 .. n - 1 :
          /\ picks[s] \in Nat
          /\ picks'[s] = IF s = x THEN picks[s] + 1 ELSE picks[s]
          /\ Ahead(f, s) = IF IF f <= x THEN f <= s /\ s < x ELSE f <= s \/ s < x
                           THEN 1 ELSE 0
          /\ \A g \in 0 .. n - 1 : Ahead(g, s)' =
               IF IF g <= y THEN g <= s /\ s < y ELSE g <= s \/ s < y THEN 1 ELSE 0
    BY <1>1, <2>1 DEF Ahead, Extra
  <2>6. \A s \in Slots : picks'[s] > 0 => s \in (0 .. n - 1) \cup {0}
    BY <1>1, <2>1 DEF LapsEven
  <2> DEFINE Even(g) == \A i, j \in 0 .. n - 1 :
                          picks'[i] + Ahead(g, j)' <= picks'[j] + Ahead(g, i)' + wraps'
  <2>7. \E g \in 0 .. n - 1 : Even(g)
    <3> HIDE DEF x, y
    <3>1. CASE rr' < rr
      <4>0. PICK z \in 0 .. n - 1 : z = y
        BY <2>2
      <4>1. ASSUME NEW i \in 0 .. n - 1, NEW j \in 0 .. n - 1
            PROVE  picks'[i] + Ahead(z, j)' <= picks'[j] + Ahead(z, i)' + wraps'
        <5>1. Ahead(z, i)' = 0 /\ Ahead(z, j)' = 0
          BY <1>1, <2>5, <4>0
        <5>2. wraps' = wraps + 1
          BY <2>1, <3>1
        <5>3. picks[i] + Ahead(f, j) <= picks[j] + Ahead(f, i) + wraps
          BY <2>4
        <5>4. Ahead(f, x) = 0 /\ Ahead(f, i) \in 0 .. 1 /\ Ahead(f, j) \in 0 .. 1
          BY <1>1, <2>1, <2>4, <2>5
        <5>5. CASE i = x
          BY <1>1, <2>5, <5>1, <5>2, <5>3, <5>4, <5>5
        <5>6. CASE i # x
          BY <1>1, <2>5, <5>1, <5>2, <5>3, <5>4, <5>6
        <5> QED BY <5>5, <5>6
      <4> QED BY <4>0, <4>1
    <3>2. CASE ~(rr' < rr)
      <4>1. ASSUME NEW i \in 0 .. n - 1, NEW j \in 0 .. n - 1
            PROVE  picks'[i] + Ahead(f, j)' <= picks'[j] + Ahead(f, i)' + wraps'
        <5>1. wraps' = wraps /\ y = IF x = n - 1 THEN 0 ELSE x + 1
          BY <2>1, <2>3, <3>2
        <5>2. picks[i] + Ahead(f, j) <= picks[j] + Ahead(f, i) + wraps
          BY <2>4
        <5>3. Ahead(f, x) = 0
          BY <1>1, <2>1, <2>4, <2>5
        <5>4. CASE y = f
          <6>1. \A s \in 0 .. n - 1 : Ahead(f, s)' = 0 /\ (s # x => Ahead(f, s) = 1)
            BY <1>1, <1>3, <2>1, <2>4, <2>5, <5>1, <5>4
          <6> QED BY <1>1, <2>1, <2>5, <5>1, <5>2, <5>3, <6>1
        <5>5. CASE y # f
          <6>1. \A s \in 0 .. n - 1 : Ahead(f, s)' = IF s = x THEN 1 ELSE Ahead(f, s)
            BY <1>1, <1>3, <2>1, <2>4, <2>5, <5>1, <5>5
          <6>2. Ahead(f, i) \in 0 .. 1 /\ Ahead(f, j) \in 0 .. 1
            BY <2>5
          <6> QED BY <1>1, <2>1, <2>5, <5>1, <5>2, <5>3, <6>1, <6>2
        <5> QED BY <5>4, <5>5
      <4> QED BY <2>4, <4>1
    <3> QED BY <3>1, <3>2
  <2> QED BY <1>1, <2>6, <2>7 DEF LapsEven
<1> QED BY <1>1, <1>2, <1>3

LEMMA SpreadsKept ==
  ASSUME SharedTypeOK, LapsEven, [SharedNext]_sharedVars
  PROVE  LapsEven'
<1>1. CASE Pick
  BY <1>1, PickSpreads
<1>2. CASE UNCHANGED poolVars
  BY <1>2 DEF poolVars, LapsEven, Ahead, Extra, NextSlot
<1> QED
  BY <1>1, <1>2
  DEF SharedNext, sharedVars, cache_inode_find, cache_inode_add, NoMemory, Expire

-----------------------------------------------------------------------------
(***************************************************************************)
(* The inode cache                                                         *)
(***************************************************************************)

LEMMA Counts ==
  /\ Cardinality(Threads) \in Nat /\ Cardinality(Threads) >= 1
  /\ Cardinality(Paths) \in Nat
  /\ \A S \in SUBSET Paths : /\ IsFiniteSet(S) /\ Cardinality(S) \in Nat
                             /\ Cardinality(S) <= Cardinality(Paths)
  /\ \A S \in SUBSET (Threads \X Paths) : IsFiniteSet(S) /\ Cardinality(S) \in Nat
<1>1. IsFiniteSet(Threads \X Paths)
  BY SharedAssumption, FS_Product
<1>2. \A S \in SUBSET (Threads \X Paths) : IsFiniteSet(S) /\ Cardinality(S) \in Nat
  BY <1>1, FS_Subset, FS_CardinalityType
<1>3. \A S \in SUBSET Paths : /\ IsFiniteSet(S) /\ Cardinality(S) \in Nat
                              /\ Cardinality(S) <= Cardinality(Paths)
  BY SharedAssumption, FS_Subset, FS_CardinalityType
<1>4. Cardinality(Threads) \in Nat /\ Cardinality(Threads) # 0
  BY SharedAssumption, FS_CardinalityType, FS_EmptySet
<1> QED BY <1>2, <1>3, <1>4, SharedAssumption, FS_CardinalityType

\* The pairs of some threads with one path are as many as the threads.
LEMMA PairsOfPath ==
  ASSUME NEW T \in SUBSET Threads, NEW p \in Paths
  PROVE  /\ IsFiniteSet(T \X {p}) /\ Cardinality(T \X {p}) = Cardinality(T)
         /\ Cardinality(T) \in Nat
<1>1. IsFiniteSet(T) /\ Cardinality(T) \in Nat
  BY SharedAssumption, FS_Subset, FS_CardinalityType
<1>2. IsFiniteSet({p}) /\ Cardinality({p}) = 1
  BY FS_Singleton
<1>3. IsFiniteSet(T \X {p}) /\ Cardinality(T \X {p}) = Cardinality(T) * Cardinality({p})
  BY <1>1, <1>2, FS_Product
<1> QED BY <1>1, <1>2, <1>3

\* Sets that grow by at most another count at most the sum.
LEMMA GrowsBy ==
  ASSUME NEW S, NEW D, NEW E, IsFiniteSet(S), IsFiniteSet(D), E \subseteq S \cup D
  PROVE  Cardinality(E) <= Cardinality(S) + Cardinality(D)
<1>1. /\ IsFiniteSet(S \cup D) /\ IsFiniteSet(S \cap D)
      /\ Cardinality(S \cup D) = Cardinality(S) + Cardinality(D) - Cardinality(S \cap D)
  BY FS_Union, FS_Intersection
<1>2. Cardinality(E) <= Cardinality(S \cup D)
  BY <1>1, FS_Subset
<1>3. /\ Cardinality(S) \in Nat /\ Cardinality(D) \in Nat /\ Cardinality(S \cap D) \in Nat
      /\ Cardinality(E) \in Nat /\ Cardinality(S \cup D) \in Nat
  BY <1>1, FS_CardinalityType, FS_Subset
<1> QED BY <1>1, <1>2, <1>3

LEMMA FewerWithout ==
  ASSUME NEW S, NEW x \in S, NEW E, IsFiniteSet(S), E \subseteq S \ {x}
  PROVE  Cardinality(E) + 1 <= Cardinality(S)
<1>1. IsFiniteSet(S \ {x}) /\ Cardinality(S \ {x}) = Cardinality(S) - 1
  BY FS_RemoveElement
<1>2. Cardinality(E) <= Cardinality(S \ {x})
  BY <1>1, FS_Subset
<1>3. Cardinality(S) \in Nat /\ Cardinality(E) \in Nat
  BY <1>1, FS_CardinalityType, FS_Subset
<1> QED BY <1>1, <1>2, <1>3

\* The bound without its sets: what a step may do to the four counts.
LEMMA BoundKept ==
  ASSUME NEW N \in Nat, N >= 1, NEW l \in Nat, NEW d \in Nat, NEW c \in Nat, NEW e \in Nat,
         l + d <= (N - 1) * c + N * e
  PROVE  /\ \A k \in Nat : k <= d + (N - 1) => l + k <= (N - 1) * (c + 1) + N * e
         /\ \A k \in Nat : k + 1 <= d => (l + 1) + k <= (N - 1) * c + N * e
         /\ \A k \in Nat : k <= d + N => l + k <= (N - 1) * c + N * (e + 1)
         /\ \A k \in Nat : k <= d => l + k <= (N - 1) * c + N * e
<1>1. (N - 1) * (c + 1) = (N - 1) * c + (N - 1) /\ (N - 1) * c \in Int
  <2>1. PICK m \in Nat : m = N - 1
    OBVIOUS
  <2>2. m * (c + 1) = m * c + m /\ m * c \in Int
    OBVIOUS
  <2> QED BY <2>1, <2>2
<1>2. N * (e + 1) = N * e + N /\ N * e \in Int
  OBVIOUS
<1> QED BY <1>1, <1>2

\* A step of a thread or of the clock changes leaks, debts and entries within
\* the bound.
LEMMA LeaksKept ==
  ASSUME SharedTypeOK, LeaksCounted, [SharedNext]_sharedVars
  PROVE  LeaksCounted'
<1> DEFINE N == Cardinality(Threads)
<1>1. Debts \in SUBSET (Threads \X Paths) /\ Cached \in SUBSET Paths
  BY DEF Debts, Cached
<1>2. /\ IsFiniteSet(Debts) /\ Cardinality(Debts) \in Nat
      /\ IsFiniteSet(Cached) /\ Cardinality(Cached) \in Nat
  BY <1>1, Counts
<1>3. N \in Nat /\ N >= 1 /\ leaked \in Nat /\ expiries \in Nat
  BY Counts DEF SharedTypeOK
<1>4. leaked + Cardinality(Debts) <= (N - 1) * Cardinality(Cached) + N * expiries
  BY DEF LeaksCounted
<1>5. Debts' \in SUBSET (Threads \X Paths) /\ IsFiniteSet(Debts') /\ Cardinality(Debts') \in Nat
  <2>1. Debts' \in SUBSET (Threads \X Paths)
    BY DEF Debts
  <2> QED BY <2>1, Counts
<1>6. ASSUME Debts' \subseteq Debts, UNCHANGED <<leaked, expiries>>, Cached' = Cached
      PROVE  LeaksCounted'
  <2>1. Cardinality(Debts') <= Cardinality(Debts)
    BY <1>2, <1>6, FS_Subset
  <2> HIDE DEF N
  <2>2. leaked + Cardinality(Debts') <= (N - 1) * Cardinality(Cached) + N * expiries
    BY <1>2, <1>3, <1>4, <1>5, <2>1, BoundKept
  <2> QED BY <1>6, <2>2 DEF LeaksCounted, N
<1>7. ASSUME NEW t \in Threads, NEW p \in Paths, cache_inode_find(t, p) PROVE LeaksCounted'
  <2>1. /\ missed' = [missed EXCEPT ![t] = p] /\ UNCHANGED <<entries, fresh, leaked, expiries>>
        /\ missed \in [Threads -> Paths \cup {NoPath}]
        /\ ~(entries[p] > 0 /\ p \in fresh) /\ entries \in [Paths -> 0 .. 1]
    BY <1>7 DEF cache_inode_find, SharedTypeOK, Hit
  <2>2. ASSUME NEW u \in Threads, NEW q \in Paths, <<u, q>> \in Debts' PROVE <<u, q>> \in Debts
    <3>1. entries[q] = 1 /\ (missed'[u] = q \/ q \notin fresh)
      BY <2>1, <2>2 DEF Debts
    <3>2. missed[u] = q \/ q \notin fresh
      BY <2>1, <3>1
    <3> QED BY <3>1, <3>2 DEF Debts
  <2>3. Debts' \subseteq Debts /\ Cached' = Cached
    BY <1>5, <2>1, <2>2 DEF Cached
  <2> QED BY <1>6, <2>1, <2>3
<1>8. ASSUME NEW t \in Threads, NoMemory(t) PROVE LeaksCounted'
  <2>1. /\ missed' = [missed EXCEPT ![t] = NoPath]
        /\ UNCHANGED <<entries, fresh, leaked, expiries>>
        /\ missed \in [Threads -> Paths \cup {NoPath}] /\ NoPath \notin Paths
    BY <1>8, SharedAssumption DEF NoMemory, SharedTypeOK
  <2>2. Debts' \subseteq Debts /\ Cached' = Cached
    BY <2>1 DEF Debts, Cached
  <2> QED BY <1>6, <2>1, <2>2
<1>9. ASSUME NEW t \in Threads, cache_inode_add(t) PROVE LeaksCounted'
  <2> DEFINE p == missed[t]
  <2>1. /\ p \in Paths /\ missed' = [missed EXCEPT ![t] = NoPath] /\ fresh' = fresh \cup {p}
        /\ missed \in [Threads -> Paths \cup {NoPath}] /\ NoPath \notin Paths
        /\ entries \in [Paths -> 0 .. 1] /\ expiries' = expiries
        /\ \A q \in fresh : entries[q] = 1
    BY <1>9, SharedAssumption DEF cache_inode_add, SharedTypeOK
  <2>2. CASE entries[p] = 0
    <3>1. entries' = [entries EXCEPT ![p] = 1] /\ leaked' = leaked
      BY <1>9, <2>2 DEF cache_inode_add
    <3>2. Cached' = Cached \cup {p} /\ p \notin Cached
      BY <2>1, <2>2, <3>1 DEF Cached
    <3>3. Cardinality(Cached') = Cardinality(Cached) + 1
      BY <1>2, <3>2, FS_AddElement
    <3>4. ASSUME NEW u \in Threads, NEW q \in Paths, <<u, q>> \in Debts'
          PROVE  <<u, q>> \in Debts \cup (Threads \ {t}) \X {p}
      <4>1. entries'[q] = 1 /\ (missed'[u] = q \/ q \notin fresh')
        BY <3>4 DEF Debts
      <4>2. CASE q = p
        <5>1. missed'[u] = p /\ u # t
          BY <2>1, <4>1, <4>2
        <5> QED BY <4>2, <5>1
      <4>3. CASE q # p
        <5>1. entries[q] = 1 /\ (missed[u] = q \/ q \notin fresh)
          BY <2>1, <3>1, <4>1, <4>3
        <5> QED BY <5>1 DEF Debts
      <4> QED BY <4>2, <4>3
    <3>5. Debts' \subseteq Debts \cup (Threads \ {t}) \X {p}
      BY <1>5, <3>4
    <3>6. Cardinality(Threads \ {t}) = N - 1
      BY SharedAssumption, FS_RemoveElement
    <3>7. IsFiniteSet((Threads \ {t}) \X {p}) /\ Cardinality((Threads \ {t}) \X {p}) = N - 1
      BY <2>1, <3>6, PairsOfPath
    <3>8. Cardinality(Debts') <= Cardinality(Debts) + (N - 1)
      BY <1>2, <3>5, <3>7, GrowsBy
    <3> HIDE DEF N
    <3>9. leaked + Cardinality(Debts') <= (N - 1) * (Cardinality(Cached) + 1) + N * expiries
      BY <1>2, <1>3, <1>4, <1>5, <3>8, BoundKept
    <3> QED BY <2>1, <3>1, <3>3, <3>9 DEF LeaksCounted, N
  <2>3. CASE entries[p] # 0
    <3>1. entries' = entries /\ leaked' = leaked + 1 /\ entries[p] = 1
      BY <1>9, <2>1, <2>3 DEF cache_inode_add
    <3>2. Cached' = Cached
      BY <3>1 DEF Cached
    <3>3. <<t, p>> \in Debts
      BY <2>1, <3>1 DEF Debts
    <3>4. ASSUME NEW u \in Threads, NEW q \in Paths, <<u, q>> \in Debts'
          PROVE  <<u, q>> \in Debts \ {<<t, p>>}
      <4>1. entries[q] = 1 /\ (missed'[u] = q \/ q \notin fresh')
        BY <3>1, <3>4 DEF Debts
      <4>2. missed[u] = q \/ q \notin fresh
        BY <2>1, <4>1
      <4>3. ~(u = t /\ q = p)
        BY <2>1, <4>1
      <4> QED BY <4>1, <4>2, <4>3 DEF Debts
    <3>5. Debts' \subseteq Debts \ {<<t, p>>}
      BY <1>5, <3>4
    <3>6. Cardinality(Debts') + 1 <= Cardinality(Debts)
      BY <1>2, <3>3, <3>5, FewerWithout
    <3> HIDE DEF N
    <3>7. (leaked + 1) + Cardinality(Debts') <= (N - 1) * Cardinality(Cached) + N * expiries
      BY <1>2, <1>3, <1>4, <1>5, <3>6, BoundKept
    <3> QED BY <2>1, <3>1, <3>2, <3>7 DEF LeaksCounted, N
  <2> QED BY <2>2, <2>3
<1>10. ASSUME NEW p \in Paths, Expire(p) PROVE LeaksCounted'
  <2>1. /\ fresh' = fresh \ {p} /\ expiries' = expiries + 1
        /\ UNCHANGED <<entries, missed, leaked>>
    BY <1>10 DEF Expire
  <2>2. ASSUME NEW u \in Threads, NEW q \in Paths, <<u, q>> \in Debts'
        PROVE  <<u, q>> \in Debts \cup Threads \X {p}
    <3>1. entries[q] = 1 /\ (missed[u] = q \/ q \notin fresh')
      BY <2>1, <2>2 DEF Debts
    <3>2. CASE q = p
      BY <3>2
    <3>3. CASE q # p
      BY <2>1, <3>1, <3>3 DEF Debts
    <3> QED BY <3>2, <3>3
  <2>3. Debts' \subseteq Debts \cup Threads \X {p}
    BY <1>5, <2>2
  <2>4. IsFiniteSet(Threads \X {p}) /\ Cardinality(Threads \X {p}) = N
    BY PairsOfPath
  <2>5. Cardinality(Debts') <= Cardinality(Debts) + N
    BY <1>2, <2>3, <2>4, GrowsBy
  <2>6. Cached' = Cached
    BY <2>1 DEF Cached
  <2> HIDE DEF N
  <2>7. leaked + Cardinality(Debts') <= (N - 1) * Cardinality(Cached) + N * (expiries + 1)
    BY <1>2, <1>3, <1>4, <1>5, <2>5, BoundKept
  <2> QED BY <2>1, <2>6, <2>7 DEF LeaksCounted, N
<1>11. CASE UNCHANGED cacheVars
  <2>1. Debts' \subseteq Debts /\ Cached' = Cached /\ UNCHANGED <<leaked, expiries>>
    BY <1>11 DEF cacheVars, Debts, Cached
  <2> QED BY <1>6, <2>1
<1>12. CASE Pick
  BY <1>11, <1>12 DEF Pick
<1> QED
  BY <1>7, <1>8, <1>9, <1>10, <1>11, <1>12 DEF SharedNext, sharedVars

-----------------------------------------------------------------------------
(***************************************************************************)
(* The theorems                                                            *)
(***************************************************************************)

SharedInv == SharedTypeOK /\ LapsEven /\ LeaksCounted

LEMMA SharedStart == SharedInit => SharedInv
<1> SUFFICES ASSUME SharedInit PROVE SharedInv
  OBVIOUS
<1>1. /\ size \in PoolSizes /\ size \in Nat
      /\ rr = 0 /\ picks = [s \in Slots |-> 0] /\ wraps = 0
      /\ entries = [p \in Paths |-> 0] /\ fresh = {}
      /\ missed = [t \in Threads |-> NoPath] /\ leaked = 0 /\ expiries = 0
  BY PoolFacts DEF SharedInit
<1>2. SharedTypeOK
  BY <1>1, PoolFacts DEF SharedTypeOK
<1>3. LapsEven
  <2>1. \A s \in Slots : picks[s] = 0
    BY <1>1
  <2>2. ASSUME size > 1
        PROVE  \E first \in 0 .. size - 1 : \A i, j \in 0 .. size - 1 :
                 picks[i] + Ahead(first, j) <= picks[j] + Ahead(first, i) + wraps
    <3>1. NextSlot \in 0 .. size - 1
      BY <1>1, <2>2, SlotsTurn, PoolFacts DEF NextSlot, SlotFrom
    <3>2. PICK first \in 0 .. size - 1 : first = NextSlot
      BY <3>1
    <3>3. \A i \in 0 .. size - 1 : picks[i] = 0 /\ Ahead(first, i) = 0
      BY <1>1, <2>1, <3>2, PoolFacts DEF Ahead, Extra
    <3>4. \A i, j \in 0 .. size - 1 :
            picks[i] + Ahead(first, j) <= picks[j] + Ahead(first, i) + wraps
      BY <1>1, <3>3
    <3> QED BY <3>4
  <2> QED BY <2>1, <2>2 DEF LapsEven
<1>4. LeaksCounted
  <2>1. Debts = {} /\ Cached = {}
    BY <1>1 DEF Debts, Cached
  <2>2. Cardinality({}) = 0
    BY FS_EmptySet
  <2>3. (Cardinality(Threads) - 1) * 0 = 0 /\ Cardinality(Threads) * 0 = 0
    BY Counts
  <2> QED BY <1>1, <2>1, <2>2, <2>3 DEF LeaksCounted
<1> QED BY <1>2, <1>3, <1>4 DEF SharedInv

LEMMA SharedStep == SharedInv /\ [SharedNext]_sharedVars => SharedInv'
  BY SharedTyped, SpreadsKept, LeaksKept DEF SharedInv

\* Every variable of the shared structures keeps its type.
THEOREM SharedTypeCorrect == SharedSpec => []SharedTypeOK
<1>1. SharedInv => SharedTypeOK
  BY DEF SharedInv
<1> QED BY <1>1, SharedStart, SharedStep, PTL DEF SharedSpec

\* gd_pool_pick stays inside the pool and spreads its picks, whatever the
\* pool's size and however often the counter overflows.
THEOREM RoundRobinSpreads == SharedSpec => []PicksSpread
<1>1. SharedInv => PicksSpread
  <2> SUFFICES ASSUME SharedInv PROVE PicksSpread
    OBVIOUS
  <2>1. /\ size \in Nat /\ wraps \in Nat /\ picks \in [Slots -> Nat]
        /\ \A s \in 0 .. size - 1 : s \in Slots
        /\ LapsEven
    BY PoolFacts DEF SharedInv, SharedTypeOK
  <2>2. \A s \in Slots : picks[s] > 0 => s \in (0 .. size - 1) \cup {0}
    BY <2>1 DEF LapsEven
  <2>3. ASSUME NEW i \in 0 .. size - 1, NEW j \in 0 .. size - 1
        PROVE  picks[i] <= picks[j] + 1 + wraps
    <3>1. picks[i] \in Nat /\ picks[j] \in Nat
      BY <2>1
    <3>2. CASE size <= 1
      <4>1. i = j
        BY <2>1, <3>2
      <4> QED BY <2>1, <3>1, <4>1
    <3>3. CASE size > 1
      <4>1. PICK first \in 0 .. size - 1 :
              picks[i] + Ahead(first, j) <= picks[j] + Ahead(first, i) + wraps
        BY <2>1, <3>3 DEF LapsEven
      <4>2. Ahead(first, i) \in 0 .. 1 /\ Ahead(first, j) \in 0 .. 1
        BY DEF Ahead
      <4> QED BY <2>1, <3>1, <4>1, <4>2
    <3> QED BY <2>1, <3>2, <3>3
  <2> QED BY <2>2, <2>3 DEF PicksSpread
<1> QED BY <1>1, SharedStart, SharedStep, PTL DEF SharedSpec

\* The inode cache holds a key once, and gd_stat loses no more blocks than
\* races and expiries account for.
THEOREM CacheHoldsOnce == SharedSpec => []OneEntry
<1>1. SharedInv => OneEntry
  <2> SUFFICES ASSUME SharedInv PROVE OneEntry
    OBVIOUS
  <2> DEFINE N == Cardinality(Threads)
             P == Cardinality(Paths)
  <2>1. /\ entries \in [Paths -> 0 .. 1] /\ leaked \in Nat /\ expiries \in Nat
        /\ leaked + Cardinality(Debts) <= (N - 1) * Cardinality(Cached) + N * expiries
    BY DEF SharedInv, SharedTypeOK, LeaksCounted
  <2>2. N \in Nat /\ N >= 1 /\ P \in Nat
    BY Counts
  <2>3. /\ Cardinality(Debts) \in Nat /\ Cardinality(Cached) \in Nat
        /\ Cardinality(Cached) <= P
    <3>1. Debts \in SUBSET (Threads \X Paths) /\ Cached \in SUBSET Paths
      BY DEF Debts, Cached
    <3> QED BY <3>1, Counts
  <2>4. (N - 1) * Cardinality(Cached) <= (N - 1) * P
    <3> DEFINE c == Cardinality(Cached)
               m == N - 1
    <3>1. m \in Nat /\ c \in Nat /\ P \in Nat /\ c <= P
      BY <2>2, <2>3
    <3> HIDE DEF c, N, P, m
    <3>2. m * c <= m * P
      BY <3>1
    <3> QED BY <3>2 DEF m, c
  <2>5. leaked <= (N - 1) * P + N * expiries
    <3> HIDE DEF N, P
    <3>1. (N - 1) * Cardinality(Cached) \in Int /\ (N - 1) * P \in Int /\ N * expiries \in Int
      BY <2>1, <2>2, <2>3
    <3> QED BY <2>1, <2>3, <2>4, <3>1
  <2> QED BY <2>1, <2>5 DEF OneEntry
<1> QED BY <1>1, SharedStart, SharedStep, PTL DEF SharedSpec
=============================================================================
