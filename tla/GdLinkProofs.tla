---------------------------- MODULE GdLinkProofs ----------------------------
(***************************************************************************)
(* The handle registry's list keeps its shape, implements a set, and is    *)
(* walked exactly, for every finite set of blocks and whatever freed       *)
(* memory holds.                                                           *)
(***************************************************************************)
EXTENDS GdLink, FiniteSetTheorems, FunctionTheorems, NaturalsInduction, TLAPS

LinkInv == LinkTypeOK /\ ListShape

LEMMA NilApart == Nil \notin Blocks /\ Blocks \subseteq Pointers /\ Nil \in Pointers
  BY LinkAssumption DEF Pointers

\* What gd_link_add does to the fields, and to which blocks are linked.
LEMMA AddEffect ==
  ASSUME LinkInv, NEW n \in Blocks, Register(n)
  PROVE  /\ LinkInv'
         /\ n \notin Registered
         /\ Registered' = Registered \cup {n}
<1> USE NilApart DEF LinkInv
<1>1. /\ n \notin owned /\ owned' = owned \cup {n} /\ head' = n /\ n # head
      /\ next' = [next EXCEPT ![n] = head]
      /\ prev' = [b \in Blocks |-> IF b = n THEN Nil
                                   ELSE IF b = head THEN n ELSE prev[b]]
  BY DEF Register, gd_link_add, ListShape
<1>2. LinkTypeOK'
  BY <1>1 DEF LinkTypeOK, Pointers
<1>3. /\ next'[n] = head /\ prev'[n] = Nil
      /\ \A b \in Blocks \ {n} : next'[b] = next[b]
      /\ \A b \in Blocks \ {n} : b # head => prev'[b] = prev[b]
      /\ head # Nil => prev'[head] = n
  BY <1>1 DEF LinkTypeOK, Pointers
<1>4. \A m \in owned : m \in Blocks /\ m # n /\ next[m] # n /\ prev[m] # n
                      /\ (next[m] # Nil => next[m] # head)
  BY <1>1 DEF ListShape, LinkTypeOK
<1>5. ListShape'
  <2>1. (head # Nil => head \in owned /\ prev[head] = Nil)'
    BY <1>1, <1>3
  <2>2. ASSUME NEW m \in owned' PROVE (next[m] # Nil => next[m] \in owned /\ prev[next[m]] = m)'
    <3>1. CASE m = n
      BY <1>1, <1>3, <3>1 DEF ListShape
    <3>2. CASE m # n
      <4>1. m \in owned /\ m \in Blocks /\ next'[m] = next[m]
        BY <1>1, <1>3, <1>4, <3>2
      <4>2. next[m] # Nil => next[m] \in owned /\ prev[next[m]] = m /\ next[m] # n /\ next[m] # head
        BY <1>4, <4>1 DEF ListShape
      <4>3. next[m] # Nil => prev'[next[m]] = prev[next[m]]
        BY <1>3, <4>2 DEF LinkTypeOK
      <4> QED BY <1>1, <4>1, <4>2, <4>3
    <3> QED BY <3>1, <3>2
  <2>3. ASSUME NEW m \in owned' PROVE (prev[m] # Nil => prev[m] \in owned /\ next[prev[m]] = m)'
    <3>1. CASE m = n
      BY <1>3, <3>1
    <3>2. CASE m # n /\ m = head
      <4>1. m # Nil
        BY <1>1, <1>4, <3>2
      <4> QED BY <1>1, <1>3, <3>2, <4>1
    <3>3. CASE m # n /\ m # head
      <4>1. m \in owned /\ m \in Blocks /\ prev'[m] = prev[m]
        BY <1>1, <1>3, <1>4, <3>3
      <4>2. prev[m] # Nil => prev[m] \in owned /\ next[prev[m]] = m /\ prev[m] # n
        BY <1>4, <4>1 DEF ListShape
      <4>3. prev[m] # Nil => next'[prev[m]] = next[prev[m]]
        BY <1>3, <4>2 DEF LinkTypeOK
      <4> QED BY <1>1, <4>1, <4>2, <4>3
    <3> QED BY <3>1, <3>2, <3>3
  <2>4. ASSUME NEW m \in owned', IsLinked(m)', prev'[m] = Nil PROVE head' = m
    <3>1. CASE m = n
      BY <1>1, <3>1
    <3>2. CASE m # n
      <4>1. m \in owned /\ m \in Blocks /\ next'[m] = next[m]
        BY <1>1, <1>3, <1>4, <3>2
      <4>2. m # head
        BY <1>1, <1>3, <2>4, <4>1
      <4>3. prev[m] = Nil /\ next[m] # Nil
        BY <1>1, <1>3, <2>4, <3>2, <4>1, <4>2 DEF IsLinked
      <4> QED BY <4>1, <4>2, <4>3 DEF ListShape, IsLinked
    <3> QED BY <3>1, <3>2
  <2> QED BY <2>1, <2>2, <2>3, <2>4 DEF ListShape
<1>6. n \notin Registered
  BY <1>1 DEF Registered
<1>7. IsLinked(n)'
  BY <1>1 DEF IsLinked
<1>8. ASSUME NEW m \in owned PROVE IsLinked(m)' <=> IsLinked(m)
  <2>1. m \in Blocks /\ m # n /\ next'[m] = next[m] /\ head' # m
    BY <1>1, <1>3, <1>4
  <2>2. CASE m = head
    BY <1>3, <2>1, <2>2 DEF IsLinked
  <2>3. CASE m # head
    BY <1>3, <2>1, <2>3 DEF IsLinked
  <2> QED BY <2>2, <2>3
<1>9. Registered' = Registered \cup {n}
  BY <1>1, <1>7, <1>8 DEF Registered
<1> QED BY <1>2, <1>5, <1>6, <1>9

\* The neighbours of a linked block, and what gd_link_remove does to them.
LEMMA RemoveEffect ==
  ASSUME LinkInv, NEW n \in Blocks, Unregister(n), IsLinked(n)
  PROVE  LinkInv' /\ Registered' = Registered \ {n}
<1> USE NilApart DEF LinkInv
<1>1. /\ n \in owned /\ owned' = owned
      /\ next' = [b \in Blocks |-> IF b = n THEN Nil
                                   ELSE IF b = prev[n] THEN next[n] ELSE next[b]]
      /\ prev' = [b \in Blocks |-> IF b = n THEN Nil
                                   ELSE IF b = next[n] THEN prev[n] ELSE prev[b]]
      /\ head' = IF prev[n] = Nil /\ head = n THEN next[n] ELSE head
  BY DEF Unregister, gd_link_remove
<1>2. LinkTypeOK'
  BY <1>1 DEF LinkTypeOK, Pointers
<1>3. /\ next[n] # Nil => next[n] \in owned /\ prev[next[n]] = n
      /\ prev[n] # Nil => prev[n] \in owned /\ next[prev[n]] = n
      /\ prev[n] = Nil <=> head = n
      /\ owned \subseteq Blocks
  BY <1>1 DEF ListShape, LinkTypeOK, IsLinked
<1>4. /\ next'[n] = Nil /\ prev'[n] = Nil
      /\ \A m \in owned \ {n} :
           /\ next'[m] = IF m = prev[n] THEN next[n] ELSE next[m]
           /\ prev'[m] = IF m = next[n] THEN prev[n] ELSE prev[m]
  BY <1>1, <1>3
<1>5. next[n] = n <=> prev[n] = n
  BY <1>3
<1>6. \A m \in owned \ {n} :
        /\ m # prev[n] => next[m] # n /\ (next[m] # Nil => next[m] # next[n])
        /\ m # next[n] => prev[m] # n /\ (prev[m] # Nil => prev[m] # prev[n])
        /\ m = prev[n] => next[m] = n
        /\ m = next[n] => prev[m] = n
  BY <1>1, <1>3 DEF ListShape
<1>7. \A m \in owned :
        /\ next[m] # Nil => next[m] \in owned /\ prev[next[m]] = m
        /\ prev[m] # Nil => prev[m] \in owned /\ next[prev[m]] = m
        /\ IsLinked(m) /\ prev[m] = Nil => head = m
  BY DEF ListShape
<1>8. head' # n /\ (head # n => head' = head) /\ (head = n => head' = next[n])
  BY <1>1, <1>3, <1>5
<1>9. (head # Nil => head \in owned /\ prev[head] = Nil)'
  <2>1. CASE head = n
    BY <1>1, <1>3, <1>4, <1>8, <2>1
  <2>2. CASE head # n
    <3>1. head # Nil => head \in owned \ {n} /\ prev[head] = Nil
      BY <2>2 DEF ListShape
    <3>2. head # Nil => head # next[n]
      BY <1>1, <1>3, <3>1
    <3> QED BY <1>1, <1>4, <1>8, <2>2, <3>1, <3>2
  <2> QED BY <2>1, <2>2
<1>10. ASSUME NEW m \in owned \ {n}
       PROVE  /\ next'[m] # Nil => next'[m] \in owned /\ prev'[next'[m]] = m
              /\ prev'[m] # Nil => prev'[m] \in owned /\ next'[prev'[m]] = m
  <2>1. ASSUME m = prev[n], next[n] # Nil
        PROVE  next'[m] \in owned /\ prev'[next'[m]] = m
    <3>1. next'[m] = next[n] /\ next[n] \in owned \ {n}
      BY <1>3, <1>4, <1>5, <1>10, <2>1
    <3> QED BY <1>4, <2>1, <3>1
  <2>2. ASSUME m # prev[n], next[m] # Nil
        PROVE  next'[m] \in owned /\ prev'[next'[m]] = m
    <3>1. next'[m] = next[m] /\ next[m] \in owned \ {n} /\ next[m] # next[n] /\ prev[next[m]] = m
      BY <1>4, <1>6, <1>7, <1>10, <2>2
    <3> QED BY <1>4, <3>1
  <2>3. ASSUME m = next[n], prev[n] # Nil
        PROVE  prev'[m] \in owned /\ next'[prev'[m]] = m
    <3>1. prev'[m] = prev[n] /\ prev[n] \in owned \ {n}
      BY <1>3, <1>4, <1>5, <1>10, <2>3
    <3> QED BY <1>4, <2>3, <3>1
  <2>4. ASSUME m # next[n], prev[m] # Nil
        PROVE  prev'[m] \in owned /\ next'[prev'[m]] = m
    <3>1. prev'[m] = prev[m] /\ prev[m] \in owned \ {n} /\ prev[m] # prev[n] /\ next[prev[m]] = m
      BY <1>4, <1>6, <1>7, <1>10, <2>4
    <3> QED BY <1>4, <3>1
  <2>5. /\ next'[m] = IF m = prev[n] THEN next[n] ELSE next[m]
        /\ prev'[m] = IF m = next[n] THEN prev[n] ELSE prev[m]
    BY <1>4, <1>10
  <2> QED BY <2>1, <2>2, <2>3, <2>4, <2>5
<1>11. ASSUME NEW m \in owned \ {n} PROVE IsLinked(m)' <=> IsLinked(m)
  <2>1. /\ next'[m] = IF m = prev[n] THEN next[n] ELSE next[m]
        /\ prev'[m] = IF m = next[n] THEN prev[n] ELSE prev[m]
    BY <1>4, <1>11
  <2>2. m # Nil /\ n # Nil
    BY <1>3, <1>11
  <2>3. IsLinked(m)' => IsLinked(m)
    BY <1>6, <1>8, <1>11, <2>1, <2>2 DEF IsLinked
  <2>4. head = m => head' = m
    BY <1>8, <1>11
  <2>5. CASE prev[m] # Nil
    BY <1>3, <1>8, <2>1, <2>2, <2>3, <2>5 DEF IsLinked
  <2>6. CASE prev[m] = Nil
    <3>1. IsLinked(m) => head = m
      BY <1>7, <1>11, <2>6
    <3> QED BY <2>3, <2>4, <3>1 DEF IsLinked
  <2> QED BY <2>5, <2>6
<1>12. ASSUME NEW m \in owned \ {n}, IsLinked(m)', prev'[m] = Nil PROVE head' = m
  <2>1. CASE m = next[n]
    <3>1. prev[n] = Nil
      BY <1>4, <1>12, <2>1
    <3> QED BY <1>3, <1>8, <2>1, <3>1
  <2>2. CASE m # next[n]
    <3>1. prev[m] = Nil
      BY <1>4, <1>12, <2>2
    <3>2. IsLinked(m)
      BY <1>11, <1>12
    <3> QED BY <1>7, <1>8, <1>12, <3>1, <3>2
  <2> QED BY <2>1, <2>2
<1>13. ~IsLinked(n)'
  BY <1>4, <1>8 DEF IsLinked
<1>14. ListShape'
  <2>1. ASSUME NEW m \in owned'
        PROVE  /\ next'[m] # Nil => next'[m] \in owned' /\ prev'[next'[m]] = m
               /\ prev'[m] # Nil => prev'[m] \in owned' /\ next'[prev'[m]] = m
               /\ IsLinked(m)' /\ prev'[m] = Nil => head' = m
    <3>1. CASE m = n
      BY <1>4, <1>13, <3>1
    <3>2. CASE m # n
      <4>1. m \in owned \ {n} /\ owned' = owned
        BY <1>1, <2>1, <3>2
      <4>2. /\ next'[m] # Nil => next'[m] \in owned /\ prev'[next'[m]] = m
            /\ prev'[m] # Nil => prev'[m] \in owned /\ next'[prev'[m]] = m
        BY <1>10, <4>1
      <4>3. IsLinked(m)' /\ prev'[m] = Nil => head' = m
        BY <1>12, <4>1
      <4> QED BY <4>1, <4>2, <4>3
    <3> QED BY <3>1, <3>2
  <2> QED BY <1>9, <2>1 DEF ListShape
<1>15. Registered' = Registered \ {n}
  BY <1>1, <1>11, <1>13 DEF Registered
<1> QED BY <1>2, <1>14, <1>15

\* free of an unlinked block, whatever it leaves in the fields.
LEMMA ReleaseEffect ==
  ASSUME LinkInv, NEW n \in Blocks, Release(n)
  PROVE  LinkInv' /\ Registered' = Registered
<1> USE NilApart DEF LinkInv
<1>1. /\ n \in owned /\ ~IsLinked(n) /\ owned' = owned \ {n} /\ head' = head
  BY DEF Release
<1>2. PICK p \in Garbage, q \in Garbage :
        next' = [next EXCEPT ![n] = p] /\ prev' = [prev EXCEPT ![n] = q]
  BY DEF Release
<1>3. LinkTypeOK'
  BY <1>1, <1>2, LinkAssumption DEF LinkTypeOK, Pointers
<1>4. \A m \in owned \ {n} :
        /\ next'[m] = next[m] /\ prev'[m] = prev[m] /\ next[m] # n /\ prev[m] # n
  BY <1>1, <1>2 DEF LinkTypeOK, ListShape, IsLinked
<1>5. \A m \in owned \ {n} : IsLinked(m)' <=> IsLinked(m)
  BY <1>1, <1>4 DEF IsLinked
<1>6. ListShape'
  <2>1. (head # Nil => head \in owned /\ prev[head] = Nil)'
    BY <1>1, <1>4 DEF ListShape, IsLinked
  <2>2. ASSUME NEW m \in owned \ {n}
        PROVE  /\ next'[m] # Nil => next'[m] \in owned \ {n} /\ prev'[next'[m]] = m
               /\ prev'[m] # Nil => prev'[m] \in owned \ {n} /\ next'[prev'[m]] = m
               /\ IsLinked(m)' /\ prev'[m] = Nil => head' = m
    BY <1>1, <1>4, <1>5, <2>2 DEF ListShape
  <2> QED BY <1>1, <2>1, <2>2 DEF ListShape
<1>7. Registered' = Registered
  BY <1>1, <1>5 DEF Registered
<1> QED BY <1>3, <1>6, <1>7

\* A step of the list is a step of the set it stands for, or none.
LEMMA LinkStep ==
  ASSUME LinkInv, [Next]_vars
  PROVE  LinkInv' /\ [Registry!Next]_Registered
<1>1. ASSUME NEW n \in Blocks, Register(n) PROVE LinkInv' /\ Registry!Register(n)
  BY <1>1, AddEffect DEF Registry!Register
<1>2. ASSUME NEW n \in Blocks, Unregister(n)
      PROVE  LinkInv' /\ (Registry!Unregister(n) \/ UNCHANGED Registered)
  <2>1. CASE IsLinked(n)
    BY <1>2, <2>1, RemoveEffect DEF Registry!Unregister
  <2>2. CASE ~IsLinked(n)
    <3>1. UNCHANGED vars
      BY <1>2, <2>2 DEF Unregister, gd_link_remove, vars
    <3> QED
      BY <3>1 DEF vars, LinkInv, LinkTypeOK, ListShape, Registered, IsLinked
  <2> QED BY <2>1, <2>2
<1>3. ASSUME NEW n \in Blocks, Release(n) PROVE LinkInv' /\ UNCHANGED Registered
  BY <1>3, ReleaseEffect
<1>4. CASE UNCHANGED vars
  BY <1>4 DEF vars, LinkInv, LinkTypeOK, ListShape, Registered, IsLinked
<1> QED BY <1>1, <1>2, <1>3, <1>4 DEF Next, Registry!Next

LEMMA LinkStart == Init => LinkInv /\ Registry!Init
  BY LinkAssumption, NilApart
  DEF Init, LinkInv, LinkTypeOK, ListShape, Registered, Registry!Init, Pointers

\* The list of gd_link_add and gd_link_remove is well formed at all times.
THEOREM ListShapeKept == Spec => []ListShape
<1>1. LinkInv => ListShape
  BY DEF LinkInv
<1> QED BY <1>1, LinkStart, LinkStep, PTL DEF Spec

\* Every variable of the list model keeps its type.
THEOREM LinkTypeCorrect == Spec => []LinkTypeOK
<1>1. LinkInv => LinkTypeOK
  BY DEF LinkInv
<1> QED BY <1>1, LinkStart, LinkStep, PTL DEF Spec

\* The doubly linked list implements the set the registry promises.
THEOREM LinkImplements == Spec => RegistryRefined
<1>1. Spec => []LinkInv
  BY LinkStart, LinkStep, PTL DEF Spec
<1> QED
  BY <1>1, LinkStart, LinkStep, PTL DEF Spec, RegistryRefined, Registry!Spec

-----------------------------------------------------------------------------
(***************************************************************************)
(* The walk of gd_reconnect                                                *)
(***************************************************************************)

\* A set of numbers that is not empty has a least one.
LEMMA NatMin ==
  ASSUME NEW T \in SUBSET Nat, T # {}
  PROVE \E m \in T : \A k \in T : m <= k
<1> DEFINE R == {ss \in Nat \X Nat : ss[1] < ss[2]}
<1>1. IsWellFoundedOn(R, Nat)
  BY NatLessThanWellFounded DEF OpToRel
<1> HIDE DEF R
<1>2. PICK m \in T : \A y \in T : ~ (<<y, m>> \in R)
  BY <1>1, WFMin
<1>3. \A y \in T : ~ (y < m)
  BY <1>2 DEF R
<1> QED BY <1>3

\* A block that is registered goes to the front of the walk.
LEMMA ChainAdd ==
  ASSUME LinkInv, NEW b \in Blocks, Register(b), NEW n \in Nat, NEW s \in [1 .. n -> Blocks],
         IsChain(s, n)
  PROVE  \E t \in [1 .. n + 1 -> Blocks] : IsChain(t, n + 1)'
<1> DEFINE t == [i \in 1 .. n + 1 |-> IF i = 1 THEN b ELSE s[i - 1]]
<1>1. LinkInv' /\ b \notin Registered /\ Registered' = Registered \cup {b}
  BY AddEffect
<1>2. head' = b /\ next' = [next EXCEPT ![b] = head] /\ next \in [Blocks -> Pointers]
  BY DEF Register, gd_link_add, LinkInv, LinkTypeOK
<1>3. t \in [1 .. n + 1 -> Blocks]
  OBVIOUS
<1>4. t[1] = b /\ \A i \in 1 .. n : t[i + 1] = s[i]
  OBVIOUS
<1>5. \A i \in 1 .. n + 1 : i = 1 \/ (i - 1 \in 1 .. n /\ t[i] = s[i - 1])
  OBVIOUS
<1>6. n + 1 # 0 /\ 1 \in 1 .. n + 1
  OBVIOUS
<1> HIDE DEF t
<1>7. \A i \in 1 .. n + 1 : t[i] \in Registered'
  BY <1>1, <1>4, <1>5 DEF IsChain
<1>8. \A x \in Registered' : \E i \in 1 .. n + 1 : t[i] = x
  <2>1. ASSUME NEW x \in Registered PROVE \E i \in 1 .. n + 1 : t[i] = x
    <3>1. PICK i \in 1 .. n : s[i] = x
      BY DEF IsChain
    <3>2. i + 1 \in 1 .. n + 1 /\ t[i + 1] = x
      BY <1>4, <3>1
    <3> QED BY <3>2
  <2> QED BY <1>1, <1>4, <1>6, <2>1
<1>9. \A i, j \in 1 .. n + 1 : t[i] = t[j] => i = j
  <2>1. ASSUME NEW i \in 1 .. n + 1, NEW j \in 1 .. n + 1, t[i] = t[j], i # j PROVE FALSE
    <3>1. CASE i = 1
      BY <1>1, <1>4, <1>5, <2>1, <3>1 DEF IsChain
    <3>2. CASE j = 1
      BY <1>1, <1>4, <1>5, <2>1, <3>2 DEF IsChain
    <3>3. CASE i # 1 /\ j # 1
      <4>1. i - 1 \in 1 .. n /\ j - 1 \in 1 .. n /\ s[i - 1] = s[j - 1]
        BY <1>5, <2>1, <3>3
      <4> QED BY <2>1, <4>1 DEF IsChain
    <3> QED BY <3>1, <3>2, <3>3
  <2> QED BY <2>1
<1>10. \A i \in 1 .. n + 1 : next'[t[i]] = IF i = n + 1 THEN Nil ELSE t[i + 1]
  <2>1. next'[b] = head /\ \A x \in Blocks \ {b} : next'[x] = next[x]
    BY <1>2
  <2>2. next'[t[1]] = IF 1 = n + 1 THEN Nil ELSE t[1 + 1]
    <3>1. CASE n = 0
      BY <1>4, <2>1, <3>1 DEF IsChain
    <3>2. CASE n # 0
      <4>1. 1 \in 1 .. n /\ head = s[1] /\ 1 # n + 1
        BY <3>2 DEF IsChain
      <4> QED BY <1>4, <2>1, <4>1
    <3> QED BY <3>1, <3>2
  <2>3. ASSUME NEW i \in 1 .. n PROVE next'[t[i + 1]] = IF i + 1 = n + 1 THEN Nil ELSE t[i + 1 + 1]
    <3>1. s[i] \in Registered /\ s[i] \in Blocks /\ s[i] # b
      BY <1>1 DEF IsChain
    <3>2. next'[t[i + 1]] = next[s[i]]
      BY <1>4, <2>1, <3>1
    <3>3. next[s[i]] = IF i = n THEN Nil ELSE s[i + 1]
      BY DEF IsChain
    <3>4. i # n => i + 1 \in 1 .. n /\ t[(i + 1) + 1] = s[i + 1]
      BY <1>4
    <3> QED BY <3>2, <3>3, <3>4
  <2>4. ASSUME NEW i \in 1 .. n + 1, i # 1
        PROVE  next'[t[i]] = IF i = n + 1 THEN Nil ELSE t[i + 1]
    <3>1. i - 1 \in 1 .. n /\ (i - 1) + 1 = i
      BY <2>4
    <3> QED BY <2>3, <3>1
  <2> QED BY <2>2, <2>4
<1>11. IsChain(t, n + 1)'
  BY <1>2, <1>4, <1>6, <1>7, <1>8, <1>9, <1>10 DEF IsChain
<1> QED BY <1>3, <1>11

\* A block that is unregistered leaves the walk; the others keep their order.
LEMMA ChainRemove ==
  ASSUME LinkInv, NEW b \in Blocks, Unregister(b), IsLinked(b),
         NEW n \in Nat, NEW s \in [1 .. n -> Blocks], IsChain(s, n)
  PROVE  n # 0 /\ \E t \in [1 .. n - 1 -> Blocks] : IsChain(t, n - 1)'
<1>1. /\ b \in owned /\ b \in Registered /\ Registered' = Registered \ {b}
      /\ Registered \subseteq owned /\ owned \subseteq Blocks
  BY RemoveEffect DEF Unregister, Registered, LinkInv, LinkTypeOK
<1>2. PICK p \in 1 .. n : s[p] = b
  BY <1>1 DEF IsChain
<1>3. /\ \A i \in 1 .. n : s[i] \in Registered
      /\ \A x \in Registered : \E i \in 1 .. n : s[i] = x
      /\ \A i, j \in 1 .. n : s[i] = s[j] => i = j
      /\ head = IF n = 0 THEN Nil ELSE s[1]
      /\ \A i \in 1 .. n : next[s[i]] = IF i = n THEN Nil ELSE s[i + 1]
  BY DEF IsChain
<1>4. n # 0 /\ p \in Nat /\ 1 <= p /\ p <= n /\ n - 1 \in Nat
  OBVIOUS
<1> DEFINE t == [i \in 1 .. n - 1 |-> IF i < p THEN s[i] ELSE s[i + 1]]
<1>5. t \in [1 .. n - 1 -> Blocks]
  <2>1. \A i \in 1 .. n - 1 : i \in 1 .. n /\ i + 1 \in 1 .. n
    BY <1>4
  <2> QED BY <2>1
<1>6. \A i \in 1 .. n - 1 : t[i] = IF i < p THEN s[i] ELSE s[i + 1]
  OBVIOUS
<1> HIDE DEF t
\* Where a block of the walk is found in the walk without b.
<1>7. \A i \in 1 .. n : i # p => /\ i < p => i \in 1 .. n - 1 /\ t[i] = s[i]
                                 /\ i > p => i - 1 \in 1 .. n - 1 /\ t[i - 1] = s[i]
  <2>1. ASSUME NEW i \in 1 .. n, i < p PROVE i \in 1 .. n - 1 /\ t[i] = s[i]
    BY <1>4, <1>6, <2>1
  <2>2. ASSUME NEW i \in 1 .. n, i > p PROVE i - 1 \in 1 .. n - 1 /\ t[i - 1] = s[i]
    <3>1. i - 1 \in 1 .. n - 1 /\ ~(i - 1 < p) /\ (i - 1) + 1 = i
      BY <1>4, <2>2
    <3> QED BY <1>6, <3>1
  <2> QED BY <2>1, <2>2
<1>8. \A i \in 1 .. n - 1 : \E k \in 1 .. n : /\ k # p /\ t[i] = s[k]
                                              /\ k = IF i < p THEN i ELSE i + 1
  BY <1>4, <1>6
<1>9. \A i \in 1 .. n - 1 : t[i] \in Registered'
  BY <1>1, <1>2, <1>3, <1>8
<1>10. \A x \in Registered' : \E i \in 1 .. n - 1 : t[i] = x
  <2> TAKE x \in Registered'
  <2>1. PICK i \in 1 .. n : s[i] = x
    BY <1>1, <1>3
  <2>2. i # p
    BY <1>1, <1>2, <2>1
  <2>3. i < p \/ i > p
    BY <2>2
  <2> QED BY <1>7, <2>1, <2>2, <2>3
<1>11. \A i, j \in 1 .. n - 1 : t[i] = t[j] => i = j
  <2>1. ASSUME NEW i \in 1 .. n - 1, NEW j \in 1 .. n - 1, t[i] = t[j] PROVE i = j
    <3>1. PICK k \in 1 .. n : t[i] = s[k] /\ k = IF i < p THEN i ELSE i + 1
      BY <1>8
    <3>2. PICK m \in 1 .. n : t[j] = s[m] /\ m = IF j < p THEN j ELSE j + 1
      BY <1>8
    <3>3. k = m
      <4>1. s[k] = s[m]
        BY <2>1, <3>1, <3>2
      <4> QED BY <1>3, <4>1
    <3>4. i \in Nat /\ j \in Nat /\ p \in Nat
      BY <1>4
    <3>5. (IF i < p THEN i ELSE i + 1) = IF j < p THEN j ELSE j + 1
      BY <3>1, <3>2, <3>3
    <3> QED BY <3>4, <3>5
  <2> QED BY <2>1
<1>12. /\ prev[b] # Nil => prev[b] \in owned /\ next[prev[b]] = b
       /\ prev[b] = Nil => head = b
       /\ \A x \in owned : next[x] # Nil => prev[next[x]] = x
       /\ head # Nil => prev[head] = Nil
       /\ Nil \notin Blocks
  BY <1>1, NilApart DEF LinkInv, ListShape
<1>13. /\ next' = [x \in Blocks |-> IF x = b THEN Nil
                                    ELSE IF x = prev[b] THEN next[b] ELSE next[x]]
       /\ head' = IF prev[b] = Nil /\ head = b THEN next[b] ELSE head
  BY DEF Unregister, gd_link_remove
<1>14. /\ p = 1 => head = b /\ prev[b] = Nil
       /\ p # 1 => p - 1 \in 1 .. n /\ prev[b] = s[p - 1]
  <2>1. CASE p = 1
    BY <1>1, <1>2, <1>3, <1>4, <1>12, <2>1
  <2>2. CASE p # 1
    <3>1. p - 1 \in 1 .. n /\ p - 1 # n /\ (p - 1) + 1 = p
      BY <1>4, <2>2
    <3>2. next[s[p - 1]] = b /\ s[p - 1] \in owned
      BY <1>1, <1>2, <1>3, <3>1
    <3>3. b # Nil
      BY <1>12
    <3> QED BY <1>12, <2>2, <3>1, <3>2, <3>3
  <2> QED BY <2>1, <2>2
<1>15. next[b] = IF p = n THEN Nil ELSE s[p + 1]
  BY <1>2, <1>3
<1>16. head' = IF n - 1 = 0 THEN Nil ELSE t[1]
  <2>1. CASE p = 1
    <3>1. head' = IF n = 1 THEN Nil ELSE s[1 + 1]
      BY <1>13, <1>14, <1>15, <2>1
    <3>2. n # 1 => t[1] = s[1 + 1]
      <4>1. n # 1 => 1 \in 1 .. n - 1 /\ ~(1 < p)
        BY <1>4, <2>1
      <4> QED BY <1>6, <4>1
    <3>3. n = 1 <=> n - 1 = 0
      BY <1>4
    <3> QED BY <3>1, <3>2, <3>3
  <2>2. CASE p # 1
    <3>1. 1 \in 1 .. n - 1 /\ 1 < p /\ n - 1 # 0
      BY <1>4, <2>2
    <3>2. s[p - 1] # Nil
      BY <1>12, <1>14, <2>2
    <3>3. head' = head
      BY <1>13, <1>14, <2>2, <3>2
    <3> QED BY <1>3, <1>4, <1>6, <3>1, <3>3
  <2> QED BY <2>1, <2>2
<1>17. \A i \in 1 .. n - 1 : next'[t[i]] = IF i = n - 1 THEN Nil ELSE t[i + 1]
  <2> TAKE i \in 1 .. n - 1
  <2>0. i \in Nat /\ 1 <= i /\ i <= n - 1 /\ i + 1 \in 1 .. n /\ i \in 1 .. n
    BY <1>4
  <2>1. t[i] \in Blocks /\ t[i] # b
    BY <1>1, <1>9
  <2>2. next'[t[i]] = IF t[i] = prev[b] THEN next[b] ELSE next[t[i]]
    BY <1>13, <2>1
  <2>3. CASE i < p - 1
    <3>1. t[i] = s[i] /\ i # p - 1 /\ i # n /\ i # n - 1 /\ p # 1
      BY <1>4, <1>6, <2>0, <2>3
    <3>2. s[i] # s[p - 1]
      BY <1>3, <1>14, <2>0, <3>1
    <3>3. next'[t[i]] = s[i + 1]
      BY <1>3, <1>14, <2>0, <2>2, <3>1, <3>2
    <3>4. i + 1 \in 1 .. n - 1 /\ i + 1 < p
      BY <1>4, <2>0, <2>3
    <3>5. t[i + 1] = s[i + 1]
      BY <1>6, <3>4
    <3> QED BY <3>1, <3>3, <3>5
  <2>4. CASE i = p - 1
    <3>1. t[i] = s[p - 1] /\ p # 1
      BY <1>4, <1>6, <2>0, <2>4
    <3>2. next'[t[i]] = IF p = n THEN Nil ELSE s[p + 1]
      BY <1>14, <1>15, <2>2, <3>1
    <3>3. i + 1 = p /\ (p = n <=> i = n - 1)
      BY <1>4, <2>4
    <3>4. p # n => p \in 1 .. n - 1 /\ ~(p < p)
      BY <1>4
    <3>5. p # n => t[p] = s[p + 1]
      BY <1>6, <3>4
    <3> QED BY <3>2, <3>3, <3>5
  <2>5. CASE i >= p
    <3>1. t[i] = s[i + 1] /\ i + 1 # p - 1
      BY <1>4, <1>6, <2>0, <2>5
    <3>2. t[i] # prev[b]
      <4>1. CASE p = 1
        BY <1>12, <1>14, <2>1, <4>1
      <4>2. CASE p # 1
        <5>1. s[i + 1] # s[p - 1]
          BY <1>3, <1>14, <2>0, <3>1, <4>2
        <5> QED BY <1>14, <3>1, <4>2, <5>1
      <4> QED BY <4>1, <4>2
    <3>3. next'[t[i]] = IF i + 1 = n THEN Nil ELSE s[(i + 1) + 1]
      BY <1>3, <2>0, <2>2, <3>1, <3>2
    <3>4. (i + 1 = n <=> i = n - 1) /\ (i # n - 1 => i + 1 \in 1 .. n - 1 /\ ~(i + 1 < p))
      BY <1>4, <2>0, <2>5
    <3>5. i # n - 1 => t[i + 1] = s[(i + 1) + 1]
      BY <1>6, <3>4
    <3> QED BY <3>3, <3>4, <3>5
  <2>6. i < p - 1 \/ i = p - 1 \/ i >= p
    BY <1>4, <2>0
  <2> QED BY <2>3, <2>4, <2>5, <2>6
<1>18. IsChain(t, n - 1)'
  BY <1>9, <1>10, <1>11, <1>16, <1>17 DEF IsChain
<1> QED BY <1>4, <1>5, <1>18

\* A block that is freed was not in the walk.
LEMMA ChainRelease ==
  ASSUME LinkInv, NEW b \in Blocks, Release(b), NEW n \in Nat, NEW s \in [1 .. n -> Blocks],
         IsChain(s, n)
  PROVE  IsChain(s, n)'
<1>1. Registered' = Registered
  BY ReleaseEffect
<1>2. head' = head /\ \A x \in Blocks \ {b} : next'[x] = next[x]
  BY DEF Release, LinkInv, LinkTypeOK
<1>3. b \notin Registered
  BY DEF Release, Registered
<1>4. \A i \in 1 .. n : next'[s[i]] = next[s[i]]
  BY <1>2, <1>3 DEF IsChain
<1> QED BY <1>1, <1>2, <1>4 DEF IsChain

\* A list of a set of blocks, each once, is as long as the set, and no longer than memory.
LEMMA ListLength ==
  ASSUME NEW R \in SUBSET Blocks, NEW n \in Nat, NEW s \in [1 .. n -> Blocks],
         \A i \in 1 .. n : s[i] \in R,
         \A x \in R : \E i \in 1 .. n : s[i] = x,
         \A i, j \in 1 .. n : s[i] = s[j] => i = j
  PROVE  /\ n = Cardinality(R) /\ n \in 0 .. Cardinality(Blocks)
         /\ Cardinality(Blocks) \in Nat
<1>1. /\ IsFiniteSet(R) /\ Cardinality(R) <= Cardinality(Blocks)
      /\ Cardinality(Blocks) \in Nat
  BY LinkAssumption, FS_Subset, FS_CardinalityType
<1>2. IsFiniteSet(1 .. n) /\ Cardinality(1 .. n) = n
  <2>1. Cardinality(1 .. n) = IF 1 > n THEN 0 ELSE n - 1 + 1
    BY FS_Interval
  <2>2. (IF 1 > n THEN 0 ELSE n - 1 + 1) = n
    OBVIOUS
  <2> QED BY <2>1, <2>2, FS_Interval
<1>3. s \in Bijection(1 .. n, R)
  <2>1. s \in [1 .. n -> R]
    OBVIOUS
  <2> QED BY <2>1, Fun_IsBij
<1>4. ExistsBijection(1 .. n, R)
  BY <1>3 DEF ExistsBijection
<1>5. Cardinality(R) = n
  BY <1>2, <1>4, FS_Bijection
<1> QED BY <1>1, <1>5

LEMMA ChainStart == Init => ListChain
<1> SUFFICES ASSUME Init PROVE ListChain
  OBVIOUS
<1>1. head = Nil /\ Registered = {}
  BY DEF Init, Registered
<1>2. Cardinality(Blocks) \in Nat /\ 0 \in 0 .. Cardinality(Blocks)
  BY LinkAssumption, FS_CardinalityType
<1> DEFINE s == [i \in 1 .. 0 |-> CHOOSE b \in Blocks : TRUE]
<1>3. 1 .. 0 = {}
  OBVIOUS
<1>4. s \in [1 .. 0 -> Blocks]
  BY <1>3
<1> HIDE DEF s
<1>5. IsChain(s, 0)
  BY <1>1, <1>3 DEF IsChain
<1> QED BY <1>2, <1>4, <1>5 DEF ListChain

\* Every step leaves a chain of the blocks then registered.
LEMMA ChainStep ==
  ASSUME LinkInv, ListChain, [Next]_vars
  PROVE  ListChain'
<1>1. PICK n \in 0 .. Cardinality(Blocks) : \E s \in [1 .. n -> Blocks] : IsChain(s, n)
  BY DEF ListChain
<1>2. PICK s \in [1 .. n -> Blocks] : IsChain(s, n)
  BY <1>1
<1>3. n \in Nat
  BY LinkAssumption, FS_CardinalityType
<1>4. \E m \in Nat : \E t \in [1 .. m -> Blocks] : IsChain(t, m)'
  <2>1. ASSUME NEW b \in Blocks, Register(b)
        PROVE  \E m \in Nat : \E t \in [1 .. m -> Blocks] : IsChain(t, m)'
    <3>1. n + 1 \in Nat
      BY <1>3
    <3> QED BY <1>2, <1>3, <2>1, <3>1, ChainAdd
  <2>2. ASSUME NEW b \in Blocks, Unregister(b)
        PROVE  \E m \in Nat : \E t \in [1 .. m -> Blocks] : IsChain(t, m)'
    <3>1. CASE IsLinked(b)
      <4>1. n # 0 /\ \E t \in [1 .. n - 1 -> Blocks] : IsChain(t, n - 1)'
        BY <1>2, <1>3, <2>2, <3>1, ChainRemove
      <4>2. n - 1 \in Nat
        BY <1>3, <4>1
      <4> QED BY <4>1, <4>2
    <3>2. CASE ~IsLinked(b)
      <4>1. UNCHANGED vars
        BY <2>2, <3>2 DEF Unregister, gd_link_remove, vars
      <4>2. IsChain(s, n)'
        BY <1>2, <4>1 DEF vars, IsChain, Registered, IsLinked
      <4> QED BY <1>3, <4>2
    <3> QED BY <3>1, <3>2
  <2>3. ASSUME NEW b \in Blocks, Release(b)
        PROVE  \E m \in Nat : \E t \in [1 .. m -> Blocks] : IsChain(t, m)'
    BY <1>2, <1>3, <2>3, ChainRelease
  <2>4. CASE UNCHANGED vars
    <3>1. IsChain(s, n)'
      BY <1>2, <2>4 DEF vars, IsChain, Registered, IsLinked
    <3> QED BY <1>3, <3>1
  <2> QED BY <2>1, <2>2, <2>3, <2>4 DEF Next
<1>5. PICK m \in Nat : \E t \in [1 .. m -> Blocks] : IsChain(t, m)'
  BY <1>4
<1>6. PICK t \in [1 .. m -> Blocks] : IsChain(t, m)'
  BY <1>5
<1>7. Registered' \in SUBSET Blocks
  BY LinkStep DEF LinkInv, LinkTypeOK, Registered
<1>8. m \in 0 .. Cardinality(Blocks)
  <2> DEFINE R == Registered'
  <2>1. /\ \A i \in 1 .. m : t[i] \in R
        /\ \A x \in R : \E i \in 1 .. m : t[i] = x
        /\ \A i, j \in 1 .. m : t[i] = t[j] => i = j
    BY <1>6 DEF IsChain
  <2>2. R \in SUBSET Blocks
    BY <1>7
  <2> HIDE DEF R
  <2>3. /\ m = Cardinality(R) /\ m \in 0 .. Cardinality(Blocks)
        /\ Cardinality(Blocks) \in Nat
    BY <1>5, <1>6, <2>1, <2>2, ListLength
  <2> QED BY <2>3
<1> QED BY <1>6, <1>8 DEF ListChain

\* The steps of the walk are the blocks of the chain, in order, and then Nil.
LEMMA WalkFollows ==
  ASSUME LinkInv, NEW n \in 0 .. Cardinality(Blocks), NEW s \in [1 .. n -> Blocks],
         IsChain(s, n)
  PROVE  \A k \in 0 .. Cardinality(Blocks) : Step[k] = IF k < n THEN s[k + 1] ELSE Nil
<1> DEFINE D == 0 .. Cardinality(Blocks)
           After(f) == [k \in D |-> IF k = 0 THEN head
                                    ELSE IF f[k - 1] = Nil THEN Nil ELSE next[f[k - 1]]]
           f == [k \in D |-> IF k < n THEN s[k + 1] ELSE Nil]
<1>1. Cardinality(Blocks) \in Nat /\ n \in Nat /\ n <= Cardinality(Blocks)
  BY LinkAssumption, FS_CardinalityType
<1>2. Step = CHOOSE at : at = After(at)
  BY DEF Step
<1>3. f = After(f)
  <2>1. ASSUME NEW k \in D
        PROVE  f[k] = IF k = 0 THEN head
                      ELSE IF f[k - 1] = Nil THEN Nil ELSE next[f[k - 1]]
    <3>1. CASE k = 0
      BY <1>1, <3>1 DEF IsChain
    <3>2. CASE k # 0 /\ k <= n
      <4>1. k - 1 \in D /\ k - 1 < n /\ k \in 1 .. n /\ (k - 1) + 1 = k /\ (k < n <=> k # n)
        BY <1>1, <3>2
      <4>2. f[k - 1] = s[k] /\ s[k] # Nil
        BY <4>1, NilApart
      <4>3. next[s[k]] = IF k = n THEN Nil ELSE s[k + 1]
        BY <4>1 DEF IsChain
      <4> QED BY <3>2, <4>1, <4>2, <4>3
    <3>3. CASE k # 0 /\ ~(k <= n)
      <4>1. k - 1 \in D /\ ~(k - 1 < n) /\ ~(k < n)
        BY <1>1, <3>3
      <4> QED BY <3>3, <4>1
    <3> QED BY <3>1, <3>2, <3>3
  <2> QED BY <2>1
<1>4. Step = After(Step)
  <2> HIDE DEF f, After
  <2> QED BY <1>2, <1>3
<1>5. \A k \in D : Step[k] = IF k = 0 THEN head
                             ELSE IF Step[k - 1] = Nil THEN Nil ELSE next[Step[k - 1]]
  BY <1>4, Zenon
<1>6. \A k \in D : f[k] = IF k = 0 THEN head
                          ELSE IF f[k - 1] = Nil THEN Nil ELSE next[f[k - 1]]
  BY <1>3, Zenon
<1>7. \A k \in D : f[k] = IF k < n THEN s[k + 1] ELSE Nil
  OBVIOUS
<1> HIDE DEF f
<1>8. \A k \in D : Step[k] = f[k]
  <2> DEFINE T == {k \in D : Step[k] # f[k]}
  <2> SUFFICES ASSUME T # {} PROVE FALSE
    OBVIOUS
  <2>1. T \in SUBSET Nat
    BY <1>1
  <2>2. PICK m \in T : \A k \in T : m <= k
    BY <2>1, NatMin
  <2>3. m \in D /\ Step[m] # f[m]
    OBVIOUS
  <2>4. m # 0
    BY <1>5, <1>6, <2>3
  <2>5. m - 1 \in D /\ ~(m <= m - 1)
    BY <1>1, <2>3, <2>4
  <2>6. Step[m - 1] = f[m - 1]
    BY <2>2, <2>5
  <2> QED BY <1>5, <1>6, <2>3, <2>4, <2>6
<1> QED BY <1>7, <1>8

LEMMA ChainWalk == LinkInv /\ ListChain => WalkExact
<1> SUFFICES ASSUME LinkInv, ListChain PROVE WalkExact
  OBVIOUS
<1>1. PICK n \in 0 .. Cardinality(Blocks) : \E s \in [1 .. n -> Blocks] : IsChain(s, n)
  BY DEF ListChain
<1>2. PICK s \in [1 .. n -> Blocks] : IsChain(s, n)
  BY <1>1
<1>3. Cardinality(Blocks) \in Nat /\ n \in Nat /\ n <= Cardinality(Blocks)
  BY LinkAssumption, FS_CardinalityType
<1>4. /\ \A i \in 1 .. n : s[i] \in Registered
      /\ \A x \in Registered : \E i \in 1 .. n : s[i] = x
      /\ \A i, j \in 1 .. n : s[i] = s[j] => i = j
  BY <1>2 DEF IsChain
<1>5. Cardinality(Registered) = n
  <2>1. Registered \in SUBSET Blocks
    BY DEF Registered, LinkInv, LinkTypeOK
  <2> QED BY <1>3, <1>4, <2>1, ListLength
<1>6. \A k \in 0 .. Cardinality(Blocks) : Step[k] = IF k < n THEN s[k + 1] ELSE Nil
  BY <1>2, WalkFollows
<1>7. Step[n] = Nil
  BY <1>3, <1>6
<1>8. \A k \in 0 .. n - 1 : k + 1 \in 1 .. n /\ Step[k] = s[k + 1]
  BY <1>3, <1>6
<1>9. {Step[k] : k \in 0 .. n - 1} = Registered
  <2>1. ASSUME NEW x \in Registered PROVE \E k \in 0 .. n - 1 : Step[k] = x
    <3>1. PICK i \in 1 .. n : s[i] = x
      BY <1>4
    <3>2. i - 1 \in 0 .. n - 1 /\ (i - 1) + 1 = i
      BY <1>3
    <3> QED BY <1>8, <3>1, <3>2
  <2>2. ASSUME NEW k \in 0 .. n - 1 PROVE Step[k] \in Registered
    BY <1>4, <1>8
  <2> HIDE DEF Step
  <2> QED BY <2>1, <2>2
<1> QED BY <1>5, <1>7, <1>9 DEF WalkExact

\* gd_reconnect's walk of c->handles meets every registered block once, and ends.
THEOREM WalkIsExact == Spec => []WalkExact
<1>1. Init => LinkInv /\ ListChain
  BY LinkStart, ChainStart
<1>2. LinkInv /\ ListChain /\ [Next]_vars => (LinkInv /\ ListChain)'
  BY LinkStep, ChainStep
<1> QED BY <1>1, <1>2, ChainWalk, PTL DEF Spec
=============================================================================
