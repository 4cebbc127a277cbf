---------------------------- MODULE GdSessionProofs ----------------------------
(***************************************************************************)
(* Proofs that the safety properties of GdSession hold for any number of   *)
(* connections, addresses and attempts.  The inductive invariant IInv has  *)
(* five parts besides the types:                                           *)
(*                                                                         *)
(*   PhaseInv   whose turn it is while main fills, uses, empties the pool  *)
(*   ShapeInv   what a connection and the build working on it hold         *)
(*   Ledger     what is allocated is what is held                          *)
(*   PinInv     the key types known_hosts had at first are kept in it, and *)
(*              in what a thread read that is about to write it            *)
(*   PinnedKey  sessions in use have recorded keys of these types          *)
(*                                                                         *)
(* The sleeps of gd_reconnect are bounded by recursive functions.  What    *)
(* these compute is shown by induction, which the least number principle   *)
(* of the library gives for sets of numbers (NatMin, Induction, Recursion).*)
(***************************************************************************)
EXTENDS GdSession, WellFoundedInduction, TLAPS

\* Connections gd_pool_init is asked for.
Count == Clamp(Requested, PoolMin, PoolMax)

\* Where gd_init_ssh works on variables of its own.
Building == Stages \cup {"publish", "undo"}
Points   == Building \cup {"none", "up", "down", "teardown", "free"}

TypeInv ==
  /\ phase \in {"init", "run", "stop", "exit"} /\ size \in 0 .. Count
  /\ pc \in [Conns -> Points]
  /\ job \in [Conns -> {"init", "reconnect", "free"}]
  /\ own \in [Conns -> [Kinds -> Nat]] /\ tmp \in [Conns -> [Kinds -> Nat]]
  /\ serial \in [Conns -> Nat \ {0}]
  /\ live \subseteq Conns \X Kinds \X Nat
  /\ tries \in [Conns -> Nat]
  /\ attempt \in [Conns -> 0 .. ReconnectMax - 1] /\ slept \in [Conns -> Nat]
  /\ rebuilds \in [Conns -> Nat]
  /\ srvKey \in Keys /\ rekeys \in Nat
  /\ known \in SUBSET Keys /\ saves \in BOOLEAN
  /\ key \in [Conns -> Keys \cup {NoKey}] /\ nh \in [Conns -> SUBSET Keys]
  /\ pinned \in SUBSET Keys /\ skipped \in BOOLEAN

\* Who works when: one connection after the other while the pool is filled and
\* while it is emptied, any of them between.
PhaseInv ==
  /\ phase = "init" =>
       /\ size + 1 \in Conns /\ pc[size + 1] \in Building
       /\ \A c \in Conns : job[c] = "init" /\ (c <= size => pc[c] = "up")
                           /\ (c > size + 1 => pc[c] = "none")
  /\ phase = "run" =>
       /\ size > 0
       /\ \A c \in Conns :
            /\ c <= size => \/ pc[c] \in {"up", "down"}
                            \/ pc[c] \in Building \cup {"teardown"} /\ job[c] = "reconnect"
            /\ c > size => pc[c] = "none"
  /\ phase = "stop" =>
       \E f \in 1 .. size :
         /\ pc[f] = "free"
         /\ \A c \in Conns : /\ c < f \/ c > size => pc[c] = "none"
                             /\ c > f /\ c <= size => pc[c] \in {"up", "down"}
  /\ phase = "exit" => \A c \in Conns : pc[c] = "none"

\* What gd_init_ssh holds at each of its stages, all of it from this build.
Partial(c) ==
  /\ tmp[c]["ssh"] = IF pc[c] = "session" THEN 0 ELSE serial[c]
  /\ tmp[c]["sock"] = IF pc[c] \in {"session", "tcp"} THEN 0 ELSE serial[c]
  /\ tmp[c]["sftp"] = IF pc[c] \in {"channel", "shell", "block", "publish"}
                      THEN serial[c] ELSE 0
  /\ tmp[c]["channel"] = IF pc[c] \in {"shell", "block", "publish"} THEN serial[c] ELSE 0
  /\ tmp[c]["block"] = IF pc[c] = "publish" THEN serial[c] ELSE 0

\* What a connection of the pool holds, and what the build that works on it.
Shape(c) ==
  /\ pc[c] \in Building \ {"undo"} => Partial(c)
  /\ pc[c] = "undo" => tmp[c]["block"] = 0 /\ \A k \in Kinds : tmp[c][k] \in {0, serial[c]}
  /\ pc[c] \notin Building => \A k \in Kinds : tmp[c][k] = 0
  /\ pc[c] = "none" => \A k \in Kinds : own[c][k] = 0
  /\ pc[c] \in Building \cup {"down"} => \A k \in Kinds \ {"block"} : own[c][k] = 0
  /\ pc[c] \in Building => /\ job[c] = "init" => own[c]["block"] = 0
                           /\ job[c] = "reconnect" => own[c]["block"] \in 1 .. serial[c] - 1
                           /\ job[c] # "free"
  /\ pc[c] \in {"up", "down", "teardown"} => own[c]["block"] \in 1 .. serial[c]
  /\ pc[c] = "up" => \A k \in Kinds \ {"block"} : own[c][k] = serial[c]
  /\ pc[c] \in {"teardown", "free"} => \A k \in Kinds : own[c][k] \in 0 .. serial[c]
  /\ pc[c] = "teardown" => job[c] = "reconnect"

ShapeInv == \A c \in Conns : Shape(c)

\* Of the types that the keys p have there is no other key among the keys s.
TypesKept(s, p) == \A k \in s : k \in p \/ OfType(k) \cap p = {}

\* What connection c would write to known_hosts has all that is pinned, and no
\* other key of its own key's type.
Writes(c) ==
  /\ pinned \subseteq nh[c] /\ TypesKept(nh[c], pinned)
  /\ OfType(key[c]) \cap nh[c] = {}

\* Before the pool has a session only one thread works, and its key is of a
\* type that known_hosts has no entry for, or is in it.
Alone ==
  \A c \in Conns :
    /\ pc[c] = "pin" => nh[c] = known
    /\ pc[c] \in Checked => key[c] \in known \/ OfType(key[c]) \cap known = {}

PinInv ==
  /\ \A c \in Conns : pc[c] \in {"hostkey", "pin"} \cup Checked => key[c] \in Keys
  /\ ~skipped => /\ TypesKept(known, pinned)
                 /\ \A c \in Conns : pc[c] = "pin" => Writes(c)
                 /\ phase = "init" /\ size = 0 => Alone

IInv == TypeInv /\ PhaseInv /\ ShapeInv /\ Ledger /\ PinInv /\ PinnedKey

\* A set of numbers that is not empty has a least one.
LEMMA NatMin ==
  ASSUME NEW T \in SUBSET Nat, T # {}
  PROVE \E m \in T : \A k \in T : m <= k
<1> DEFINE R == {ss \in Nat \X Nat : ss[1] < ss[2]}
<1>1. IsWellFoundedOn(R, Nat)
  BY NatLessThanWellFounded DEF OpToRel
<1> HIDE DEF R
<1>2. PICK m \in T : \A y \in T : ~ (<<y, m>> \in R)
  BY <1>1, WFMin
<1>3. \A y \in T : ~ (y < m)
  BY <1>2 DEF R
<1> QED BY <1>3

\* A remainder stays below its divisor.
LEMMA Remainder == ASSUME NEW r \in Nat, NEW n \in Nat PROVE r % (n + 1) \in 0 .. n
  OBVIOUS

\* A set of numbers with 0 and every successor has them all.
LEMMA Induction ==
  ASSUME NEW P \in SUBSET Nat, 0 \in P, \A k \in P : k + 1 \in P
  PROVE  P = Nat
<1> SUFFICES ASSUME Nat \ P # {} PROVE FALSE OBVIOUS
<1>1. PICK m \in Nat \ P : \A k \in Nat \ P : m <= k
  BY NatMin
<1>2. m - 1 \in Nat /\ m - 1 \in P
  BY <1>1
<1> QED BY <1>1, <1>2

\* f is defined by recursion on 0 .. n, from a with the step F.
Recurses(f, a, F, n) == f = [i \in 0 .. n |-> IF i = 0 THEN a ELSE F[<<i, f[i - 1]>>]]

\* A function defined by recursion on 0 .. n exists.
LEMMA Recursion ==
  ASSUME NEW a \in Nat, NEW F \in [Nat \X Nat -> Nat], NEW n \in Nat
  PROVE  \E f \in [0 .. n -> Nat] : Recurses(f, a, F, n)
<1> DEFINE P == {k \in Nat : \E f \in [0 .. k -> Nat] : Recurses(f, a, F, k)}
<1>1. 0 \in P
  <2>1. Recurses([i \in 0 .. 0 |-> a], a, F, 0) /\ [i \in 0 .. 0 |-> a] \in [0 .. 0 -> Nat]
    BY DEF Recurses
  <2> QED BY <2>1
<1>2. ASSUME NEW k \in Nat, k \in P PROVE k + 1 \in P
  <2>1. PICK f \in [0 .. k -> Nat] : Recurses(f, a, F, k)
    BY <1>2
  <2> DEFINE g == [i \in 0 .. k + 1 |-> IF i = k + 1 THEN F[<<k + 1, f[k]>>] ELSE f[i]]
  <2>2. F[<<k + 1, f[k]>>] \in Nat
    OBVIOUS
  <2>3. \A i \in 0 .. k + 1 : i # k + 1 => i \in 0 .. k
    OBVIOUS
  <2>4. g \in [0 .. k + 1 -> Nat]
    BY <2>2, <2>3
  <2>5. ASSUME NEW i \in 0 .. k + 1 PROVE g[i] = IF i = 0 THEN a ELSE F[<<i, g[i - 1]>>]
    <3>1. CASE i = k + 1
      <4>1. g[k] = f[k] /\ g[k + 1] = F[<<k + 1, f[k]>>] /\ k + 1 # 0
        OBVIOUS
      <4>2. i - 1 = k
        BY <3>1
      <4> HIDE DEF g
      <4> QED BY <3>1, <4>1, <4>2
    <3>2. CASE i # k + 1
      <4>1. g[i] = f[i] /\ i \in 0 .. k
        BY <2>3, <3>2
      <4>2. i # 0 => g[i - 1] = f[i - 1]
        BY <4>1
      <4> QED BY <4>1, <4>2, <2>1 DEF Recurses
    <3> QED BY <3>1, <3>2
  <2>6. Recurses(g, a, F, k + 1)
    <3> HIDE DEF g
    <3> QED BY <2>4, <2>5 DEF Recurses
  <2> HIDE DEF g
  <2> QED BY <2>4, <2>6
<1>3. P \in SUBSET Nat
  OBVIOUS
<1>4. n \in P
  <2> HIDE DEF P
  <2> QED BY <1>1, <1>2, <1>3, Induction
<1> QED BY <1>4

\* backoff_ms never exceeds the cap, nor the base doubled n times.
LEMMA BackoffBounded ==
  ASSUME NEW n \in Nat, NEW base \in Nat, NEW cap \in Nat, NEW rnd \in Nat,
         NEW d \in [0 .. n -> Nat], d[0] = base, \A i \in 1 .. n : d[i] = 2 * d[i - 1]
  PROVE  backoff_ms(n, base, cap, rnd) \in 0 .. cap /\ backoff_ms(n, base, cap, rnd) <= d[n]
<1> DEFINE F == [p \in Nat \X Nat |-> IF 2 * p[2] >= cap THEN cap ELSE 2 * p[2]]
           ceil[i \in 0 .. n] ==
             IF i = 0 THEN base ELSE IF 2 * ceil[i - 1] >= cap THEN cap ELSE 2 * ceil[i - 1]
<1>1. F \in [Nat \X Nat -> Nat]
  OBVIOUS
<1>2. \A i \in Nat, x \in Nat : F[<<i, x>>] = IF 2 * x >= cap THEN cap ELSE 2 * x
  OBVIOUS
<1>3. PICK f \in [0 .. n -> Nat] : Recurses(f, base, F, n)
  <2> HIDE DEF F
  <2> QED BY <1>1, Recursion
<1>4. f = [i \in 0 .. n |->
             IF i = 0 THEN base ELSE IF 2 * f[i - 1] >= cap THEN cap ELSE 2 * f[i - 1]]
  <2>1. \A i \in 0 .. n : i # 0 => f[i - 1] \in Nat /\ i \in Nat
    OBVIOUS
  <2> HIDE DEF F
  <2> QED BY <1>3, <1>2, <2>1 DEF Recurses
<1>5. ceil = [i \in 0 .. n |->
                IF i = 0 THEN base ELSE IF 2 * ceil[i - 1] >= cap THEN cap ELSE 2 * ceil[i - 1]]
  BY <1>4
<1> HIDE DEF F, ceil
<1> DEFINE P == {i \in Nat : i \in 0 .. n => ceil[i] \in Nat /\ ceil[i] <= d[i]}
<1>6. 0 \in P
  BY <1>5
<1>7. ASSUME NEW i \in P PROVE i + 1 \in P
  <2>0. i \in Nat
    OBVIOUS
  <2> SUFFICES ASSUME i + 1 \in 0 .. n
               PROVE  ceil[i + 1] \in Nat /\ ceil[i + 1] <= d[i + 1]
    BY <2>0
  <2>1. i \in 0 .. n /\ ceil[i] \in Nat /\ ceil[i] <= d[i] /\ d[i] \in Nat
    BY <2>0
  <2>2. d[i + 1] = 2 * d[i]
    BY <2>0
  <2>3. ceil[i + 1] = IF 2 * ceil[i] >= cap THEN cap ELSE 2 * ceil[i]
    <3> HIDE DEF P
    <3>1. i + 1 \in 0 .. n /\ i + 1 # 0 /\ (i + 1) - 1 = i
      BY <2>0
    <3> QED BY <3>1, <1>5
  <2> HIDE DEF P
  <2>4. \A x, y \in Nat :
          x <= y => 2 * x \in Nat /\ 2 * x <= 2 * y /\ (2 * x >= cap => cap <= 2 * y)
    OBVIOUS
  <2>5. 2 * ceil[i] \in Nat /\ 2 * ceil[i] <= 2 * d[i] /\ (2 * ceil[i] >= cap => cap <= 2 * d[i])
    BY <2>1, <2>4
  <2> QED BY <2>2, <2>3, <2>5
<1>8. P \in SUBSET Nat
  OBVIOUS
<1>9. n \in P
  <2> HIDE DEF P
  <2> QED BY <1>6, <1>7, <1>8, Induction
<1>10. ceil[n] \in Nat /\ ceil[n] <= d[n]
  BY <1>9
<1> DEFINE top == IF ceil[n] > cap THEN cap ELSE ceil[n]
<1>11. backoff_ms(n, base, cap, rnd) = IF top <= 0 THEN 0 ELSE rnd % (top + 1)
  BY DEF backoff_ms, ceil
<1> HIDE DEF P
<1>12. top \in 0 .. cap /\ top <= d[n]
  BY <1>10
<1>13. rnd % (top + 1) \in 0 .. top
  <2> HIDE DEF top
  <2> QED BY <1>12, Remainder
<1> HIDE DEF top
<1> QED BY <1>11, <1>12, <1>13

\* backoff_ms returns a number of milliseconds.
LEMMA BackoffType ==
  ASSUME NEW n \in Nat, NEW base \in Nat, NEW cap \in Nat, NEW rnd \in Nat
  PROVE  backoff_ms(n, base, cap, rnd) \in Nat
<1> DEFINE F == [p \in Nat \X Nat |-> 2 * p[2]]
<1>1. F \in [Nat \X Nat -> Nat] /\ \A i \in Nat, x \in Nat : F[<<i, x>>] = 2 * x
  OBVIOUS
<1>2. PICK d \in [0 .. n -> Nat] : Recurses(d, base, F, n)
  <2> HIDE DEF F
  <2> QED BY <1>1, Recursion
<1> HIDE DEF F
<1>3. d[0] = base /\ \A i \in 1 .. n : d[i] = 2 * d[i - 1]
  BY <1>1, <1>2 DEF Recurses
<1>4. backoff_ms(n, base, cap, rnd) \in 0 .. cap
  BY <1>3, BackoffBounded
<1> QED BY <1>4

\* The pool has at least one connection, numbered from 1.
LEMMA CountType == Count \in Nat \ {0} /\ Conns = 1 .. Count
  BY SessionAssumption DEF Count, Clamp, Conns

\* The records that drive gd_init_ssh, read off name by name.
LEMMA StageNames ==
  Stages = {"session", "tcp", "handshake", "hostkey", "pin", "auth", "sftp", "channel",
            "shell", "block"}
  BY DEF Stages, After

LEMMA AcquiringNames == DOMAIN Acquired = {"session", "tcp", "sftp", "channel", "block"}
  BY DEF Acquired

LEMMA Acquires ==
  /\ Acquired["session"] = "ssh" /\ Acquired["tcp"] = "sock" /\ Acquired["sftp"] = "sftp"
  /\ Acquired["channel"] = "channel" /\ Acquired["block"] = "block"
  BY DEF Acquired

LEMMA Follows ==
  /\ After["session"] = "tcp" /\ After["tcp"] = "handshake"
  /\ After["sftp"] = "channel" /\ After["channel"] = "shell"
  /\ After["block"] = "publish" /\ After["auth"] = "sftp" /\ After["shell"] = "block"
  BY DEF After

\* gd_init_ssh starts with nothing.
LEMMA NothingType == Nothing \in [Kinds -> Nat] /\ \A k \in Kinds : Nothing[k] = 0
  BY DEF Nothing

\* What Release frees was acquired, and nothing that lives in it remains.
LEMMA FreesInOrder ==
  ASSUME TypeInv, NEW c \in Conns, NEW k \in ToFree(c)
  PROVE  /\ k \in Kinds /\ Held(c)[k] # 0 /\ (k = "block" => pc[c] = "free")
         /\ k = "ssh" => Held(c)["channel"] = 0 /\ Held(c)["sftp"] = 0
         /\ k = "sock" => Held(c)["ssh"] = 0
<1> DEFINE left == {i \in 1 .. 5 : /\ Held(c)[FreeOrder[i]] # 0
                                   /\ FreeOrder[i] = "block" => pc[c] = "free"}
<1>1. PICK i \in left : k = FreeOrder[i] /\ \A h \in left : i <= h
  BY DEF ToFree
<1>2. /\ FreeOrder[1] = "channel" /\ FreeOrder[2] = "sftp" /\ FreeOrder[3] = "ssh"
      /\ FreeOrder[4] = "sock" /\ FreeOrder[5] = "block"
  BY DEF FreeOrder
<1>3. i \in {1, 2, 3, 4, 5}
  BY <1>1
<1>4. k \in Kinds /\ Held(c)[k] # 0 /\ (k = "block" => pc[c] = "free")
  BY <1>1, <1>2, <1>3 DEF Kinds
<1>5. ASSUME k = "ssh" PROVE Held(c)["channel"] = 0 /\ Held(c)["sftp"] = 0
  <2>1. i = 3
    BY <1>1, <1>2, <1>3, <1>5
  <2>2. 1 \notin left /\ 2 \notin left
    BY <1>1, <2>1
  <2> QED BY <2>2, <1>2
<1>6. ASSUME k = "sock" PROVE Held(c)["ssh"] = 0
  <2>1. i = 4
    BY <1>1, <1>2, <1>3, <1>6
  <2>2. 3 \notin left
    BY <1>1, <2>1
  <2> QED BY <2>2, <1>2
<1> QED BY <1>4, <1>5, <1>6

\* All that remains when there is nothing to free: nothing, or the block.
LEMMA AllFreed ==
  ASSUME TypeInv, NEW c \in Conns, ToFree(c) = {}
  PROVE  \A k \in Kinds : Held(c)[k] # 0 => k = "block" /\ pc[c] # "free"
<1> DEFINE left == {i \in 1 .. 5 : /\ Held(c)[FreeOrder[i]] # 0
                                   /\ FreeOrder[i] = "block" => pc[c] = "free"}
<1>1. /\ FreeOrder[1] = "channel" /\ FreeOrder[2] = "sftp" /\ FreeOrder[3] = "ssh"
      /\ FreeOrder[4] = "sock" /\ FreeOrder[5] = "block"
  BY DEF FreeOrder
<1>2. \A j \in left : \E h \in left : h < j
  BY DEF ToFree
<1>3. left = {}
  BY <1>2
<1>4. 1 \notin left /\ 2 \notin left /\ 3 \notin left /\ 4 \notin left /\ 5 \notin left
  BY <1>3
<1> QED BY <1>1, <1>4 DEF Kinds

\* The types, initially and step by step.
LEMMA TypeInit == Init => TypeInv
<1> SUFFICES ASSUME Init PROVE TypeInv OBVIOUS
<1>1. Count \in Nat /\ 0 \in 0 .. ReconnectMax - 1
  BY CountType, SessionAssumption
<1>2. "session" \in Points /\ "none" \in Points
  BY StageNames DEF Points, Building
<1>3. \A c \in Conns : (IF c = 1 THEN "session" ELSE "none") \in Points
  BY <1>2
<1>4. /\ own \in [Conns -> [Kinds -> Nat]] /\ tmp \in [Conns -> [Kinds -> Nat]]
      /\ pc \in [Conns -> Points]
  BY <1>3, NothingType DEF Init
<1>5. /\ size \in 0 .. Count /\ attempt \in [Conns -> 0 .. ReconnectMax - 1]
      /\ live \subseteq Conns \X Kinds \X Nat
  BY <1>1 DEF Init
<1>6. /\ serial \in [Conns -> Nat \ {0}] /\ job \in [Conns -> {"init", "reconnect", "free"}]
      /\ tries \in [Conns -> Nat] /\ slept \in [Conns -> Nat] /\ rebuilds \in [Conns -> Nat]
      /\ key \in [Conns -> Keys \cup {NoKey}] /\ nh \in [Conns -> SUBSET Keys]
  BY DEF Init
<1> QED BY <1>4, <1>5, <1>6 DEF Init, TypeInv

LEMMA TypeStep == TypeInv /\ PinInv /\ [Next]_vars => TypeInv'
<1> SUFFICES ASSUME TypeInv, PinInv, [Next]_vars PROVE TypeInv' OBVIOUS
<1> USE DEF Goto, buildVars, retryVars, trustVars
<1>0. /\ Stages \cup {"publish", "undo", "none", "up", "down", "teardown", "free"} = Points
      /\ \A s \in Stages \ {"hostkey", "pin"} : After[s] \in Points
      /\ \A s \in DOMAIN Acquired : Acquired[s] \in Kinds
  <2>1. \A s \in Stages \ {"hostkey", "pin"} : After[s] \in Points
    BY StageNames DEF Points, Building, After
  <2> QED BY <2>1, StageNames, AcquiringNames, Acquires DEF Points, Building, Kinds
<1>1. ASSUME NEW c \in Conns, Acquire(c) PROVE TypeInv'
  <2> DEFINE k == Acquired[pc[c]]
  <2>1. k \in Kinds /\ After[pc[c]] \in Points
    BY <1>0, <1>1, AcquiringNames, StageNames DEF Acquire, TypeInv
  <2>2. tmp' \in [Conns -> [Kinds -> Nat]] /\ live' \subseteq Conns \X Kinds \X Nat
    BY <1>1, <2>1 DEF Acquire, Take, TypeInv
  <2> QED BY <1>1, <2>1, <2>2 DEF Acquire, TypeInv
<1>2. ASSUME NEW c \in Conns, Refused(c) PROVE TypeInv'
  BY <1>2 DEF Refused, TypeInv
<1>3. ASSUME NEW c \in Conns, Handshake(c) PROVE TypeInv'
  BY <1>3, StageNames DEF Handshake, TypeInv, Points, Building
<1>4. ASSUME NEW c \in Conns, Hostkey(c) PROVE TypeInv'
  <2>1. PICK read \in SUBSET known : GoesOn(c, read)
    BY <1>4 DEF Hostkey
  <2>2. read \in SUBSET Keys /\ skipped' \in BOOLEAN
    BY <2>1 DEF GoesOn, TypeInv
  <2>3. nh' \in [Conns -> SUBSET Keys]
    BY <2>1, <2>2 DEF GoesOn, TypeInv
  <2>4. {"pin", "auth"} \subseteq Points
    BY StageNames DEF Points, Building
  <2>5. pc' \in [Conns -> Points]
    BY <2>1, <2>4 DEF GoesOn, Goto, TypeInv
  <2>6. UNCHANGED <<phase, size, job, buildVars, retryVars, srvKey, rekeys, known, saves, key,
                   pinned>>
    BY <2>1 DEF GoesOn
  <2> QED BY <2>2, <2>3, <2>5, <2>6 DEF TypeInv, buildVars, retryVars
<1>5. ASSUME NEW c \in Conns, HostkeySkipped(c) PROVE TypeInv'
  BY <1>5, StageNames DEF HostkeySkipped, TypeInv, Points, Building
<1>6. ASSUME NEW c \in Conns, Pin(c) PROVE TypeInv'
  <2>1. known' \in SUBSET Keys
    <3>1. key[c] \in Keys
      BY <1>6 DEF Pin, PinInv
    <3> QED BY <1>6, <3>1 DEF Pin, TypeInv
  <2>2. nh' \in [Conns -> SUBSET Keys] /\ pc' \in [Conns -> Points]
    BY <1>6, StageNames DEF Pin, TypeInv, Points, Building
  <2> QED BY <1>6, <2>1, <2>2 DEF Pin, TypeInv
<1>7. ASSUME NEW c \in Conns, Pass(c) PROVE TypeInv'
  BY <1>7, Follows, StageNames DEF Pass, TypeInv, Points, Building
<1>8. ASSUME NEW c \in Conns, BuildFails(c) PROVE TypeInv'
  BY <1>8 DEF BuildFails, TypeInv, Points, Building
<1>9. ASSUME NEW c \in Conns, Release(c) PROVE TypeInv'
  <2>1. PICK k \in ToFree(c) :
          /\ live' = live \ {<<c, k, Held(c)[k]>>}
          /\ IF pc[c] = "undo"
             THEN tmp' = [tmp EXCEPT ![c][k] = 0] /\ UNCHANGED own
             ELSE own' = [own EXCEPT ![c][k] = 0] /\ UNCHANGED tmp
    BY <1>9 DEF Release
  <2>2. k \in Kinds
    BY FreesInOrder
  <2>3. CASE pc[c] = "undo"
    <3>1. tmp[c] \in [Kinds -> Nat] /\ [tmp[c] EXCEPT ![k] = 0] \in [Kinds -> Nat]
      BY <2>2 DEF TypeInv
    <3>2. tmp' = [tmp EXCEPT ![c][k] = 0] /\ own' = own
      BY <2>1, <2>3
    <3>3. tmp' \in [Conns -> [Kinds -> Nat]]
      BY <3>1, <3>2 DEF TypeInv
    <3>4. live' \subseteq Conns \X Kinds \X Nat
      BY <2>1 DEF TypeInv
    <3> QED BY <1>9, <3>2, <3>3, <3>4 DEF Release, TypeInv
  <2>4. CASE pc[c] # "undo"
    <3>1. own[c] \in [Kinds -> Nat] /\ [own[c] EXCEPT ![k] = 0] \in [Kinds -> Nat]
      BY <2>2 DEF TypeInv
    <3>2. own' = [own EXCEPT ![c][k] = 0] /\ tmp' = tmp
      BY <2>1, <2>4
    <3>3. own' \in [Conns -> [Kinds -> Nat]]
      BY <3>1, <3>2 DEF TypeInv
    <3>4. live' \subseteq Conns \X Kinds \X Nat
      BY <2>1 DEF TypeInv
    <3> QED BY <1>9, <3>2, <3>3, <3>4 DEF Release, TypeInv
  <2> QED BY <2>3, <2>4
<1>10. ASSUME NEW c \in Conns, PoolAdd(c) PROVE TypeInv'
  <2>0. tmp[c] \in [Kinds -> Nat] /\ c \in 0 .. Count
    BY CountType DEF TypeInv
  <2>1. /\ own' \in [Conns -> [Kinds -> Nat]] /\ tmp' \in [Conns -> [Kinds -> Nat]]
        /\ size' \in 0 .. Count
    BY <1>10, <2>0, NothingType DEF PoolAdd, TypeInv
  <2>2. pc' \in [Conns -> Points] /\ phase' \in {"init", "run", "stop", "exit"}
    BY <1>10, StageNames DEF PoolAdd, TypeInv, Points, Building
  <2> QED BY <1>10, <2>1, <2>2 DEF PoolAdd, TypeInv
<1>11. ASSUME NEW c \in Conns, PoolStop(c) PROVE TypeInv'
  BY <1>11 DEF PoolStop, TypeInv, Points
<1>12. ASSUME NEW c \in Conns, Reconnect(c) PROVE TypeInv'
  BY <1>12, SessionAssumption DEF Reconnect, TypeInv, Points
<1>13. ASSUME NEW c \in Conns, Rebuild(c) PROVE TypeInv'
  BY <1>13, StageNames DEF Rebuild, Start, TypeInv, Points, Building
<1>14. ASSUME NEW c \in Conns, AttemptFailed(c) PROVE TypeInv'
  <2>1. CASE attempt[c] + 1 < ReconnectMax
    <3>1. PICK rnd \in Ticks :
            slept' = [slept EXCEPT ![c] = @ + backoff_ms(attempt[c], BaseMs, CapMs, rnd)]
      BY <1>14, <2>1 DEF AttemptFailed
    <3>0. attempt[c] \in Nat /\ attempt[c] + 1 \in 0 .. ReconnectMax - 1 /\ slept[c] \in Nat
      BY <2>1, SessionAssumption DEF TypeInv
    <3>2. backoff_ms(attempt[c], BaseMs, CapMs, rnd) \in Nat
      BY <3>0, BackoffType, SessionAssumption
    <3>3. slept' \in [Conns -> Nat]
      BY <3>0, <3>1, <3>2 DEF TypeInv
    <3>4. attempt' = [attempt EXCEPT ![c] = @ + 1] /\ Start(c)
      BY <1>14, <2>1 DEF AttemptFailed
    <3>5. attempt' \in [Conns -> 0 .. ReconnectMax - 1]
      BY <3>0, <3>4 DEF TypeInv
    <3>6. pc' \in [Conns -> Points] /\ serial' \in [Conns -> Nat \ {0}] /\ tries' \in [Conns -> Nat]
      BY <3>4, StageNames DEF Start, TypeInv, Points, Building
    <3> QED BY <1>14, <3>3, <3>5, <3>6 DEF AttemptFailed, TypeInv
  <2>2. CASE ~ (attempt[c] + 1 < ReconnectMax)
    <3>1. pc' = [pc EXCEPT ![c] = "down"] /\ UNCHANGED <<slept, attempt, serial, tries>>
      BY <1>14, <2>2 DEF AttemptFailed
    <3>2. pc' \in [Conns -> Points]
      BY <3>1 DEF TypeInv, Points
    <3> QED BY <1>14, <3>1, <3>2 DEF AttemptFailed, TypeInv
  <2> QED BY <2>1, <2>2
<1>15. ASSUME NEW c \in Conns, Adopt(c) PROVE TypeInv'
  <2>1. [tmp[c] EXCEPT !["block"] = own[c]["block"]] \in [Kinds -> Nat]
    BY DEF TypeInv, Kinds
  <2>2. own' \in [Conns -> [Kinds -> Nat]]
    BY <1>15, <2>1 DEF Adopt, TypeInv
  <2>3. tmp' \in [Conns -> [Kinds -> Nat]]
    BY <1>15, NothingType DEF Adopt, TypeInv
  <2>4. pc' \in [Conns -> Points]
    BY <1>15 DEF Adopt, TypeInv, Points
  <2> QED BY <1>15, <2>2, <2>3, <2>4 DEF Adopt, TypeInv
<1>16. ASSUME NEW c \in Conns, Freed(c) PROVE TypeInv'
  <2>1. CASE c < size
    BY <1>16, <2>1 DEF Freed, TypeInv, Points
  <2>2. CASE ~ (c < size)
    <3>1. 0 \in 0 .. Count
      BY CountType
    <3> QED BY <1>16, <2>2, <3>1 DEF Freed, TypeInv, Points
  <2> QED BY <2>1, <2>2
<1>17. ASSUME Finalize PROVE TypeInv'
  BY <1>17 DEF Finalize, TypeInv, Points
<1>18. ASSUME Rekey PROVE TypeInv'
  BY <1>18 DEF Rekey, TypeInv
<1>19. ASSUME UNCHANGED vars PROVE TypeInv'
  BY <1>19 DEF vars, TypeInv
<1> QED BY <1>1, <1>2, <1>3, <1>4, <1>5, <1>6, <1>7, <1>8, <1>9, <1>10, <1>11, <1>12, <1>13,
           <1>14, <1>15, <1>16, <1>17, <1>18, <1>19 DEF Next, Work, Build

LEMMA BuildingNames ==
  Building = {"session", "tcp", "handshake", "hostkey", "pin", "auth", "sftp", "channel",
              "shell", "block", "publish", "undo"}
  BY StageNames DEF Building

\* A build works for gd_pool_init on the next connection, or for gd_reconnect.
LEMMA WhereBuilding ==
  ASSUME TypeInv, PhaseInv, NEW c \in Conns, pc[c] \in Building
  PROVE  \/ phase = "init" /\ c = size + 1 /\ job[c] = "init"
         \/ phase = "run" /\ c <= size /\ job[c] = "reconnect"
<1>1. c \in Nat /\ size \in Nat
  BY CountType DEF TypeInv
<1>2. phase # "exit"
  BY BuildingNames DEF PhaseInv
<1>3. phase # "stop"
  <2> SUFFICES ASSUME phase = "stop" PROVE FALSE OBVIOUS
  <2>1. PICK f \in 1 .. size :
          /\ pc[f] = "free"
          /\ \A d \in Conns : /\ d < f \/ d > size => pc[d] = "none"
                              /\ d > f /\ d <= size => pc[d] \in {"up", "down"}
    BY DEF PhaseInv
  <2>2. c = f
    BY <1>1, <2>1, BuildingNames
  <2> QED BY <2>1, <2>2, BuildingNames
<1>4. phase = "init" => c = size + 1 /\ job[c] = "init"
  BY <1>1, BuildingNames DEF PhaseInv
<1>5. phase = "run" => c <= size /\ job[c] = "reconnect"
  BY <1>1, BuildingNames DEF PhaseInv
<1> QED BY <1>2, <1>3, <1>4, <1>5 DEF TypeInv

\* Going from stage to stage changes nothing of whose turn it is.
LEMMA MoveKeepsPhase ==
  ASSUME TypeInv, PhaseInv, NEW c \in Conns, NEW x \in Building, pc[c] \in Building,
         pc' = [pc EXCEPT ![c] = x], UNCHANGED <<phase, size, job>>
  PROVE  PhaseInv'
<1>1. pc \in [Conns -> Points] /\ Conns' = Conns
  BY DEF TypeInv, Conns
<1>2. pc'[c] = x /\ \A d \in Conns : d # c => pc'[d] = pc[d]
  BY <1>1
<1>3. c \in Nat /\ size \in Nat
  BY CountType DEF TypeInv
<1>4. CASE phase = "init" /\ c = size + 1
  <2>1. \A d \in Conns : job[d] = "init" /\ (d <= size => pc'[d] = "up")
                         /\ (d > size + 1 => pc'[d] = "none")
    BY <1>2, <1>3, <1>4, CountType DEF PhaseInv
  <2> QED BY <1>1, <1>2, <1>4, <2>1 DEF PhaseInv
<1>5. CASE phase = "run" /\ c <= size /\ job[c] = "reconnect"
  <2>1. \A d \in Conns :
           /\ d <= size => \/ pc'[d] \in {"up", "down"}
                           \/ pc'[d] \in Building \cup {"teardown"} /\ job[d] = "reconnect"
           /\ d > size => pc'[d] = "none"
    BY <1>2, <1>3, <1>5, CountType DEF PhaseInv
  <2> QED BY <1>1, <1>5, <2>1 DEF PhaseInv
<1> QED BY <1>4, <1>5, WhereBuilding

\* Only gd_reconnect tears down, only gd_pool_free frees.
LEMMA OutsideBuilding ==
  ASSUME TypeInv, PhaseInv, NEW c \in Conns
  PROVE  /\ pc[c] = "teardown" => phase = "run" /\ c <= size /\ job[c] = "reconnect"
         /\ pc[c] = "free" => phase = "stop"
<1>1. c \in Nat /\ size \in Nat /\ (c <= size \/ c = size + 1 \/ c > size + 1)
  BY CountType DEF TypeInv
<1>2. phase = "init" => pc[c] \in Building \cup {"up", "none"}
  BY <1>1 DEF PhaseInv
<1>3. phase = "run" => /\ pc[c] # "free"
                       /\ pc[c] = "teardown" => c <= size /\ job[c] = "reconnect"
  <2> SUFFICES ASSUME phase = "run"
               PROVE  pc[c] # "free" /\ (pc[c] = "teardown" => c <= size /\ job[c] = "reconnect")
    OBVIOUS
  <2>1. c <= size => \/ pc[c] \in {"up", "down"}
                     \/ pc[c] \in Building \cup {"teardown"} /\ job[c] = "reconnect"
    BY DEF PhaseInv
  <2>2. c > size => pc[c] = "none"
    BY DEF PhaseInv
  <2> QED BY <1>1, <2>1, <2>2, BuildingNames
<1>4. phase = "stop" => pc[c] \in {"free", "none", "up", "down"}
  BY <1>1, CountType DEF PhaseInv
<1>5. phase = "exit" => pc[c] = "none"
  BY DEF PhaseInv
<1> QED BY <1>2, <1>3, <1>4, <1>5, BuildingNames DEF TypeInv

\* The steps that go from stage to stage.
LEMMA StageMoves ==
  ASSUME TypeInv, NEW c \in Conns,
         Acquire(c) \/ Handshake(c) \/ Hostkey(c) \/ HostkeySkipped(c) \/ Pin(c) \/ Pass(c)
           \/ BuildFails(c)
  PROVE  /\ pc[c] \in Building /\ UNCHANGED <<phase, size, job>>
         /\ \E x \in Building : pc' = [pc EXCEPT ![c] = x]
<1> USE BuildingNames, StageNames, AcquiringNames, Follows DEF Goto, buildVars, retryVars, trustVars
<1>1. CASE Acquire(c)
  BY <1>1 DEF Acquire
<1>2. CASE Handshake(c)
  BY <1>2 DEF Handshake
<1>3. CASE Hostkey(c)
  BY <1>3 DEF Hostkey, GoesOn
<1>4. CASE HostkeySkipped(c)
  BY <1>4 DEF HostkeySkipped
<1>5. CASE Pin(c)
  BY <1>5 DEF Pin
<1>6. CASE Pass(c)
  BY <1>6 DEF Pass
<1>7. CASE BuildFails(c)
  BY <1>7 DEF BuildFails
<1> QED BY <1>1, <1>2, <1>3, <1>4, <1>5, <1>6, <1>7

\* Whose turn it is, step by step.
LEMMA PhaseStep == TypeInv /\ PhaseInv /\ ShapeInv /\ [Next]_vars => PhaseInv'
<1> SUFFICES ASSUME TypeInv, PhaseInv, ShapeInv, [Next]_vars PROVE PhaseInv' OBVIOUS
<1> USE DEF Goto, buildVars, retryVars, trustVars
<1>0. /\ pc \in [Conns -> Points] /\ job \in [Conns -> {"init", "reconnect", "free"}]
      /\ Conns = 1 .. Count /\ Count \in Nat /\ size \in Nat /\ size <= Count
  <2>1. pc \in [Conns -> Points] /\ job \in [Conns -> {"init", "reconnect", "free"}]
    BY DEF TypeInv
  <2>2. size \in 0 .. Count
    BY DEF TypeInv
  <2> QED BY <2>1, <2>2, CountType
<1>1. ASSUME NEW c \in Conns,
             Acquire(c) \/ Handshake(c) \/ Hostkey(c) \/ HostkeySkipped(c) \/ Pin(c) \/ Pass(c)
               \/ BuildFails(c)
      PROVE PhaseInv'
  <2>1. PICK x \in Building : pc' = [pc EXCEPT ![c] = x]
    BY <1>1, StageMoves
  <2> QED BY <1>1, <2>1, StageMoves, MoveKeepsPhase
<1>2. ASSUME UNCHANGED <<phase, size, pc, job>> PROVE PhaseInv'
  BY <1>2 DEF PhaseInv
<1>3. ASSUME NEW c \in Conns, PoolAdd(c) PROVE PhaseInv'
  <2>1. phase = "init" /\ c = size + 1
    BY <1>3, WhereBuilding, BuildingNames DEF PoolAdd
  <2>2. CASE c + 1 \in Conns
    BY <1>0, <1>3, <2>1, <2>2, BuildingNames DEF PoolAdd, PhaseInv
  <2>3. CASE c + 1 \notin Conns
    BY <1>0, <1>3, <2>1, <2>3, BuildingNames DEF PoolAdd, PhaseInv
  <2> QED BY <2>2, <2>3
<1>4. ASSUME NEW c \in Conns, PoolStop(c) PROVE PhaseInv'
  <2>1. phase = "init" /\ c = size + 1
    BY <1>4, WhereBuilding, BuildingNames DEF PoolStop
  <2> QED BY <1>0, <1>4, <2>1 DEF PoolStop, PhaseInv
<1>5. ASSUME NEW c \in Conns, Reconnect(c) PROVE PhaseInv'
  BY <1>0, <1>5 DEF Reconnect, PhaseInv
<1>6. ASSUME NEW c \in Conns, Rebuild(c) PROVE PhaseInv'
  <2>1. phase = "run" /\ c <= size /\ job[c] = "reconnect"
    BY <1>6, OutsideBuilding DEF Rebuild
  <2> QED BY <1>0, <1>6, <2>1, BuildingNames DEF Rebuild, Start, PhaseInv
<1>7. ASSUME NEW c \in Conns, AttemptFailed(c) PROVE PhaseInv'
  <2>1. phase = "run" /\ c <= size
    BY <1>7, WhereBuilding, BuildingNames DEF AttemptFailed
  <2> QED BY <1>0, <1>7, <2>1, BuildingNames DEF AttemptFailed, Start, PhaseInv
<1>8. ASSUME NEW c \in Conns, Adopt(c) PROVE PhaseInv'
  <2>1. phase = "run" /\ c <= size
    BY <1>8, WhereBuilding, BuildingNames DEF Adopt
  <2> QED BY <1>0, <1>8, <2>1 DEF Adopt, PhaseInv
<1>9. ASSUME NEW c \in Conns, Freed(c) PROVE PhaseInv'
  <2>1. phase = "stop"
    BY <1>9, OutsideBuilding DEF Freed
  <2>2. PICK f \in 1 .. size :
          /\ pc[f] = "free"
          /\ \A d \in Conns : /\ d < f \/ d > size => pc[d] = "none"
                              /\ d > f /\ d <= size => pc[d] \in {"up", "down"}
    BY <2>1 DEF PhaseInv
  <2>3. f = c
    BY <1>0, <1>9, <2>2 DEF Freed
  <2>4. CASE c < size
    <3>1. /\ phase' = "stop" /\ size' = size
          /\ pc' = [pc EXCEPT ![c] = "none", ![c + 1] = "free"]
      BY <1>9, <2>1, <2>4 DEF Freed
    <3>2. c + 1 \in 1 .. size' /\ c + 1 \in Conns
      BY <1>0, <2>4, <3>1
    <3>3. /\ pc'[c + 1] = "free"
          /\ \A d \in Conns : /\ d < c + 1 \/ d > size' => pc'[d] = "none"
                              /\ d > c + 1 /\ d <= size' => pc'[d] \in {"up", "down"}
      BY <1>0, <2>2, <2>3, <3>1, <3>2
    <3> QED BY <3>1, <3>2, <3>3 DEF PhaseInv, Conns
  <2>5. CASE ~ (c < size)
    BY <1>0, <1>9, <2>2, <2>3, <2>5 DEF Freed, PhaseInv
  <2> QED BY <2>4, <2>5
<1>10. ASSUME Finalize PROVE PhaseInv'
  <2>1. 1 \in 1 .. size /\ 1 \in Conns
    BY <1>0, <1>10 DEF Finalize, PhaseInv
  <2>2. /\ pc'[1] = "free"
        /\ \A d \in Conns : /\ d < 1 \/ d > size => pc'[d] = "none"
                            /\ d > 1 /\ d <= size => pc'[d] \in {"up", "down"}
    BY <1>0, <1>10, <2>1 DEF Finalize, PhaseInv
  <2> QED BY <1>10, <2>1, <2>2 DEF Finalize, PhaseInv, Conns
<1>11. ASSUME NEW c \in Conns, Refused(c) PROVE PhaseInv'
  BY <1>2, <1>11 DEF Refused
<1>12. ASSUME NEW c \in Conns, Release(c) PROVE PhaseInv'
  BY <1>2, <1>12 DEF Release
<1>13. ASSUME Rekey PROVE PhaseInv'
  BY <1>2, <1>13 DEF Rekey
<1>14. ASSUME UNCHANGED vars PROVE PhaseInv'
  BY <1>2, <1>14 DEF vars
<1> QED BY <1>1, <1>3, <1>4, <1>5, <1>6, <1>7, <1>8, <1>9, <1>10, <1>11, <1>12, <1>13, <1>14
        DEF Next, Work, Build

\* A connection that nobody touches keeps its shape.
LEMMA ShapeFrame ==
  ASSUME NEW d \in Conns, Shape(d), pc'[d] = pc[d], job'[d] = job[d], own'[d] = own[d],
         tmp'[d] = tmp[d], serial'[d] = serial[d]
  PROVE  Shape(d)'
  BY DEF Shape, Partial

\* What has to hold of a connection at the point it reaches.
LEMMA ReachStage ==
  ASSUME NEW c \in Conns, pc'[c] \in Building \ {"undo"}, Partial(c)',
         \A k \in Kinds \ {"block"} : own'[c][k] = 0,
         \/ job'[c] = "init" /\ own'[c]["block"] = 0
         \/ job'[c] = "reconnect" /\ own'[c]["block"] \in 1 .. serial'[c] - 1
  PROVE  Shape(c)'
  BY BuildingNames DEF Shape

LEMMA ReachUndo ==
  ASSUME NEW c \in Conns, pc'[c] = "undo", tmp'[c]["block"] = 0,
         \A k \in Kinds : tmp'[c][k] \in {0, serial'[c]},
         \A k \in Kinds \ {"block"} : own'[c][k] = 0,
         \/ job'[c] = "init" /\ own'[c]["block"] = 0
         \/ job'[c] = "reconnect" /\ own'[c]["block"] \in 1 .. serial'[c] - 1
  PROVE  Shape(c)'
  BY BuildingNames DEF Shape

LEMMA ReachOther ==
  ASSUME NEW c \in Conns, pc'[c] \in {"none", "up", "down", "teardown", "free"},
         \A k \in Kinds : tmp'[c][k] = 0,
         pc'[c] = "none" => \A k \in Kinds : own'[c][k] = 0,
         pc'[c] = "down" => \A k \in Kinds \ {"block"} : own'[c][k] = 0,
         pc'[c] \in {"up", "down", "teardown"} => own'[c]["block"] \in 1 .. serial'[c],
         pc'[c] = "up" => \A k \in Kinds \ {"block"} : own'[c][k] = serial'[c],
         pc'[c] \in {"teardown", "free"} => \A k \in Kinds : own'[c][k] \in 0 .. serial'[c],
         pc'[c] = "teardown" => job'[c] = "reconnect"
  PROVE  Shape(c)'
  BY BuildingNames DEF Shape

\* And what is known of one at the point it is.
LEMMA AtStage ==
  ASSUME NEW c \in Conns, Shape(c), pc[c] \in Building
  PROVE  /\ \A k \in Kinds \ {"block"} : own[c][k] = 0
         /\ \/ job[c] = "init" /\ own[c]["block"] = 0
            \/ job[c] = "reconnect" /\ own[c]["block"] \in 1 .. serial[c] - 1
            \/ job[c] \notin {"init", "reconnect", "free"}
         /\ pc[c] # "undo" => Partial(c)
         /\ pc[c] = "undo" => tmp[c]["block"] = 0 /\ \A k \in Kinds : tmp[c][k] \in {0, serial[c]}
  BY BuildingNames DEF Shape

LEMMA AtOther ==
  ASSUME NEW c \in Conns, Shape(c), pc[c] \in {"none", "up", "down", "teardown", "free"}
  PROVE  /\ \A k \in Kinds : tmp[c][k] = 0
         /\ pc[c] = "none" => \A k \in Kinds : own[c][k] = 0
         /\ pc[c] = "down" => \A k \in Kinds \ {"block"} : own[c][k] = 0
         /\ pc[c] \in {"up", "down", "teardown"} => own[c]["block"] \in 1 .. serial[c]
         /\ pc[c] = "up" => \A k \in Kinds \ {"block"} : own[c][k] = serial[c]
         /\ pc[c] \in {"teardown", "free"} => \A k \in Kinds : own[c][k] \in 0 .. serial[c]
         /\ pc[c] = "teardown" => job[c] = "reconnect"
  BY BuildingNames DEF Shape

\* gd_pool_free finds a connection up or down.
LEMMA UpGoes ==
  ASSUME TypeInv, NEW d \in Conns, Shape(d), pc[d] \in {"up", "down"}, pc'[d] = "free",
         UNCHANGED <<own, tmp, serial>>
  PROVE  Shape(d)'
<1>1. /\ own[d] \in [Kinds -> Nat] /\ serial[d] \in Nat \ {0}
      /\ own[d]["block"] \in 1 .. serial[d] /\ \A k \in Kinds : tmp[d][k] = 0
  BY AtOther DEF TypeInv
<1>2. \A k \in Kinds \ {"block"} : own[d][k] \in {0, serial[d]}
  BY AtOther
<1>3. \A k \in Kinds : own[d][k] \in 0 .. serial[d]
  BY <1>1, <1>2
<1> QED BY <1>1, <1>3, ReachOther

\* What is held, step by step: each action is judged at its connection.
LEMMA ShapeStep == TypeInv /\ PhaseInv /\ ShapeInv /\ [Next]_vars => ShapeInv'
<1> SUFFICES ASSUME TypeInv, PhaseInv, ShapeInv, [Next]_vars PROVE ShapeInv' OBVIOUS
<1> USE DEF Goto, buildVars, retryVars, trustVars
<1>0. /\ pc \in [Conns -> Points] /\ job \in [Conns -> {"init", "reconnect", "free"}]
      /\ own \in [Conns -> [Kinds -> Nat]] /\ tmp \in [Conns -> [Kinds -> Nat]]
      /\ serial \in [Conns -> Nat \ {0}]
      /\ Conns' = Conns /\ Conns = 1 .. Count /\ Count \in Nat /\ size \in Nat
      /\ Kinds = {"channel", "sftp", "ssh", "sock", "block"}
  BY CountType DEF TypeInv, Kinds, Conns
<1> DEFINE Others(c) == \A d \in Conns \ {c} :
                          /\ pc'[d] = pc[d] /\ job'[d] = job[d] /\ own'[d] = own[d]
                          /\ tmp'[d] = tmp[d] /\ serial'[d] = serial[d]
<1>a. ASSUME NEW c \in Conns, Others(c), Shape(c)' PROVE ShapeInv'
  BY <1>0, <1>a, ShapeFrame DEF ShapeInv
<1> HIDE DEF Others
<1>1. ASSUME NEW c \in Conns, Acquire(c) PROVE ShapeInv'
  <2>1. /\ pc[c] \in {"session", "tcp", "sftp", "channel", "block"}
        /\ tmp' = [tmp EXCEPT ![c][Acquired[pc[c]]] = serial[c]]
        /\ pc' = [pc EXCEPT ![c] = After[pc[c]]]
        /\ UNCHANGED <<job, own, serial>>
    BY <1>1, AcquiringNames DEF Acquire, Take
  <2>2. Shape(c)'
    <3>0. /\ \A k \in Kinds \ {"block"} : own[c][k] = 0
          /\ \/ job[c] = "init" /\ own[c]["block"] = 0
             \/ job[c] = "reconnect" /\ own[c]["block"] \in 1 .. serial[c] - 1
          /\ Partial(c)
      BY <1>0, <2>1, AtStage, BuildingNames DEF ShapeInv
    <3> DEFINE k0 == Acquired[pc[c]]
    <3>1. /\ tmp'[c][k0] = serial[c] /\ \A k \in Kinds \ {k0} : tmp'[c][k] = tmp[c][k]
          /\ pc'[c] = After[pc[c]] /\ job'[c] = job[c] /\ own'[c] = own[c]
          /\ serial'[c] = serial[c]
      <4>1. k0 \in Kinds
        BY <2>1, Acquires DEF Kinds
      <4> HIDE DEF k0
      <4>2. tmp' = [tmp EXCEPT ![c][k0] = serial[c]] /\ UNCHANGED <<job, own, serial>>
        BY <2>1 DEF k0
      <4>3. tmp[c] \in [Kinds -> Nat] /\ tmp'[c] = [tmp[c] EXCEPT ![k0] = serial[c]]
        BY <1>0, <4>2
      <4>4. pc'[c] = After[pc[c]]
        BY <1>0, <2>1
      <4> QED BY <4>1, <4>2, <4>3, <4>4
    <3>2. pc'[c] \in Building \ {"undo"} /\ Partial(c)'
      <4>1. CASE pc[c] = "session"
        BY <3>0, <3>1, <4>1, Acquires, Follows, BuildingNames DEF Partial, Kinds
      <4>2. CASE pc[c] = "tcp"
        BY <3>0, <3>1, <4>2, Acquires, Follows, BuildingNames DEF Partial, Kinds
      <4>3. CASE pc[c] = "sftp"
        BY <3>0, <3>1, <4>3, Acquires, Follows, BuildingNames DEF Partial, Kinds
      <4>4. CASE pc[c] = "channel"
        BY <3>0, <3>1, <4>4, Acquires, Follows, BuildingNames DEF Partial, Kinds
      <4>5. CASE pc[c] = "block"
        BY <3>0, <3>1, <4>5, Acquires, Follows, BuildingNames DEF Partial, Kinds
      <4> QED BY <2>1, <4>1, <4>2, <4>3, <4>4, <4>5
    <3> QED BY <3>0, <3>1, <3>2, ReachStage
  <2>3. Others(c)
    BY <1>0, <2>1 DEF Others
  <2> QED BY <1>a, <2>2, <2>3
<1>2. ASSUME NEW c \in Conns,
             Handshake(c) \/ Hostkey(c) \/ HostkeySkipped(c) \/ Pin(c) \/ Pass(c) \/ BuildFails(c)
      PROVE ShapeInv'
  <2>1. UNCHANGED <<job, own, tmp, serial>>
    BY <1>2 DEF Handshake, Hostkey, GoesOn, HostkeySkipped, Pin, Pass,
       BuildFails
  <2>2. PICK x \in Building :
          /\ pc' = [pc EXCEPT ![c] = x]
          /\ \/ pc[c] \in {"handshake", "hostkey", "pin"} /\ x \in {"hostkey", "pin", "auth"}
             \/ pc[c] = "auth" /\ x = "sftp"
             \/ pc[c] = "shell" /\ x = "block"
             \/ pc[c] \in Stages /\ x = "undo"
    BY <1>2, BuildingNames, Follows DEF Handshake, Hostkey, GoesOn, HostkeySkipped, Pin, Pass,
       BuildFails
  <2>3. Shape(c)'
    <3>0. Shape(c)
      BY DEF ShapeInv
    <3>1. pc'[c] = x
      BY <1>0, <2>2
    <3> USE <1>0, <2>1, <3>0, <3>1, BuildingNames, StageNames DEF Shape, Partial
    <3>2. CASE pc[c] \in {"handshake", "hostkey", "pin"} /\ x \in {"hostkey", "pin", "auth"}
      BY <3>2
    <3>3. CASE pc[c] = "auth" /\ x = "sftp"
      BY <3>3
    <3>4. CASE pc[c] = "shell" /\ x = "block"
      BY <3>4
    <3>5. CASE pc[c] \in Stages /\ x = "undo"
      BY <3>5
    <3> QED BY <2>2, <3>2, <3>3, <3>4, <3>5
  <2>4. Others(c)
    BY <1>0, <2>1, <2>2 DEF Others
  <2> QED BY <1>a, <2>3, <2>4
<1>3. ASSUME UNCHANGED <<pc, job, own, tmp, serial>> PROVE ShapeInv'
  BY <1>3, <1>0, ShapeFrame DEF ShapeInv
<1>4. ASSUME NEW c \in Conns, Release(c) PROVE ShapeInv'
  <2>1. PICK k \in ToFree(c) :
          IF pc[c] = "undo"
          THEN tmp' = [tmp EXCEPT ![c][k] = 0] /\ UNCHANGED own
          ELSE own' = [own EXCEPT ![c][k] = 0] /\ UNCHANGED tmp
    BY <1>4 DEF Release
  <2>2. k \in Kinds /\ (k = "block" => pc[c] = "free")
    BY FreesInOrder
  <2>3. pc[c] \in {"undo", "teardown", "free"} /\ UNCHANGED <<pc, job, serial>>
    BY <1>4 DEF Release
  <2>4. Shape(c)'
    <3>0. Shape(c) /\ pc'[c] = pc[c] /\ job'[c] = job[c] /\ serial'[c] = serial[c]
      BY <2>3 DEF ShapeInv
    <3>1. CASE pc[c] = "undo"
      <4>1. /\ own'[c] = own[c] /\ tmp'[c][k] = 0
            /\ \A h \in Kinds \ {k} : tmp'[c][h] = tmp[c][h]
        <5>1. own' = own /\ tmp' = [tmp EXCEPT ![c][k] = 0]
          BY <2>1, <3>1
        <5>2. tmp'[c] = [tmp[c] EXCEPT ![k] = 0] /\ tmp[c] \in [Kinds -> Nat]
          BY <1>0, <5>1
        <5> QED BY <2>2, <5>1, <5>2
      <4>2. /\ \A h \in Kinds \ {"block"} : own[c][h] = 0
            /\ \/ job[c] = "init" /\ own[c]["block"] = 0
               \/ job[c] = "reconnect" /\ own[c]["block"] \in 1 .. serial[c] - 1
            /\ tmp[c]["block"] = 0 /\ \A h \in Kinds : tmp[c][h] \in {0, serial[c]}
        BY <1>0, <3>0, <3>1, AtStage, BuildingNames DEF Shape
      <4>3. tmp'[c]["block"] = 0 /\ \A h \in Kinds : tmp'[c][h] \in {0, serial'[c]}
        BY <3>0, <4>1, <4>2 DEF Kinds
      <4> QED BY <3>0, <3>1, <4>1, <4>2, <4>3, ReachUndo
    <3>2. CASE pc[c] \in {"teardown", "free"}
      <4>1. /\ tmp'[c] = tmp[c] /\ own'[c][k] = 0
            /\ \A h \in Kinds \ {k} : own'[c][h] = own[c][h]
        <5>1. tmp' = tmp /\ own' = [own EXCEPT ![c][k] = 0]
          BY <2>1, <3>2
        <5>2. own'[c] = [own[c] EXCEPT ![k] = 0] /\ own[c] \in [Kinds -> Nat]
          BY <1>0, <5>1
        <5> QED BY <2>2, <5>1, <5>2
      <4>2. /\ \A h \in Kinds : tmp[c][h] = 0 /\ own[c][h] \in 0 .. serial[c]
            /\ pc[c] = "teardown" => own[c]["block"] \in 1 .. serial[c] /\ job[c] = "reconnect"
        BY <3>0, <3>2, AtOther
      <4>3. 0 \in 0 .. serial[c]
        BY <1>0
      <4>4. \A h \in Kinds : own'[c][h] \in 0 .. serial'[c]
        BY <3>0, <4>1, <4>2, <4>3
      <4>5. pc[c] = "teardown" => own'[c]["block"] = own[c]["block"]
        BY <2>2, <4>1 DEF Kinds
      <4> QED BY <3>0, <3>2, <4>1, <4>2, <4>4, <4>5, ReachOther
    <3> QED BY <2>3, <3>1, <3>2
  <2>5. Others(c)
    BY <1>0, <2>1, <2>3 DEF Others
  <2> QED BY <1>a, <2>4, <2>5
<1>5. ASSUME NEW c \in Conns, PoolAdd(c) PROVE ShapeInv'
  <2>0. Shape(c)
    BY DEF ShapeInv
  <2>1. /\ own' = [own EXCEPT ![c] = tmp[c]] /\ tmp' = [tmp EXCEPT ![c] = Nothing]
        /\ pc[c] = "publish" /\ job[c] = "init" /\ UNCHANGED <<job, serial>>
    BY <1>5 DEF PoolAdd
  <2>2. pc'[c] = "up"
    <3>1. \/ pc' = [pc EXCEPT ![c] = "up", ![c + 1] = "session"]
          \/ pc' = [pc EXCEPT ![c] = "up"]
      BY <1>5 DEF PoolAdd
    <3>2. c # c + 1
      BY <1>0
    <3> QED BY <1>0, <3>1, <3>2
  <2>3. Shape(c)'
    <3>1. Partial(c)
      BY <1>0, <2>0, <2>1, AtStage, BuildingNames
    <3>2. own'[c] = tmp[c] /\ tmp'[c] = Nothing /\ serial'[c] = serial[c] /\ serial[c] \in Nat \ {0}
      BY <1>0, <2>1
    <3>3. \A k \in Kinds : own'[c][k] = serial[c]
      BY <1>0, <2>1, <3>1, <3>2 DEF Partial
    <3>4. own'[c]["block"] = serial[c]
      BY <3>3 DEF Kinds
    <3>5. own'[c]["block"] \in 1 .. serial'[c]
      BY <3>2, <3>4
    <3> QED BY <2>2, <3>2, <3>3, <3>5, NothingType, ReachOther
  <2>4. phase = "init" /\ c = size + 1
    BY <2>1, WhereBuilding, BuildingNames
  <2>5. ASSUME NEW d \in Conns \ {c} PROVE Shape(d)'
    <3>1. /\ Shape(d) /\ own'[d] = own[d] /\ tmp'[d] = tmp[d] /\ job'[d] = job[d]
          /\ serial'[d] = serial[d]
      BY <1>0, <2>1 DEF ShapeInv
    <3>2. CASE c + 1 \in Conns /\ d = c + 1
      <4>0. pc[d] = "none" /\ job[d] = "init"
        <5>1. d > size + 1
          BY <1>0, <2>4, <3>2
        <5> QED BY <2>4, <5>1 DEF PhaseInv
      <4>1. pc[d] = "none" /\ pc'[d] = "session" /\ job[d] = "init"
        BY <1>0, <1>5, <3>2, <4>0 DEF PoolAdd
      <4> QED BY <1>0, <3>1, <4>1, BuildingNames DEF Shape, Partial
    <3>3. CASE ~ (c + 1 \in Conns /\ d = c + 1)
      <4>1. pc'[d] = pc[d]
        BY <1>0, <1>5, <3>3 DEF PoolAdd
      <4> QED BY <3>1, <4>1, ShapeFrame
    <3> QED BY <3>2, <3>3
  <2> QED BY <1>0, <2>3, <2>5 DEF ShapeInv
<1>6. ASSUME NEW c \in Conns, PoolStop(c) PROVE ShapeInv'
  <2>0. Shape(c) /\ \A k \in Kinds : Held(c)[k] # 0 => k = "block"
    BY <1>6, AllFreed DEF ShapeInv, PoolStop
  <2>1. Shape(c)'
    BY <1>0, <1>6, <2>0, BuildingNames DEF PoolStop, Shape, Held
  <2>2. Others(c)
    BY <1>0, <1>6 DEF Others, PoolStop
  <2> QED BY <1>a, <2>1, <2>2
<1>7. ASSUME NEW c \in Conns, Reconnect(c) PROVE ShapeInv'
  <2>0. Shape(c)
    BY DEF ShapeInv
  <2>1. Shape(c)'
    <3>1. /\ pc'[c] = "teardown" /\ job'[c] = "reconnect" /\ own'[c] = own[c] /\ tmp'[c] = tmp[c]
          /\ serial'[c] = serial[c] /\ serial[c] \in Nat \ {0} /\ pc[c] \in {"up", "down"}
      BY <1>0, <1>7 DEF Reconnect
    <3>2. \A k \in Kinds : own[c][k] \in 0 .. serial[c]
      <4>1. /\ own[c]["block"] \in 1 .. serial[c]
            /\ \A k \in Kinds \ {"block"} : own[c][k] \in {0, serial[c]}
        BY <2>0, <3>1, AtOther
      <4> QED BY <3>1, <4>1
    <3> QED BY <2>0, <3>1, <3>2, AtOther, ReachOther
  <2>2. Others(c)
    BY <1>0, <1>7 DEF Others, Reconnect
  <2> QED BY <1>a, <2>1, <2>2
<1>8. ASSUME NEW c \in Conns, Rebuild(c) PROVE ShapeInv'
  <2>0. Shape(c) /\ \A k \in Kinds : Held(c)[k] # 0 => k = "block"
    BY <1>8, AllFreed DEF ShapeInv, Rebuild
  <2>1. /\ pc[c] = "teardown" /\ pc'[c] = "session" /\ job'[c] = job[c] /\ own'[c] = own[c]
        /\ tmp'[c] = tmp[c] /\ serial'[c] = serial[c] + 1
    BY <1>0, <1>8 DEF Rebuild, Start
  <2>2. Shape(c)'
    <3>1. \A k \in Kinds \ {"block"} : own[c][k] = 0
      BY <2>0, <2>1 DEF Held
    <3>2. /\ own[c]["block"] \in 1 .. serial[c] /\ job[c] = "reconnect"
          /\ \A k \in Kinds : tmp[c][k] = 0
      BY <2>0, <2>1, AtOther
    <3>3. own'[c]["block"] \in 1 .. serial'[c] - 1
      BY <1>0, <2>1, <3>2
    <3>4. Partial(c)'
      BY <1>0, <2>1, <3>2 DEF Partial
    <3> QED BY <2>1, <3>1, <3>2, <3>3, <3>4, ReachStage, BuildingNames
  <2>3. Others(c)
    BY <1>0, <1>8 DEF Others, Rebuild, Start
  <2> QED BY <1>a, <2>2, <2>3
<1>9. ASSUME NEW c \in Conns, AttemptFailed(c) PROVE ShapeInv'
  <2>0. /\ Shape(c) /\ pc[c] = "undo" /\ job[c] = "reconnect"
        /\ \A k \in Kinds : Held(c)[k] # 0 => k = "block"
    BY <1>9, AllFreed DEF ShapeInv, AttemptFailed
  <2>1. Others(c)
    BY <1>0, <1>9 DEF Others, AttemptFailed, Start
  <2>2. job'[c] = job[c] /\ own'[c] = own[c] /\ tmp'[c] = tmp[c]
    BY <1>9 DEF AttemptFailed
  <2>3. \/ pc'[c] = "session" /\ serial'[c] = serial[c] + 1
        \/ pc'[c] = "down" /\ serial'[c] = serial[c]
    BY <1>0, <1>9 DEF AttemptFailed, Start
  <2>6. \A k \in Kinds : tmp[c][k] = 0
    <3>1. tmp[c]["block"] = 0 /\ \A k \in Kinds : tmp[c][k] # 0 => k = "block"
      BY <2>0, AtStage, BuildingNames DEF Held
    <3> QED BY <3>1
  <2>7. /\ \A k \in Kinds \ {"block"} : own[c][k] = 0
        /\ own[c]["block"] \in 1 .. serial[c] - 1
    BY <2>0, AtStage, BuildingNames
  <2>4. CASE pc'[c] = "session" /\ serial'[c] = serial[c] + 1
    <3>1. Partial(c)'
      BY <1>0, <2>2, <2>4, <2>6 DEF Partial
    <3>2. own'[c]["block"] \in 1 .. serial'[c] - 1
      <4>1. own'[c]["block"] = own[c]["block"] /\ serial[c] \in Nat
        BY <1>0, <2>2
      <4> QED BY <2>4, <2>7, <4>1
    <3>3. Shape(c)'
      BY <2>0, <2>2, <2>4, <2>7, <3>1, <3>2, ReachStage, BuildingNames
    <3> QED BY <1>a, <2>1, <3>3
  <2>5. CASE pc'[c] = "down" /\ serial'[c] = serial[c]
    <3>1. own'[c]["block"] \in 1 .. serial'[c]
      BY <1>0, <2>2, <2>5, <2>7
    <3>2. Shape(c)'
      BY <2>2, <2>5, <2>6, <2>7, <3>1, ReachOther
    <3> QED BY <1>a, <2>1, <3>2
  <2> QED BY <2>3, <2>4, <2>5
<1>10. ASSUME NEW c \in Conns, Adopt(c) PROVE ShapeInv'
  <2>0. Shape(c)
    BY DEF ShapeInv
  <2>1. /\ pc[c] = "publish" /\ job[c] = "reconnect" /\ pc'[c] = "up"
        /\ own'[c] = [tmp[c] EXCEPT !["block"] = own[c]["block"]]
        /\ tmp'[c] = Nothing /\ UNCHANGED <<job, serial>>
    BY <1>0, <1>10 DEF Adopt
  <2>2. Shape(c)'
    <3>1. Partial(c) /\ own[c]["block"] \in 1 .. serial[c] - 1
      BY <2>0, <2>1, AtStage, BuildingNames
    <3>2. \A k \in Kinds \ {"block"} : own'[c][k] = serial'[c]
      <4>1. \A k \in Kinds : tmp[c][k] = serial[c]
        BY <2>1, <3>1 DEF Partial, Kinds
      <4>2. \A k \in Kinds \ {"block"} : own'[c][k] = tmp[c][k]
        BY <1>0, <2>1
      <4> QED BY <2>1, <4>1, <4>2
    <3>3. own'[c]["block"] \in 1 .. serial'[c]
      <4>1. own'[c]["block"] = own[c]["block"] /\ serial'[c] = serial[c] /\ serial[c] \in Nat
        BY <1>0, <2>1
      <4> QED BY <3>1, <4>1
    <3> QED BY <2>1, <3>2, <3>3, NothingType, ReachOther
  <2>3. Others(c)
    BY <1>0, <1>10 DEF Others, Adopt
  <2> QED BY <1>a, <2>2, <2>3
<1>11. ASSUME NEW c \in Conns, Freed(c) PROVE ShapeInv'
  <2>0. Shape(c) /\ \A k \in Kinds : Held(c)[k] = 0
    BY <1>11, AllFreed DEF ShapeInv, Freed
  <2>1. pc[c] = "free" /\ pc'[c] = "none" /\ UNCHANGED <<own, tmp, serial>>
    BY <1>0, <1>11 DEF Freed
  <2>2. Shape(c)'
    BY <1>0, <2>0, <2>1, BuildingNames DEF Shape, Held
  <2>3. ASSUME NEW d \in Conns \ {c} PROVE Shape(d)'
    <3>0. Shape(d)
      BY DEF ShapeInv
    <3>1. CASE c < size /\ d = c + 1
      <4>1. pc'[d] = "free"
        BY <1>0, <1>11, <3>1 DEF Freed
      <4>2. pc[d] \in {"up", "down"}
        <5>1. PICK f \in 1 .. size :
                /\ pc[f] = "free"
                /\ \A e \in Conns : /\ e < f \/ e > size => pc[e] = "none"
                                    /\ e > f /\ e <= size => pc[e] \in {"up", "down"}
          BY <2>1, OutsideBuilding DEF PhaseInv
        <5>2. f = c
          <6>1. f \in Nat /\ c \in Nat /\ (c < f \/ c = f \/ c > f) /\ (c <= size \/ c > size)
            BY <1>0
          <6>2. pc[c] = "free"
            BY <2>1
          <6>3. ~ (c < f \/ c > size) /\ ~ (c > f /\ c <= size)
            BY <5>1, <6>2
          <6> QED BY <6>1, <6>3
        <5> QED BY <1>0, <3>1, <5>1, <5>2
      <4> QED BY <2>1, <3>0, <4>1, <4>2, UpGoes
    <3>2. CASE ~ (c < size /\ d = c + 1)
      <4>1. pc'[d] = pc[d] /\ job'[d] = job[d]
        BY <1>0, <1>11, <3>2 DEF Freed
      <4> QED BY <2>1, <3>0, <4>1, ShapeFrame
    <3> QED BY <3>1, <3>2
  <2> QED BY <1>0, <2>2, <2>3 DEF ShapeInv
<1>12. ASSUME Finalize PROVE ShapeInv'
  <2>1. 1 \in Conns /\ pc[1] \in {"up", "down"} /\ Shape(1)
    BY <1>0, <1>12, CountType DEF Finalize, PhaseInv, ShapeInv, TypeInv
  <2>2. pc'[1] = "free" /\ UNCHANGED <<own, tmp, serial>>
    BY <1>0, <1>12, <2>1 DEF Finalize
  <2>3. Shape(1)'
    BY <2>1, <2>2, UpGoes
  <2>4. Others(1)
    BY <1>0, <1>12 DEF Others, Finalize
  <2> QED BY <1>a, <2>1, <2>3, <2>4
<1>13. ASSUME NEW c \in Conns, Refused(c) PROVE ShapeInv'
  BY <1>3, <1>13 DEF Refused
<1>14. ASSUME Rekey PROVE ShapeInv'
  BY <1>3, <1>14 DEF Rekey
<1>15. ASSUME UNCHANGED vars PROVE ShapeInv'
  BY <1>3, <1>15 DEF vars
<1> QED BY <1>1, <1>2, <1>4, <1>5, <1>6, <1>7, <1>8, <1>9, <1>10, <1>11, <1>12, <1>13, <1>14, <1>15
        DEF Next, Work, Build

\* The ledger entry by entry.
Entries ==
  \A c \in Conns, k \in Kinds, s \in Nat :
    <<c, k, s>> \in live <=> s # 0 /\ (s = own[c][k] \/ s = tmp[c][k])

\* Both readings of the ledger agree, in this state and in the next.
LEMMA LedgerEntries == TypeInv => (Ledger <=> Entries)
<1> SUFFICES ASSUME TypeInv PROVE Ledger <=> Entries OBVIOUS
<1> DEFINE L == {r \in Referenced : r[3] # 0}
<1>1. \A c \in Conns, k \in Kinds : own[c][k] \in Nat /\ tmp[c][k] \in Nat
  BY DEF TypeInv
<1>2. L \subseteq Conns \X Kinds \X Nat
  BY <1>1 DEF Referenced
<1>3. \A c \in Conns, k \in Kinds, s \in Nat :
         <<c, k, s>> \in L <=> s # 0 /\ (s = own[c][k] \/ s = tmp[c][k])
  BY DEF Referenced
<1>4. live \subseteq Conns \X Kinds \X Nat
  BY DEF TypeInv
<1>5. ASSUME Entries PROVE live = L
  <2> HIDE DEF L
  <2>1. \A r \in Conns \X Kinds \X Nat : r \in live <=> r \in L
    BY <1>3, <1>5 DEF Entries
  <2> QED BY <1>2, <1>4, <2>1
<1> QED BY <1>3, <1>5 DEF Ledger, Entries

LEMMA LedgerEntriesNext == TypeInv' => (Ledger' <=> Entries')
<1> SUFFICES ASSUME TypeInv' PROVE Ledger' <=> Entries' OBVIOUS
<1> DEFINE L == {r \in Referenced' : r[3] # 0}
<1>0. Conns' = Conns /\ Kinds' = Kinds
  BY DEF Conns, Kinds
<1>1. \A c \in Conns, k \in Kinds : own'[c][k] \in Nat /\ tmp'[c][k] \in Nat
  BY DEF TypeInv
<1>2. L \subseteq Conns \X Kinds \X Nat
  BY <1>1 DEF Referenced
<1>3. \A c \in Conns, k \in Kinds, s \in Nat :
         <<c, k, s>> \in L <=> s # 0 /\ (s = own'[c][k] \/ s = tmp'[c][k])
  BY DEF Referenced
<1>4. live' \subseteq Conns \X Kinds \X Nat
  BY DEF TypeInv
<1>5. ASSUME Entries' PROVE live' = L
  <2> HIDE DEF L
  <2>1. \A r \in Conns \X Kinds \X Nat : r \in live' <=> r \in L
    BY <1>3, <1>5 DEF Entries
  <2> QED BY <1>2, <1>4, <2>1
<1> QED BY <1>3, <1>5 DEF Ledger, Entries

\* An acquired resource was not held before; what is freed was held once.
LEMMA LedgerStep ==
  TypeInv /\ TypeInv' /\ ShapeInv /\ Ledger /\ [Next]_vars => Ledger'
<1> SUFFICES ASSUME TypeInv, ShapeInv, Entries, [Next]_vars PROVE Entries'
  BY LedgerEntries, LedgerEntriesNext
<1> USE DEF Goto, buildVars, retryVars, trustVars
<1>0. /\ own \in [Conns -> [Kinds -> Nat]] /\ tmp \in [Conns -> [Kinds -> Nat]]
      /\ serial \in [Conns -> Nat \ {0}]
  BY DEF TypeInv
<1>1. ASSUME UNCHANGED <<own, tmp, live>> PROVE Entries'
  BY <1>1 DEF Entries
\* What changes at one connection is judged there.
<1>2. ASSUME NEW c \in Conns,
             \A d \in Conns \ {c} : own'[d] = own[d] /\ tmp'[d] = tmp[d],
             \A d \in Conns \ {c}, k \in Kinds, s \in Nat :
               <<d, k, s>> \in live' <=> <<d, k, s>> \in live,
             \A k \in Kinds, s \in Nat :
               <<c, k, s>> \in live' <=> s # 0 /\ (s = own'[c][k] \/ s = tmp'[c][k])
      PROVE Entries'
  <2>1. Conns' = Conns /\ Kinds' = Kinds
    BY DEF Conns, Kinds
  <2>2. ASSUME NEW d \in Conns, NEW k \in Kinds, NEW s \in Nat
        PROVE  <<d, k, s>> \in live' <=> s # 0 /\ (s = own'[d][k] \/ s = tmp'[d][k])
    BY <1>2 DEF Entries
  <2> QED BY <2>1, <2>2 DEF Entries
<1>3. ASSUME NEW c \in Conns, Acquire(c) PROVE Entries'
  <2> DEFINE k0 == Acquired[pc[c]]
  <2>1. /\ pc[c] \in {"session", "tcp", "sftp", "channel", "block"}
        /\ tmp' = [tmp EXCEPT ![c][k0] = serial[c]]
        /\ live' = live \cup {<<c, k0, serial[c]>>} /\ own' = own
    BY <1>3, AcquiringNames DEF Acquire, Take
  <2>2. k0 \in Kinds
    BY <2>1, Acquires DEF Kinds
  <2>3. tmp[c][k0] = 0
    <3>1. Partial(c)
      BY <2>1, AtStage, BuildingNames DEF ShapeInv
    <3> QED BY <2>1, <3>1, Acquires DEF Partial
  <2> HIDE DEF k0
  <2>4. tmp'[c] = [tmp[c] EXCEPT ![k0] = serial[c]] /\ \A d \in Conns \ {c} : tmp'[d] = tmp[d]
    BY <1>0, <2>1
  <2>5. tmp'[c][k0] = serial[c] /\ \A k \in Kinds \ {k0} : tmp'[c][k] = tmp[c][k]
    BY <1>0, <2>2, <2>4
  <2>6. \A k \in Kinds, s \in Nat :
          <<c, k, s>> \in live' <=> s # 0 /\ (s = own'[c][k] \/ s = tmp'[c][k])
    BY <1>0, <2>1, <2>2, <2>3, <2>5 DEF Entries
  <2> QED BY <1>2, <2>1, <2>4, <2>6
<1>4. ASSUME NEW c \in Conns, Release(c) PROVE Entries'
  <2>1. PICK k0 \in ToFree(c) :
          /\ live' = live \ {<<c, k0, Held(c)[k0]>>}
          /\ IF pc[c] = "undo"
             THEN tmp' = [tmp EXCEPT ![c][k0] = 0] /\ UNCHANGED own
             ELSE own' = [own EXCEPT ![c][k0] = 0] /\ UNCHANGED tmp
    BY <1>4 DEF Release
  <2>2. k0 \in Kinds /\ (k0 = "block" => pc[c] = "free") /\ Shape(c)
    BY FreesInOrder DEF ShapeInv
  <2>3. CASE pc[c] = "undo"
    <3>1. tmp' = [tmp EXCEPT ![c][k0] = 0] /\ own' = own /\ Held(c) = tmp[c]
      BY <2>1, <2>3 DEF Held
    <3>2. own[c][k0] = 0
      BY <2>2, <2>3, AtStage, BuildingNames
    <3>3. tmp'[c] = [tmp[c] EXCEPT ![k0] = 0] /\ \A d \in Conns \ {c} : tmp'[d] = tmp[d]
      BY <1>0, <3>1
    <3>4. tmp'[c][k0] = 0 /\ \A k \in Kinds \ {k0} : tmp'[c][k] = tmp[c][k]
      BY <1>0, <2>2, <3>3
    <3>5. \A k \in Kinds, s \in Nat :
            <<c, k, s>> \in live' <=> s # 0 /\ (s = own'[c][k] \/ s = tmp'[c][k])
      BY <2>1, <2>2, <3>1, <3>2, <3>4 DEF Entries
    <3> QED BY <1>2, <2>1, <3>1, <3>3, <3>5
  <2>4. CASE pc[c] # "undo"
    <3>1. own' = [own EXCEPT ![c][k0] = 0] /\ tmp' = tmp /\ Held(c) = own[c]
      BY <2>1, <2>4 DEF Held
    <3>2. tmp[c][k0] = 0
      BY <1>4, <2>2, <2>4, AtOther DEF Release
    <3>3. own'[c] = [own[c] EXCEPT ![k0] = 0] /\ \A d \in Conns \ {c} : own'[d] = own[d]
      BY <1>0, <3>1
    <3>4. own'[c][k0] = 0 /\ \A k \in Kinds \ {k0} : own'[c][k] = own[c][k]
      BY <1>0, <2>2, <3>3
    <3>5. \A k \in Kinds, s \in Nat :
            <<c, k, s>> \in live' <=> s # 0 /\ (s = own'[c][k] \/ s = tmp'[c][k])
      BY <2>1, <2>2, <3>1, <3>2, <3>4 DEF Entries
    <3> QED BY <1>2, <2>1, <3>1, <3>3, <3>5
  <2> QED BY <2>3, <2>4
<1>5. ASSUME NEW c \in Conns, PoolAdd(c) PROVE Entries'
  <2>1. /\ own' = [own EXCEPT ![c] = tmp[c]] /\ tmp' = [tmp EXCEPT ![c] = Nothing]
        /\ live' = live /\ pc[c] = "publish" /\ job[c] = "init"
    BY <1>5 DEF PoolAdd
  <2>2. \A k \in Kinds : own[c][k] = 0
    BY <2>1, AtStage, BuildingNames DEF ShapeInv, Kinds
  <2>3. /\ own'[c] = tmp[c] /\ tmp'[c] = Nothing
        /\ \A d \in Conns \ {c} : own'[d] = own[d] /\ tmp'[d] = tmp[d]
    BY <1>0, <2>1
  <2>4. \A k \in Kinds, s \in Nat :
          <<c, k, s>> \in live' <=> s # 0 /\ (s = own'[c][k] \/ s = tmp'[c][k])
    BY <2>1, <2>2, <2>3, NothingType DEF Entries
  <2> QED BY <1>2, <2>1, <2>3, <2>4
<1>6. ASSUME NEW c \in Conns, Adopt(c) PROVE Entries'
  <2>1. /\ own' = [own EXCEPT ![c] = [tmp[c] EXCEPT !["block"] = own[c]["block"]]]
        /\ tmp' = [tmp EXCEPT ![c] = Nothing]
        /\ live' = live \ {<<c, "block", tmp[c]["block"]>>}
        /\ pc[c] = "publish" /\ job[c] = "reconnect"
    BY <1>6 DEF Adopt
  <2>2. /\ \A k \in Kinds \ {"block"} : own[c][k] = 0
        /\ own[c]["block"] \in 1 .. serial[c] - 1 /\ tmp[c]["block"] = serial[c]
    BY <2>1, AtStage, BuildingNames DEF ShapeInv, Partial
  <2>3. /\ own'[c] = [tmp[c] EXCEPT !["block"] = own[c]["block"]] /\ tmp'[c] = Nothing
        /\ \A d \in Conns \ {c} : own'[d] = own[d] /\ tmp'[d] = tmp[d]
    BY <1>0, <2>1
  <2>4. /\ own'[c]["block"] = own[c]["block"] /\ own[c]["block"] # tmp[c]["block"]
        /\ \A k \in Kinds \ {"block"} : own'[c][k] = tmp[c][k]
    BY <1>0, <2>2, <2>3 DEF Kinds
  <2>5. \A k \in Kinds, s \in Nat :
          <<c, k, s>> \in live' <=> s # 0 /\ (s = own'[c][k] \/ s = tmp'[c][k])
    BY <2>1, <2>2, <2>3, <2>4, NothingType DEF Entries
  <2> QED BY <1>2, <2>1, <2>3, <2>5
<1>7. ASSUME NEW c \in Conns,
             \/ Handshake(c) \/ Hostkey(c) \/ HostkeySkipped(c) \/ Pin(c) \/ Pass(c)
             \/ BuildFails(c) \/ Refused(c) \/ PoolStop(c) \/ Reconnect(c) \/ Rebuild(c)
             \/ AttemptFailed(c) \/ Freed(c)
      PROVE Entries'
  BY <1>1, <1>7 DEF Handshake, Hostkey, GoesOn, HostkeySkipped, Pin, Pass, BuildFails,
     Refused, PoolStop, Reconnect, Rebuild, AttemptFailed, Freed
<1>8. ASSUME Finalize \/ Rekey \/ UNCHANGED vars PROVE Entries'
  BY <1>1, <1>8 DEF Finalize, Rekey, vars
<1> QED BY <1>3, <1>4, <1>5, <1>6, <1>7, <1>8 DEF Next, Work, Build

\* No session gets past the host key check with another key of a type that
\* known_hosts had a key of, and no thread drops one of these from the file.
LEMMA PinStep ==
  TypeInv /\ PhaseInv /\ PinInv /\ PinnedKey /\ [Next]_vars => PinInv' /\ PinnedKey'
<1> SUFFICES ASSUME TypeInv, PhaseInv, PinInv, PinnedKey, [Next]_vars PROVE PinInv' /\ PinnedKey'
  OBVIOUS
<1> USE DEF Goto, buildVars, retryVars, trustVars
<1>0. /\ pc \in [Conns -> Points] /\ key \in [Conns -> Keys \cup {NoKey}] /\ NoKey \notin Keys
      /\ srvKey \in Keys /\ nh \in [Conns -> SUBSET Keys] /\ Conns' = Conns /\ size \in Nat
      /\ skipped \in BOOLEAN
  BY SessionAssumption DEF TypeInv, Conns, Keys
<1>a. "hostkey" \notin Checked /\ "pin" \notin Checked
  BY DEF Checked
<1> DEFINE Past == {"hostkey", "pin"} \cup Checked
\* What holds of the connections when known_hosts and what is pinned stay.
<1>1. ASSUME UNCHANGED <<known, key, nh, pinned, skipped>>,
             \A c \in Conns : \/ pc'[c] = pc[c] \/ pc'[c] \notin Past
                              \/ pc[c] \in Checked /\ pc'[c] \in Checked,
             phase' = "init" /\ size' = 0 => phase = "init" /\ size = 0
      PROVE PinInv' /\ PinnedKey'
  <2>1. \A c \in Conns : /\ pc'[c] \in Past => pc[c] \in Past
                         /\ pc'[c] = "pin" => pc[c] = "pin"
                         /\ pc'[c] \in Checked => pc[c] \in Checked
    BY <1>1, <1>a
  <2>2. \A c \in Conns : pc'[c] \in Past => key'[c] \in Keys
    BY <1>1, <2>1 DEF PinInv
  <2>3. ASSUME ~skipped', NEW c \in Conns, pc'[c] = "pin" PROVE Writes(c)'
    BY <1>1, <2>1, <2>3 DEF PinInv, Writes
  <2>4. ASSUME ~skipped', phase' = "init" /\ size' = 0 PROVE Alone'
    BY <1>0, <1>1, <2>1, <2>4 DEF PinInv, Alone
  <2>5. ~skipped' => TypesKept(known', pinned')
    BY <1>1 DEF PinInv
  <2>6. PinInv'
    BY <1>0, <2>2, <2>3, <2>4, <2>5 DEF PinInv
  <2>7. PinnedKey'
    BY <1>0, <1>1, <2>1 DEF PinnedKey
  <2> QED BY <2>6, <2>7
<1>2. ASSUME NEW c \in Conns, Acquire(c) \/ Pass(c) PROVE PinInv' /\ PinnedKey'
  <2>1. /\ pc[c] \in {"session", "tcp", "sftp", "channel", "block", "auth", "shell"}
        /\ pc' = [pc EXCEPT ![c] = After[pc[c]]]
        /\ UNCHANGED <<known, key, nh, pinned, skipped, phase, size>>
    BY <1>2, AcquiringNames DEF Acquire, Pass
  <2>2. \/ pc[c] \in Checked /\ After[pc[c]] \in Checked
        \/ After[pc[c]] \notin Past
    BY <2>1, Follows DEF Checked
  <2>3. pc'[c] = After[pc[c]] /\ \A d \in Conns \ {c} : pc'[d] = pc[d]
    BY <1>0, <2>1
  <2> QED BY <1>1, <2>1, <2>2, <2>3
<1>3. ASSUME NEW c \in Conns, Handshake(c) PROVE PinInv' /\ PinnedKey'
  <2>1. /\ key' = [key EXCEPT ![c] = srvKey] /\ pc' = [pc EXCEPT ![c] = "hostkey"]
        /\ UNCHANGED <<known, nh, pinned, skipped, phase, size>>
    BY <1>3 DEF Handshake
  <2>2. /\ \A d \in Conns \ {c} : pc'[d] = pc[d] /\ key'[d] = key[d]
        /\ pc'[c] = "hostkey" /\ key'[c] \in Keys
    BY <1>0, <2>1
  <2>3. ASSUME ~skipped', NEW d \in Conns, pc'[d] = "pin" PROVE Writes(d)'
    BY <1>a, <2>1, <2>2, <2>3 DEF PinInv, Writes
  <2>4. ASSUME ~skipped', phase' = "init" /\ size' = 0 PROVE Alone'
    BY <1>0, <1>a, <2>1, <2>2, <2>4 DEF PinInv, Alone
  <2>5. PinInv'
    BY <1>0, <2>1, <2>2, <2>3, <2>4 DEF PinInv
  <2>6. PinnedKey'
    BY <1>0, <1>a, <2>1, <2>2 DEF PinnedKey
  <2> QED BY <2>5, <2>6
<1>4. ASSUME NEW c \in Conns, Hostkey(c) PROVE PinInv' /\ PinnedKey'
  <2>1. PICK read \in SUBSET known :
          /\ Matches(key[c], read) \/ NotFound(key[c], read)
          /\ GoesOn(c, read)
    BY <1>4 DEF Hostkey
  <2>2. /\ pc[c] = "hostkey" /\ key[c] \in Keys
        /\ UNCHANGED <<known, key, pinned, phase, size>>
        /\ \A d \in Conns \ {c} : pc'[d] = pc[d] /\ nh'[d] = nh[d]
    BY <1>0, <1>4, <2>1 DEF Hostkey, GoesOn, PinInv
  <2>3. ~skipped' => ~skipped /\ read = known
    BY <1>0, <2>1 DEF GoesOn
  <2>4. \/ pc'[c] = "pin" /\ nh'[c] = read /\ OfType(key[c]) \cap read = {}
        \/ pc'[c] = "auth" /\ key[c] \in read
    BY <1>0, <2>1 DEF GoesOn, NotFound, Matches
  <2>5. \A d \in Conns : pc'[d] \in Past => key'[d] \in Keys
    BY <2>2 DEF PinInv
  <2>6. ASSUME ~skipped', NEW d \in Conns, pc'[d] = "pin" PROVE Writes(d)'
    <3>1. CASE d = c
      <4>1. pinned \subseteq known /\ TypesKept(known, pinned)
        BY <2>3, <2>6 DEF PinInv, PinnedKey
      <4>2. nh'[c] = known /\ OfType(key[c]) \cap known = {}
        BY <2>3, <2>4, <2>6, <3>1
      <4> QED BY <2>2, <3>1, <4>1, <4>2 DEF Writes
    <3>2. CASE d # c
      BY <2>2, <2>3, <2>6, <3>2 DEF PinInv, Writes
    <3> QED BY <3>1, <3>2
  <2>7. ASSUME ~skipped', phase' = "init" /\ size' = 0 PROVE Alone'
    BY <1>0, <1>a, <2>2, <2>3, <2>4, <2>7 DEF PinInv, Alone
  <2>8. PinInv'
    BY <1>0, <2>2, <2>3, <2>5, <2>6, <2>7 DEF PinInv
  <2>9. ASSUME ~skipped'
        PROVE  key[c] \in read => key[c] \in pinned \/ OfType(key[c]) \cap pinned = {}
    BY <2>3, <2>9 DEF PinInv, TypesKept
  <2>10. PinnedKey'
    BY <1>0, <1>a, <2>2, <2>3, <2>4, <2>9 DEF PinnedKey
  <2> QED BY <2>8, <2>10
<1>5. ASSUME NEW c \in Conns, HostkeySkipped(c) PROVE PinInv' /\ PinnedKey'
  <2>1. /\ pc' = [pc EXCEPT ![c] = "auth"] /\ pc[c] = "hostkey" /\ skipped'
        /\ UNCHANGED <<known, key, nh, pinned, phase, size>>
    BY <1>5 DEF HostkeySkipped
  <2>2. \A d \in Conns : pc'[d] \in Past => key'[d] \in Keys
    BY <1>0, <2>1 DEF PinInv
  <2> QED BY <1>0, <2>1, <2>2 DEF PinInv, PinnedKey
<1>6. ASSUME NEW c \in Conns, Pin(c) PROVE PinInv' /\ PinnedKey'
  <2>1. /\ pc' = [pc EXCEPT ![c] = "auth"] /\ pc[c] = "pin"
        /\ known' = IF saves THEN nh[c] \cup {key[c]} ELSE known
        /\ nh' = [nh EXCEPT ![c] = {}]
        /\ UNCHANGED <<key, pinned, skipped, phase, size>>
    BY <1>6 DEF Pin
  <2>2. /\ \A d \in Conns \ {c} : pc'[d] = pc[d] /\ nh'[d] = nh[d]
        /\ pc'[c] = "auth" /\ key[c] \in Keys
    BY <1>0, <2>1 DEF PinInv
  <2>3. \A d \in Conns : pc'[d] \in Past => key'[d] \in Keys
    BY <2>1, <2>2 DEF PinInv
  <2>4. ~skipped => /\ pinned \subseteq nh[c] /\ TypesKept(nh[c], pinned)
                    /\ OfType(key[c]) \cap nh[c] = {}
    BY <2>1 DEF PinInv, Writes
  <2>5. ~skipped => pinned \subseteq known' /\ TypesKept(known', pinned)
    BY <2>1, <2>4 DEF PinInv, PinnedKey, TypesKept
  <2>6. ASSUME ~skipped', NEW d \in Conns, pc'[d] = "pin" PROVE Writes(d)'
    <3>1. d # c
      BY <2>2, <2>6
    <3> QED BY <2>1, <2>2, <2>6, <3>1 DEF PinInv, Writes
  <2>7. ASSUME ~skipped', phase' = "init" /\ size' = 0 PROVE Alone'
    <3>1. phase = "init" /\ size = 0 /\ ~skipped
      BY <2>1, <2>7
    <3>2. \A d \in Conns : d # c => pc'[d] = "none"
      <4>1. c = size + 1
        BY <2>1, <3>1, WhereBuilding, BuildingNames
      <4> QED BY <1>0, <2>2, <3>1, <4>1, CountType DEF PhaseInv
    <3>3. key[c] \in known' \/ OfType(key[c]) \cap known' = {}
      BY <2>1, <2>4, <3>1 DEF PinInv, Alone
    <3>4. "none" \notin Checked
      BY DEF Checked
    <3> QED BY <1>0, <2>1, <2>2, <3>2, <3>3, <3>4 DEF Alone
  <2>8. PinInv'
    BY <1>0, <2>1, <2>3, <2>5, <2>6, <2>7 DEF PinInv
  <2>9. ~skipped => OfType(key[c]) \cap pinned = {}
    BY <2>4
  <2>10. PinnedKey'
    BY <1>0, <2>1, <2>2, <2>5, <2>9 DEF PinnedKey
  <2> QED BY <2>8, <2>10
<1>7. "publish" \in Checked /\ "up" \in Checked
  BY DEF Checked
<1>8. \A x \in {"session", "none", "down", "teardown", "free", "undo"} : x \notin Past
  BY DEF Checked
<1>9. ASSUME NEW c \in Conns, PoolAdd(c) PROVE PinInv' /\ PinnedKey'
  <2>1. /\ pc[c] = "publish" /\ UNCHANGED <<known, key, nh, skipped>> /\ size' = c /\ c # 0
        /\ pinned' = IF c = 1 THEN known ELSE pinned
    BY <1>9, CountType DEF PoolAdd
  <2>2. pc' = [pc EXCEPT ![c] = "up"] \/ pc' = [pc EXCEPT ![c] = "up", ![c + 1] = "session"]
    BY <1>9 DEF PoolAdd
  <2>3. pc'[c] = "up" /\ \A d \in Conns \ {c} : pc'[d] \in {pc[d], "session"}
    BY <1>0, <2>2
  <2>4. CASE pinned' = pinned
    <3>1. \A d \in Conns : \/ pc'[d] = pc[d] \/ pc'[d] \notin Past
                           \/ pc[d] \in Checked /\ pc'[d] \in Checked
      BY <1>7, <1>8, <2>1, <2>3
    <3> QED BY <1>1, <2>1, <2>4, <3>1
  <2>5. CASE c = 1
    <3>1. phase = "init" /\ size = 0
      BY <1>0, <1>9, <2>1, <2>5, WhereBuilding, BuildingNames DEF PoolAdd
    <3>2. \A d \in Conns \ {c} : pc'[d] \in {"none", "session"}
      BY <1>0, <2>3, <2>5, <3>1, CountType DEF PhaseInv
    <3>3. \A d \in Conns : pc'[d] \in Past => d = c
      BY <1>8, <3>2
    <3>4. key[c] \in Keys /\ (~skipped => key[c] \in known \/ OfType(key[c]) \cap known = {})
      BY <1>7, <2>1, <3>1 DEF PinInv, Alone
    <3>5. PinnedKey'
      BY <1>0, <2>1, <2>5, <3>3, <3>4 DEF PinnedKey
    <3>6. TypesKept(known', pinned')
      BY <2>1, <2>5 DEF TypesKept
    <3>7. \A d \in Conns : pc'[d] # "pin"
      BY <2>3, <3>2
    <3> QED BY <1>0, <2>1, <3>3, <3>4, <3>5, <3>6, <3>7 DEF PinInv
  <2> QED BY <2>1, <2>4, <2>5
<1>10. ASSUME NEW c \in Conns, Adopt(c) PROVE PinInv' /\ PinnedKey'
  <2>1. /\ pc[c] = "publish" /\ UNCHANGED <<known, key, nh, pinned, skipped, phase, size>>
        /\ pc' = [pc EXCEPT ![c] = "up"]
    BY <1>10 DEF Adopt
  <2>2. pc'[c] = "up" /\ \A d \in Conns \ {c} : pc'[d] = pc[d]
    BY <1>0, <2>1
  <2> QED BY <1>1, <1>7, <2>1, <2>2
<1>11. ASSUME UNCHANGED <<known, key, nh, pinned, skipped>>,
              \A d \in Conns :
                pc'[d] \in {pc[d], "session", "none", "down", "teardown", "free", "undo"},
              phase' = "init" /\ size' = 0 => phase = "init" /\ size = 0
       PROVE PinInv' /\ PinnedKey'
  BY <1>1, <1>8, <1>11
<1>12. ASSUME NEW c \in Conns,
              \/ BuildFails(c) \/ Refused(c) \/ Reconnect(c) \/ Rebuild(c) \/ Release(c)
              \/ AttemptFailed(c)
      PROVE PinInv' /\ PinnedKey'
  <2>1. UNCHANGED <<known, key, nh, pinned, skipped, phase, size>>
    BY <1>12 DEF BuildFails, Refused, Reconnect, Rebuild, Release, AttemptFailed
  <2>2. \A d \in Conns : pc'[d] \in {pc[d], "session", "none", "down", "teardown", "free", "undo"}
    BY <1>0, <1>12 DEF BuildFails, Refused, Reconnect, Rebuild, Release, AttemptFailed, Start
  <2> QED BY <1>11, <2>1, <2>2
<1>13. ASSUME NEW c \in Conns, PoolStop(c) \/ Freed(c) PROVE PinInv' /\ PinnedKey'
  <2>1. /\ \A d \in Conns : pc'[d] \in {pc[d], "none", "free"}
        /\ UNCHANGED <<known, key, nh, pinned, skipped>>
    BY <1>0, <1>13 DEF PoolStop, Freed
  <2>2. phase' # "init" \/ UNCHANGED <<phase, size>>
    BY <1>13 DEF PoolStop, Freed
  <2> QED BY <1>11, <2>1, <2>2
<1>14. ASSUME Finalize PROVE PinInv' /\ PinnedKey'
  <2>1. /\ \A d \in Conns : pc'[d] \in {pc[d], "free"}
        /\ UNCHANGED <<known, key, nh, pinned, skipped>> /\ phase' # "init"
    BY <1>0, <1>14 DEF Finalize
  <2> QED BY <1>11, <2>1
<1>15. ASSUME Rekey \/ UNCHANGED vars PROVE PinInv' /\ PinnedKey'
  <2>1. UNCHANGED <<phase, size, pc, known, key, nh, pinned, skipped>>
    BY <1>15 DEF Rekey, vars
  <2> QED BY <1>11, <2>1
<1> QED BY <1>2, <1>3, <1>4, <1>5, <1>6, <1>9, <1>10, <1>12, <1>13, <1>14, <1>15
        DEF Next, Work, Build

\* The doubled delays and their sums are what their equations say.
LEMMA DoubledDefined ==
  /\ doubled \in [0 .. ReconnectMax -> Nat] /\ doubled[0] = BaseMs
  /\ \A n \in 1 .. ReconnectMax : doubled[n] = 2 * doubled[n - 1]
<1> DEFINE F == [p \in Nat \X Nat |-> 2 * p[2]]
<1>1. F \in [Nat \X Nat -> Nat] /\ \A i \in Nat, x \in Nat : F[<<i, x>>] = 2 * x
  OBVIOUS
<1>2. ReconnectMax \in Nat \ {0} /\ BaseMs \in Nat
  BY SessionAssumption
<1>3. PICK f \in [0 .. ReconnectMax -> Nat] : Recurses(f, BaseMs, F, ReconnectMax)
  <2> HIDE DEF F
  <2> QED BY <1>1, <1>2, Recursion
<1> HIDE DEF F
<1>4. f = [n \in 0 .. ReconnectMax |-> IF n = 0 THEN BaseMs ELSE 2 * f[n - 1]]
  <2>1. \A n \in 0 .. ReconnectMax : n # 0 => f[n - 1] \in Nat /\ n \in Nat
    BY <1>2
  <2> QED BY <1>1, <1>3, <2>1 DEF Recurses
<1>5. doubled = [n \in 0 .. ReconnectMax |-> IF n = 0 THEN BaseMs ELSE 2 * doubled[n - 1]]
  BY <1>4 DEF doubled
<1> DEFINE P == {i \in Nat : i \in 0 .. ReconnectMax => doubled[i] \in Nat}
<1>6. 0 \in P
  BY <1>2, <1>5
<1>7. ASSUME NEW i \in P PROVE i + 1 \in P
  <2>0. i \in Nat
    OBVIOUS
  <2> SUFFICES ASSUME i + 1 \in 0 .. ReconnectMax PROVE doubled[i + 1] \in Nat
    BY <2>0
  <2>1. i \in 0 .. ReconnectMax /\ doubled[i] \in Nat
    BY <1>2, <2>0
  <2> HIDE DEF P
  <2>2. i + 1 \in 0 .. ReconnectMax /\ i + 1 # 0 /\ (i + 1) - 1 = i
    BY <2>0
  <2> QED BY <1>5, <2>1, <2>2
<1>8. P \in SUBSET Nat
  OBVIOUS
<1>9. \A n \in 0 .. ReconnectMax : doubled[n] \in Nat
  <2> HIDE DEF P
  <2>1. P = Nat
    BY <1>6, <1>7, <1>8, Induction
  <2> QED BY <1>2, <2>1 DEF P
<1>10. doubled \in [0 .. ReconnectMax -> Nat]
  BY <1>5, <1>9
<1> QED BY <1>2, <1>5, <1>10

LEMMA AsleepDefined ==
  /\ asleep \in [0 .. ReconnectMax -> Nat] /\ asleep[0] = 0
  /\ \A n \in 1 .. ReconnectMax :
       asleep[n] = asleep[n - 1] + (IF doubled[n - 1] > CapMs THEN CapMs ELSE doubled[n - 1])
<1> DEFINE Top(n) == IF doubled[n - 1] > CapMs THEN CapMs ELSE doubled[n - 1]
           F == [p \in Nat \X Nat |-> p[2] + (IF p[1] \in 1 .. ReconnectMax THEN Top(p[1]) ELSE 0)]
<1>0. ReconnectMax \in Nat \ {0} /\ CapMs \in Nat
  BY SessionAssumption
<1>1. \A n \in 1 .. ReconnectMax : Top(n) \in Nat
  BY <1>0, DoubledDefined
<1> HIDE DEF Top
<1>2. F \in [Nat \X Nat -> Nat] /\ \A n \in 1 .. ReconnectMax, x \in Nat : F[<<n, x>>] = x + Top(n)
  BY <1>0, <1>1
<1>3. PICK f \in [0 .. ReconnectMax -> Nat] : Recurses(f, 0, F, ReconnectMax)
  <2> HIDE DEF F
  <2> QED BY <1>0, <1>2, Recursion
<1> HIDE DEF F
<1>4. f = [n \in 0 .. ReconnectMax |-> IF n = 0 THEN 0 ELSE f[n - 1] + Top(n)]
  <2>1. \A n \in 0 .. ReconnectMax : n # 0 => f[n - 1] \in Nat /\ n \in 1 .. ReconnectMax
    BY <1>0
  <2> QED BY <1>2, <1>3, <2>1 DEF Recurses
<1>5. asleep = [n \in 0 .. ReconnectMax |-> IF n = 0 THEN 0 ELSE asleep[n - 1] + Top(n)]
  BY <1>4 DEF asleep, Top
<1> DEFINE P == {i \in Nat : i \in 0 .. ReconnectMax => asleep[i] \in Nat}
<1>6. 0 \in P
  BY <1>0, <1>5
<1>7. ASSUME NEW i \in P PROVE i + 1 \in P
  <2>0. i \in Nat
    OBVIOUS
  <2> SUFFICES ASSUME i + 1 \in 0 .. ReconnectMax PROVE asleep[i + 1] \in Nat
    BY <2>0
  <2>1. i \in 0 .. ReconnectMax /\ asleep[i] \in Nat
    BY <1>0, <2>0
  <2> HIDE DEF P
  <2>2. i + 1 \in 1 .. ReconnectMax /\ i + 1 \in 0 .. ReconnectMax /\ i + 1 # 0 /\ (i + 1) - 1 = i
    BY <2>0
  <2>3. Top(i + 1) \in Nat
    BY <1>1, <2>2
  <2>4. asleep[i + 1] = asleep[i] + Top(i + 1)
    BY <1>5, <2>2
  <2> QED BY <2>1, <2>3, <2>4
<1>8. P \in SUBSET Nat
  OBVIOUS
<1>9. \A n \in 0 .. ReconnectMax : asleep[n] \in Nat
  <2> HIDE DEF P
  <2>1. P = Nat
    BY <1>6, <1>7, <1>8, Induction
  <2> QED BY <1>0, <2>1 DEF P
<1>10. asleep \in [0 .. ReconnectMax -> Nat]
  BY <1>5, <1>9
<1> QED BY <1>0, <1>5, <1>10 DEF Top

\* Each sleep stays under the term that its attempt adds to the sum.
LEMMA SleepStep == TypeInv /\ SleepBounded /\ [Next]_vars => SleepBounded'
<1> SUFFICES ASSUME TypeInv, SleepBounded, [Next]_vars PROVE SleepBounded' OBVIOUS
<1> USE DEF Goto, buildVars, retryVars, trustVars
<1>0. /\ slept \in [Conns -> Nat] /\ attempt \in [Conns -> 0 .. ReconnectMax - 1] /\ Conns' = Conns
      /\ ReconnectMax \in Nat \ {0} /\ BaseMs \in Nat /\ CapMs \in Nat /\ Ticks \subseteq Nat
  BY SessionAssumption DEF TypeInv, Conns
<1>1. ASSUME UNCHANGED <<slept, attempt>> PROVE SleepBounded'
  BY <1>0, <1>1 DEF SleepBounded
<1>2. ASSUME NEW c \in Conns, Reconnect(c) PROVE SleepBounded'
  <2>1. slept' = [slept EXCEPT ![c] = 0] /\ attempt' = [attempt EXCEPT ![c] = 0]
    BY <1>2 DEF Reconnect
  <2> QED BY <1>0, <2>1, AsleepDefined DEF SleepBounded
<1>3. ASSUME NEW c \in Conns, AttemptFailed(c) PROVE SleepBounded'
  <2>1. CASE attempt[c] + 1 < ReconnectMax
    <3>1. PICK rnd \in Ticks :
            slept' = [slept EXCEPT ![c] = @ + backoff_ms(attempt[c], BaseMs, CapMs, rnd)]
      BY <1>3, <2>1 DEF AttemptFailed
    <3>2. attempt' = [attempt EXCEPT ![c] = @ + 1]
      BY <1>3, <2>1 DEF AttemptFailed
    <3> DEFINE n == attempt[c]  b == backoff_ms(n, BaseMs, CapMs, rnd)
               d == [i \in 0 .. n |-> doubled[i]]
    <3>3. n \in Nat /\ n + 1 \in 1 .. ReconnectMax /\ 0 .. n \subseteq 0 .. ReconnectMax
      BY <1>0
    <3>4. d \in [0 .. n -> Nat] /\ d[0] = BaseMs /\ d[n] = doubled[n]
      BY <3>3, DoubledDefined
    <3>5. \A i \in 1 .. n : d[i] = 2 * d[i - 1]
      BY <3>3, DoubledDefined
    <3> HIDE DEF n, d
    <3>6. b \in 0 .. CapMs /\ b <= doubled[n] /\ doubled[n] \in Nat
      <4>1. rnd \in Nat
        BY <1>0
      <4>2. b \in 0 .. CapMs /\ b <= d[n]
        BY <1>0, <3>3, <3>4, <3>5, <4>1, BackoffBounded
      <4> QED BY <3>3, <3>4, <4>2, DoubledDefined
    <3> HIDE DEF b
    <3>7. asleep[n + 1] = asleep[n] + (IF doubled[n] > CapMs THEN CapMs ELSE doubled[n])
      BY <3>3, AsleepDefined
    <3>8. asleep[n] \in Nat /\ slept[c] \in Nat /\ slept[c] <= asleep[n]
      BY <1>0, <3>3, AsleepDefined DEF SleepBounded, n
    <3>9. slept[c] + b <= asleep[n + 1]
      BY <1>0, <3>6, <3>7, <3>8
    <3>10. slept'[c] = slept[c] + b /\ attempt'[c] = n + 1
      BY <1>0, <3>1, <3>2 DEF n, b
    <3>11. \A e \in Conns \ {c} : slept'[e] = slept[e] /\ attempt'[e] = attempt[e]
      BY <1>0, <3>1, <3>2
    <3> QED BY <1>0, <3>9, <3>10, <3>11 DEF SleepBounded
  <2>2. CASE ~ (attempt[c] + 1 < ReconnectMax)
    BY <1>1, <1>3, <2>2 DEF AttemptFailed
  <2> QED BY <2>1, <2>2
<1>4. ASSUME NEW c \in Conns,
             \/ Handshake(c) \/ Hostkey(c) \/ HostkeySkipped(c) \/ Pin(c) \/ Pass(c) \/ Acquire(c)
             \/ BuildFails(c) \/ Refused(c) \/ PoolAdd(c) \/ PoolStop(c) \/ Rebuild(c)
             \/ Adopt(c) \/ Freed(c) \/ Release(c)
      PROVE SleepBounded'
  BY <1>1, <1>4 DEF Handshake, Hostkey, GoesOn, HostkeySkipped, Pin, Pass, Acquire, BuildFails,
     Refused, PoolAdd, PoolStop, Rebuild, Adopt, Freed, Release
<1>5. ASSUME Finalize \/ Rekey \/ UNCHANGED vars PROVE SleepBounded'
  BY <1>1, <1>5 DEF Finalize, Rekey, vars
<1> QED BY <1>2, <1>3, <1>4, <1>5 DEF Next, Work, Build

\* The invariant holds at the start, is kept, and so always holds.
LEMMA Begins == Init => IInv /\ SleepBounded
<1> SUFFICES ASSUME Init PROVE IInv /\ SleepBounded OBVIOUS
<1>1. TypeInv
  BY TypeInit
<1>2. PhaseInv
  BY CountType, BuildingNames DEF Init, PhaseInv
<1>3. \A c \in Conns : \A k \in Kinds : own[c][k] = 0 /\ tmp[c][k] = 0
  BY NothingType DEF Init
<1>4. ShapeInv
  BY <1>3, BuildingNames DEF Init, ShapeInv, Shape, Partial, Kinds
<1>5. Ledger
  BY <1>1, <1>3, LedgerEntries DEF Init, Entries
<1>6. PinInv
  BY DEF Init, PinInv, Alone, TypesKept, Checked
<1>7. PinnedKey
  BY DEF Init, PinnedKey, Checked
<1>8. SleepBounded
  BY AsleepDefined, SessionAssumption DEF Init, SleepBounded
<1> QED BY <1>1, <1>2, <1>4, <1>5, <1>6, <1>7, <1>8 DEF IInv

LEMMA Keeps == IInv /\ [Next]_vars => IInv'
  BY TypeStep, PhaseStep, ShapeStep, LedgerStep, PinStep DEF IInv

LEMMA Holds == Spec => []IInv
  BY Begins, Keeps, PTL DEF Spec

\* Every variable keeps its type, whatever the size of the pool.
THEOREM TypeCorrect == Spec => []TypeInv
<1>1. IInv => TypeInv
  BY DEF IInv
<1> QED BY <1>1, Holds, PTL

\* gd_init_ssh's fail label, gd_reconnect and gd_pool_free together leak
\* nothing and keep no reference to what they freed.
THEOREM LedgerBalances == Spec => []Ledger
<1>1. IInv => Ledger
  BY DEF IInv
<1> QED BY <1>1, Holds, PTL

\* A connection outside gd_reconnect is complete, all of one build, or down.
THEOREM Whole == Spec => []WholeOrDown
<1>1. IInv => WholeOrDown
  <2> SUFFICES ASSUME IInv, NEW c \in Conns
               PROVE  /\ pc[c] = "up" => /\ \A k \in Kinds : own[c][k] # 0
                                         /\ \A k \in Kinds \ {"block"} : own[c][k] = serial[c]
                      /\ pc[c] = "down" => \A k \in Kinds : own[c][k] # 0 <=> k = "block"
    BY DEF WholeOrDown
  <2>1. Shape(c) /\ serial[c] \in Nat \ {0}
    BY DEF IInv, ShapeInv, TypeInv
  <2>2. ASSUME pc[c] = "up"
        PROVE  own[c]["block"] # 0 /\ \A k \in Kinds \ {"block"} : own[c][k] = serial[c]
    BY <2>1, <2>2, AtOther
  <2>3. ASSUME pc[c] = "down"
        PROVE  own[c]["block"] # 0 /\ \A k \in Kinds \ {"block"} : own[c][k] = 0
    BY <2>1, <2>3, AtOther
  <2> QED BY <2>1, <2>2, <2>3
<1> QED BY <1>1, Holds, PTL

\* When main is through with the pool nothing is allocated.
THEOREM NothingLost == Spec => []NothingLeft
<1>1. IInv => NothingLeft
  <2> SUFFICES ASSUME IInv, phase = "exit" PROVE live = {} BY DEF NothingLeft
  <2>1. \A c \in Conns : pc[c] = "none" /\ Shape(c)
    BY DEF IInv, PhaseInv, ShapeInv
  <2>2. \A c \in Conns, k \in Kinds : own[c][k] = 0 /\ tmp[c][k] = 0
    BY <2>1, AtOther
  <2> QED BY <2>2 DEF IInv, Ledger, Referenced
<1> QED BY <1>1, Holds, PTL

\* gd_init_ssh's host key check: known_hosts keeps the keys it had when the pool
\* got its first session, in any pool, and every session in use has one of them
\* if there is one of its key's type.
THEOREM KeyPinned == Spec => []PinnedKey
<1>1. IInv => PinnedKey
  BY DEF IInv
<1> QED BY <1>1, Holds, PTL

\* gd_reconnect sleeps at most the sum of the capped, doubling delays, for
\* any number of attempts, any base, any cap and any tick count.
THEOREM SleepsBounded == Spec => []SleepBounded
<1>1. IInv => TypeInv
  BY DEF IInv
<1> QED BY <1>1, Begins, SleepStep, Holds, PTL DEF Spec

\* gd_init_ssh, gd_reconnect and gd_conn_free free channel and SFTP before
\* the session and the session before its socket.
THEOREM FreesOrdered == Spec => FreedInOrder
<1> DEFINE InOrder ==
      \A r \in live \ live' :
        /\ r[2] = "ssh" => \A k \in {"channel", "sftp"} : <<r[1], k, r[3]>> \notin live
        /\ r[2] = "sock" => <<r[1], "ssh", r[3]>> \notin live
<1>1. ASSUME IInv, [Next]_vars PROVE [InOrder]_vars
  <2>0. TypeInv /\ ShapeInv /\ Entries
    BY <1>1, LedgerEntries DEF IInv
  <2>1. ASSUME NEW c \in Conns, Release(c) PROVE InOrder
    <3>1. PICK k0 \in ToFree(c) : live' = live \ {<<c, k0, Held(c)[k0]>>}
      BY <2>1 DEF Release
    <3>2. /\ k0 \in Kinds /\ Held(c)[k0] # 0 /\ Shape(c)
          /\ k0 = "ssh" => Held(c)["channel"] = 0 /\ Held(c)["sftp"] = 0
          /\ k0 = "sock" => Held(c)["ssh"] = 0
      BY <2>0, FreesInOrder DEF ShapeInv
    <3>3. pc[c] = "undo" => Held(c) = tmp[c] /\ \A k \in Kinds \ {"block"} : own[c][k] = 0
      BY <3>2, AtStage, BuildingNames DEF Held
    <3>4. pc[c] # "undo" => Held(c) = own[c] /\ \A k \in Kinds \ {"block"} : tmp[c][k] = 0
      BY <2>1, <3>2, AtOther DEF Held, Release
    <3>5. \A k \in Kinds \ {"block"}, s \in Nat : Held(c)[k] = 0 => <<c, k, s>> \notin live
      BY <2>0, <3>3, <3>4 DEF Entries
    <3>6. Held(c)[k0] \in Nat
      BY <2>0, <3>2 DEF Held, TypeInv
    <3>7. k0 = "ssh" => \A k \in {"channel", "sftp"} : <<c, k, Held(c)[k0]>> \notin live
      BY <3>2, <3>5, <3>6 DEF Kinds
    <3>8. k0 = "sock" => <<c, "ssh", Held(c)[k0]>> \notin live
      BY <3>2, <3>5, <3>6 DEF Kinds
    <3>9. ASSUME NEW r \in live \ live' PROVE r = <<c, k0, Held(c)[k0]>>
      BY <3>1
    <3> QED BY <3>7, <3>8, <3>9
  <2>2. ASSUME NEW c \in Conns, Adopt(c) PROVE InOrder
    <3>1. \A r \in live \ live' : r = <<c, "block", tmp[c]["block"]>>
      BY <2>2 DEF Adopt
    <3> QED BY <3>1
  <2>3. ASSUME live \subseteq live' PROVE InOrder
    BY <2>3
  <2>4. ASSUME NEW c \in Conns,
               \/ Acquire(c) \/ Handshake(c) \/ Hostkey(c) \/ HostkeySkipped(c) \/ Pin(c) \/ Pass(c)
               \/ BuildFails(c) \/ Refused(c) \/ PoolAdd(c) \/ PoolStop(c) \/ Reconnect(c)
               \/ Rebuild(c) \/ AttemptFailed(c) \/ Freed(c)
        PROVE live \subseteq live'
    BY <2>4 DEF Acquire, Take, Handshake, Hostkey, GoesOn, HostkeySkipped, Pin, Pass,
       BuildFails, Refused, PoolAdd, PoolStop, Reconnect, Rebuild, AttemptFailed, Freed, Start,
       buildVars
  <2>5. ASSUME Finalize \/ Rekey PROVE live \subseteq live'
    BY <2>5 DEF Finalize, Rekey, buildVars
  <2> QED BY <1>1, <2>1, <2>2, <2>3, <2>4, <2>5 DEF Next, Work, Build
<1> QED BY <1>1, Holds, PTL DEF FreedInOrder, Spec
=============================================================================
