------------------------------ MODULE GdShared ------------------------------
(***************************************************************************)
(* What callback threads share without a connection lock: the round-robin  *)
(* counter gd_pool_pick moves (pool.c, parse.c) and the inode cache that   *)
(* gd_stat consults after it gave its connection back (gd.c, cache.c).     *)
(***************************************************************************)
EXTENDS Integers, FiniteSets, FiniteSetsExt

CONSTANTS
  Threads,    \* WinFsp dispatcher threads
  Paths,      \* paths a stat is asked for
  PoolSizes,  \* sizes the pool may have been built with
  LongMax,    \* LONG_MAX, of the C long that counts picks
  MaxPicks,   \* bounds the picks
  MaxExpiries,\* bounds the times an entry outlives CACHE_INODE_TTL
  NoPath

ASSUME SharedAssumption ==
  /\ IsFiniteSet(Threads) /\ Threads # {} /\ IsFiniteSet(Paths) /\ NoPath \notin Paths
  /\ PoolSizes \subseteq Nat /\ IsFiniteSet(PoolSizes)
  /\ LongMax \in Nat /\ MaxPicks \in Nat /\ MaxExpiries \in Nat

VARIABLES
  size,      \* g_pool.size
  rr,        \* g_pool.rr
  picks,     \* slot |-> times it was picked
  wraps,     \* times the counter passed from LONG_MAX to LONG_MIN
  entries,   \* path |-> entries of g_cache_inode_ht under that key
  fresh,     \* paths whose entry has not expired
  missed,    \* thread |-> the path gd_stat missed and is about to add
  leaked,    \* CACHE_INODE blocks nobody points to
  expiries

poolVars  == <<size, rr, picks, wraps>>
cacheVars == <<entries, fresh, missed, leaked, expiries>>
sharedVars == <<poolVars, cacheVars>>

Slots == UNION {-n .. n : n \in PoolSizes \cup {1}}

SharedInit ==
  /\ size \in PoolSizes
  /\ rr = 0 /\ picks = [s \in Slots |-> 0] /\ wraps = 0
  /\ entries = [p \in Paths |-> 0] /\ fresh = {}
  /\ missed = [t \in Threads |-> NoPath]
  /\ leaked = 0 /\ expiries = 0

-----------------------------------------------------------------------------
(***************************************************************************)
(* Round robin                                                             *)
(***************************************************************************)

LongMin == -LongMax - 1

\* A C long after an addition or a subtraction that left its range by one.
Wrap(n) == IF n > LongMax THEN LongMin ELSE IF n < LongMin THEN LongMax ELSE n

\* The remainder C computes: it takes the sign of the dividend.
Rem(a, b) == IF a >= 0 THEN a % b ELSE -((-a) % b)

\* Seeded fault: the negative remainder is not mapped back.
rr_index_signed(counter, n) == IF n <= 0 THEN 0 ELSE Rem(Wrap(counter - 1), n)

rr_index(counter, n) ==
  LET m == Rem(Wrap(counter - 1), n) IN
  IF n <= 0 THEN 0 ELSE IF m < 0 THEN m + n ELSE m

Picked == FoldSet(LAMBDA s, sum : picks[s] + sum, 0, Slots)

\* gd_pool_pick; InterlockedIncrement makes the counter's step atomic.
Pick ==
  LET n    == Wrap(rr + 1)
      slot == IF size <= 1 THEN 0 ELSE rr_index(n, size)
  IN
  /\ Picked < MaxPicks  \* bound
  /\ picks' = [picks EXCEPT ![slot] = @ + 1]
  /\ IF size <= 1 THEN UNCHANGED <<rr, wraps>>
                  ELSE rr' = n /\ wraps' = IF n < rr THEN wraps + 1 ELSE wraps
  /\ UNCHANGED <<size, cacheVars>>

-----------------------------------------------------------------------------
(***************************************************************************)
(* The inode cache: two critical sections of g_cache_inode_lock            *)
(***************************************************************************)

\* cache_inode_find: an entry, unless there is none or it expired.
Hit(p) == entries[p] > 0 /\ p \in fresh

cache_inode_find(t, p) ==
  /\ missed[t] = NoPath /\ ~Hit(p)
  /\ missed' = [missed EXCEPT ![t] = p]
  /\ UNCHANGED <<poolVars, entries, fresh, leaked, expiries>>

\* Seeded fault: the table is not searched again before the block goes in.
cache_inode_add_blind(t) ==
  LET p == missed[t] IN
  /\ p # NoPath
  /\ entries' = [entries EXCEPT ![p] = @ + 1]
  /\ fresh' = fresh \cup {p}
  /\ missed' = [missed EXCEPT ![t] = NoPath]
  /\ UNCHANGED <<poolVars, leaked, expiries>>

\* The block becomes the entry, or refreshes the entry that is there; then
\* gd_stat drops the only pointer to it.
cache_inode_add(t) ==
  LET p == missed[t] IN
  /\ p # NoPath
  /\ IF entries[p] = 0
     THEN entries' = [entries EXCEPT ![p] = 1] /\ UNCHANGED leaked
     ELSE leaked' = leaked + 1 /\ UNCHANGED entries
  /\ fresh' = fresh \cup {p}
  /\ missed' = [missed EXCEPT ![t] = NoPath]
  /\ UNCHANGED <<poolVars, expiries>>

\* malloc fails: gd_stat reports no inode number and caches nothing.
NoMemory(t) ==
  /\ missed[t] # NoPath
  /\ missed' = [missed EXCEPT ![t] = NoPath]
  /\ UNCHANGED <<poolVars, entries, fresh, leaked, expiries>>

\* time_mu passes an entry's expiry.
Expire(p) ==
  /\ expiries < MaxExpiries /\ p \in fresh
  /\ fresh' = fresh \ {p} /\ expiries' = expiries + 1
  /\ UNCHANGED <<poolVars, entries, missed, leaked>>

-----------------------------------------------------------------------------
SharedNext ==
  \/ Pick
  \/ \E t \in Threads :
       \/ \E p \in Paths : cache_inode_find(t, p)
       \/ cache_inode_add(t)
       \/ NoMemory(t)
  \/ \E p \in Paths : Expire(p)

SharedSpec == SharedInit /\ [][SharedNext]_sharedVars

-----------------------------------------------------------------------------
(***************************************************************************)
(* Properties                                                              *)
(***************************************************************************)

\* Every pick is a connection of the pool, and no connection is picked more
\* than once oftener than another, but for one slip each time the counter
\* overflows, whatever its sign (parse.h: rr_index over `size` slots).
PicksSpread ==
  LET conns == 0 .. size - 1 IN
  /\ \A s \in Slots : picks[s] > 0 => s \in conns \cup {0}
  /\ \A i, j \in conns : picks[i] <= picks[j] + 1 + wraps

\* Threads that miss on the same path at once leave one entry: cache_inode_add
\* looks again under the lock, so the table never holds a key twice.  gd_stat
\* loses a block when somebody else added the path first or the entry had
\* expired, and no more than one block for each such thread and expiry.
OneEntry ==
  /\ \A p \in Paths : entries[p] <= 1
  /\ leaked <= (Cardinality(Threads) - 1) * Cardinality(Paths)
                + Cardinality(Threads) * expiries

-----------------------------------------------------------------------------
(***************************************************************************)
(* The inductive invariant                                                 *)
(***************************************************************************)

SharedTypeOK ==
  /\ size \in PoolSizes
  /\ rr \in LongMin .. LongMax /\ picks \in [Slots -> Nat] /\ wraps \in Nat
  /\ entries \in [Paths -> 0 .. 1] /\ fresh \in SUBSET Paths
  /\ missed \in [Threads -> Paths \cup {NoPath}]
  /\ leaked \in Nat /\ expiries \in Nat
  /\ \A p \in fresh : entries[p] = 1

\* The slot the next pick takes.
NextSlot == rr_index(Wrap(rr + 1), size)

\* The slots between first and the next one, round the pool: those that a lap
\* of the counter which began at first has picked once more than the others.
Extra(first) ==
  {s \in 0 .. size - 1 : IF first <= NextSlot THEN first <= s /\ s < NextSlot
                                              ELSE first <= s \/ s < NextSlot}

Ahead(first, s) == IF s \in Extra(first) THEN 1 ELSE 0

LapsEven ==
  /\ \A s \in Slots : picks[s] > 0 => s \in (0 .. size - 1) \cup {0}
  /\ size > 1 =>
       \E first \in 0 .. size - 1 : \A i, j \in 0 .. size - 1 :
         picks[i] + Ahead(first, j) <= picks[j] + Ahead(first, i) + wraps

\* The threads that may still lose a block on a path somebody cached: the ones
\* that missed on it and, once it expired, any.
Debts ==
  {d \in Threads \X Paths :
     entries[d[2]] = 1 /\ (missed[d[1]] = d[2] \/ d[2] \notin fresh)}

Cached == {p \in Paths : entries[p] = 1}

LeaksCounted ==
  leaked + Cardinality(Debts) <= (Cardinality(Threads) - 1) * Cardinality(Cached)
                                  + Cardinality(Threads) * expiries

=============================================================================
