------------------------------- MODULE GdLink -------------------------------
(***************************************************************************)
(* The intrusive doubly linked list behind a connection's handle registry  *)
(* (gd_link of parse.c), as gd_open, gd_close and gd_reconnect of gd.c use *)
(* it under the connection lock.  A GDHANDLE block comes from malloc and   *)
(* goes back with free: outside its life its link fields hold anything.    *)
(***************************************************************************)
EXTENDS Naturals, FiniteSets

CONSTANTS
  Blocks,   \* addresses malloc returns
  Nil,      \* the null pointer
  Garbage   \* what the fields of memory nobody owns may hold

ASSUME LinkAssumption ==
  IsFiniteSet(Blocks) /\ Nil \notin Blocks /\ Garbage \subseteq Blocks \cup {Nil}

VARIABLES
  head,     \* c->handles
  next,     \* block |-> link.next
  prev,     \* block |-> link.prev
  owned     \* blocks gd_open allocated and gd_close has not freed

vars == <<head, next, prev, owned>>

Pointers == Blocks \cup {Nil}

Init ==
  /\ head = Nil
  /\ next \in [Blocks -> Garbage] /\ prev \in [Blocks -> Garbage]
  /\ owned = {}

-----------------------------------------------------------------------------
(***************************************************************************)
(* The list operations                                                     *)
(***************************************************************************)

\* Seeded fault: the old head keeps no way back.
gd_link_add_forward(n) ==
  /\ next' = [next EXCEPT ![n] = head]
  /\ prev' = [prev EXCEPT ![n] = Nil]
  /\ head' = n

gd_link_add(n) ==
  /\ next' = [next EXCEPT ![n] = head]
  /\ prev' = [b \in Blocks |-> IF b = n THEN Nil
                               ELSE IF b = head THEN n ELSE prev[b]]
  /\ head' = n

\* The test gd_link_remove begins with: a neighbour, or the head.
IsLinked(n) == prev[n] # Nil \/ next[n] # Nil \/ head = n

gd_link_remove(n) ==
  IF IsLinked(n)
  THEN /\ next' = [b \in Blocks |-> IF b = n THEN Nil
                                    ELSE IF b = prev[n] THEN next[n] ELSE next[b]]
       /\ prev' = [b \in Blocks |-> IF b = n THEN Nil
                                    ELSE IF b = next[n] THEN prev[n] ELSE prev[b]]
       /\ head' = IF prev[n] = Nil /\ head = n THEN next[n] ELSE head
  ELSE UNCHANGED <<next, prev, head>>

-----------------------------------------------------------------------------
(***************************************************************************)
(* Their callers, each one critical section of c->lock                     *)
(***************************************************************************)

\* gd_open, gd_opendir: a block malloc handed out is registered.
Register(n) ==
  /\ n \notin owned
  /\ gd_link_add(n)
  /\ owned' = owned \cup {n}

\* gd_close, gd_closedir: unregister; the contract allows a second call.
Unregister(n) ==
  /\ n \in owned
  /\ gd_link_remove(n)
  /\ UNCHANGED owned

\* free: the allocator may write over the fields.
Release(n) ==
  /\ n \in owned /\ ~IsLinked(n)
  /\ owned' = owned \ {n}
  /\ \E p, q \in Garbage :
       next' = [next EXCEPT ![n] = p] /\ prev' = [prev EXCEPT ![n] = q]
  /\ UNCHANGED head

Next == \E n \in Blocks : Register(n) \/ Unregister(n) \/ Release(n)

Spec == Init /\ [][Next]_vars

-----------------------------------------------------------------------------
(***************************************************************************)
(* Properties                                                              *)
(***************************************************************************)

\* Every variable has its type.
LinkTypeOK ==
  /\ head \in Pointers
  /\ next \in [Blocks -> Pointers] /\ prev \in [Blocks -> Pointers]
  /\ owned \in SUBSET Blocks

Registered == {n \in owned : IsLinked(n)}

\* The walk of gd_reconnect: the block it stands at after k steps from c->handles.
Step ==
  LET at[k \in 0 .. Cardinality(Blocks)] ==
        IF k = 0 THEN head
        ELSE IF at[k - 1] = Nil THEN Nil ELSE next[at[k - 1]]
  IN at

\* gd_reconnect walks c->handles to clear, flag and reopen every handle: the
\* walk ends, and visits the registered blocks, each exactly once, whatever
\* the order of registrations and (double) unregistrations before it.
WalkExact ==
  LET n == Cardinality(Registered) IN
  /\ Step[n] = Nil
  /\ {Step[k] : k \in 0 .. n - 1} = Registered

Registry == INSTANCE HandleRegistry WITH registered <- Registered

\* The list implements a set: no operation loses, keeps or adds a block it was
\* not asked to (parse.h: a double unregister cannot corrupt the list).
RegistryRefined == Registry!Spec

-----------------------------------------------------------------------------
(***************************************************************************)
(* The inductive invariant                                                 *)
(***************************************************************************)

\* Linked blocks point at linked blocks, and back; only the head lacks a
\* predecessor.  A block that is unlinked but not freed points nowhere.
ListShape ==
  /\ head # Nil => head \in owned /\ prev[head] = Nil
  /\ \A n \in owned :
       /\ next[n] # Nil => next[n] \in owned /\ prev[next[n]] = n
       /\ prev[n] # Nil => prev[n] \in owned /\ next[prev[n]] = n
       /\ IsLinked(n) /\ prev[n] = Nil => head = n

\* s lists the registered blocks in the order of the walk, each once.
IsChain(s, n) ==
  /\ \A i \in 1 .. n : s[i] \in Registered
  /\ \A b \in Registered : \E i \in 1 .. n : s[i] = b
  /\ \A i, j \in 1 .. n : s[i] = s[j] => i = j
  /\ head = IF n = 0 THEN Nil ELSE s[1]
  /\ \A i \in 1 .. n : next[s[i]] = IF i = n THEN Nil ELSE s[i + 1]

ListChain == \E n \in 0 .. Cardinality(Blocks) : \E s \in [1 .. n -> Blocks] : IsChain(s, n)

=============================================================================
