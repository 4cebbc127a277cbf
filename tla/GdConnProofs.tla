---------------------------- MODULE GdConnProofs ----------------------------
(***************************************************************************)
(* Proofs that the safety properties of GdConn hold for any number of      *)
(* dispatcher threads, connections and handles.  The inductive invariant   *)
(* IInv is proved in layers, each a theorem that uses the ones before it:  *)
(*                                                                         *)
(*   TypeOK         every variable has its type                            *)
(*   LockHeld       a locked connection has one owner, in its section      *)
(*   CallsServed    a callback's handle is open and on its connection      *)
(*   Registry       the registry is exact, no handle dangles               *)
(*   SerialsMatch   the generation identifies the session                  *)
(*   FailureKnown   a retry knows what failed and that it was replaced     *)
(*   FlagsKept      the stale flags agree with the pointers                *)
(*                                                                         *)
(* Each layer has frame lemmas for the steps that do not disturb it and    *)
(* one proof step per action.                                              *)
(***************************************************************************)
EXTENDS GdConn, TLAPS

\* A remainder lies below its divisor: rr_index of parse.c stays in the pool.
LEMMA ModRange == ASSUME NEW r \in Nat, NEW n \in Nat \ {0} PROVE r % n \in 0 .. n - 1
  OBVIOUS

\* A pool has at least one connection: main.c refuses to mount with none.
LEMMA ConnZero == 0 \in Conns
<1>1. PoolSize \in Nat \ {0} BY ConnAssumption
<1> QED BY <1>1 DEF Conns

\* The connection after c, for the round robin of gd_pool_pick and for the
\* keepalive sweep, is one of the pool.
LEMMA ConnNext == ASSUME NEW c \in Conns PROVE (c + 1) % PoolSize \in Conns
<1>1. PoolSize \in Nat \ {0} BY ConnAssumption
<1> QED BY <1>1, ModRange DEF Conns

\* The call of an idle thread has the type of a call.
LEMMA NoCallType == NoCall \in Calls
  BY DEF NoCall, Calls, PathOps

\* "Nothing failed yet" has the type of a failure record.
LEMMA NoFailureType == NoFailure \in Failures
  BY ConnZero DEF NoFailure, Failures, NULL

\* Every control point that an action names is a label.
LEMMA LabelsType ==
  {"idle", "acquire", "healwait", "decide", "run", "heal", "build", "reopen"} \subseteq Labels
  BY DEF Labels, Locked

\* A callback that returns (gd_unpin included) keeps the types of the thread
\* locals.
LEMMA ReturnType ==
  ASSUME ThreadType, NEW t \in Threads, Return(t)
  PROVE  /\ pc' \in [Workers -> Labels] /\ call' \in [Threads -> Calls]
         /\ probe' \in [Threads -> BOOLEAN]
         /\ g_ssh' \in [Workers -> Conns] /\ g_gen' \in [Workers -> Nat]
         /\ g_pin' \in [Threads -> Conns \cup {None}]
         /\ failed' \in [Threads -> Failures]
  BY ConnZero, NoCallType, NoFailureType, LabelsType DEF ThreadType, Return, Workers

\* gd_unlock keeps the type of the locks.
LEMMA UnlockType ==
  ASSUME ConnType, NEW w \in Workers, Unlock(w) PROVE lock' \in [Conns -> Workers \cup {None}]
  BY DEF ConnType, Unlock

\* gd_lock picks a connection of the pool, pinned or not.
LEMMA PickType ==
  ASSUME ConnType, ThreadType, NEW t \in Workers, NEW pin \in Conns \cup {None}, Pick(t, pin)
  PROVE rr' \in Conns /\ g_ssh' \in [Workers -> Conns]
  BY ConnNext, ConnAssumption DEF ConnType, ThreadType, Pick

\* Starting a gd_xxx, as first attempt or as retry, keeps the types of what
\* it sets.
LEMMA EnterType ==
  ASSUME TypeOK, NEW t \in Threads, NEW o \in PathOps \cup HandleOps, NEW h, o \in HandleOps => h \in Handles,
         NEW pin \in Conns \cup {None}, Enter(t, o, h, pin)
  PROVE  /\ rr' \in Conns /\ g_ssh' \in [Workers -> Conns] 
         /\ pc' \in [Workers -> Labels] /\ probe' \in [Threads -> BOOLEAN]
<1>1. o \in HandleOps => rr' \in Conns /\ g_ssh' \in [Workers -> Conns]
   BY DEF Enter, PickConn, TypeOK, ThreadType, HandleType, ConnType
<1>2. o \notin HandleOps => rr' \in Conns /\ g_ssh' \in [Workers -> Conns]
   BY PickType DEF Enter, TypeOK, Workers
<1> QED BY <1>1, <1>2, LabelsType DEF TypeOK, ThreadType, Enter, Workers

\* gd_close and gd_closedir keep the types of the handle blocks and the
\* registry.
LEMMA CloseType ==
  ASSUME TypeOK, NEW t \in Threads, CloseOrKeep(t)
  PROVE HandleType'
  BY DEF TypeOK, ThreadType, HandleType, CloseOrKeep, Unregister, Workers, handleVars

\* A thread serves a callback of a known kind, and every kind but a plain
\* path op has a handle block.
LEMMA OpType ==
  ASSUME ThreadType, NEW t \in Threads
  PROVE  /\ call[t].op \in PathOps \cup HandleOps
         /\ call[t].fd \in Handles \cup {None}
         /\ call[t].op # "path" => call[t].fd \in Handles
  BY DEF ThreadType, Calls, PathOps

\* Every variable keeps its type, whatever the number of threads, connections
\* and handles.
THEOREM TypeCorrect == Spec => []TypeOK
<1>1. Init => TypeOK
  <2> SUFFICES ASSUME Init PROVE TypeOK OBVIOUS
  <2>1. ConnType
    <3>1. 0 \in 0 .. MaxFaults
      BY ConnAssumption
    <3> QED BY <3>1, ConnZero DEF Init, ConnType
  <2>2. HandleType
    BY ConnZero DEF Init, HandleType, NULL
  <2>3. ThreadType
    BY ConnZero, NoCallType, NoFailureType, LabelsType DEF Init, ThreadType
  <2> QED BY <2>1, <2>2, <2>3 DEF TypeOK
<1>2. TypeOK /\ [Next]_vars => TypeOK'
  <2> SUFFICES ASSUME TypeOK, [Next]_vars PROVE ConnType' /\ HandleType' /\ ThreadType'
    BY DEF TypeOK
  <2>0. ConnType /\ HandleType /\ ThreadType
    BY DEF TypeOK
  <2> USE DEF Workers, At, connVars, handleVars, walkVars, callVars
  <2>1. ASSUME NEW t \in Threads, NEW o \in Ops, NEW h \in Handles \cup {None}, Call(t, o, h)
        PROVE ConnType' /\ HandleType' /\ ThreadType'
    <3>0. o \in PathOps \cup HandleOps /\ Threads \subseteq Workers
      BY ConnAssumption
    <3>1. o \notin {"path"} => h \in Handles
      BY <2>0, <2>1 DEF Call, MayCall, PathOps, Unallocated, HandleType
    <3>2. "path" \notin HandleOps /\ (o = "path" => h = None)
      BY <2>1 DEF HandleOps, Call, MayCall, OpenOps
    <3>3. [op |-> o, fd |-> h] \in Calls
      BY <3>0, <3>1, <3>2 DEF Calls, PathOps
    <3>4. g_pin[t] \in Conns \cup {None}
      BY <2>0 DEF ThreadType
    <3>5. /\ rr' \in Conns /\ g_ssh' \in [Workers -> Conns]
          /\ pc' \in [Workers -> Labels] /\ probe' \in [Threads -> BOOLEAN]
      BY <2>1, <3>0, <3>1, <3>2, <3>4, EnterType DEF Call
    <3>6. ConnType'
      BY <2>0, <2>1, <3>5 DEF Call, ConnType
    <3>7. HandleType'
      BY <2>0, <2>1 DEF Call, HandleType
    <3>8. ThreadType'
      BY <2>0, <2>1, <3>3, <3>5 DEF Call, ThreadType
    <3> QED BY <3>6, <3>7, <3>8
  <2>2. ASSUME NEW w \in Workers, Acquire(w)
        PROVE ConnType' /\ HandleType' /\ ThreadType'
    <3>1. ConnType'
      BY <2>0, <2>2 DEF Acquire, ConnType
    <3>2. HandleType'
      BY <2>0, <2>2 DEF Acquire, HandleType
    <3>3. ThreadType'
      BY <2>0, <2>2, LabelsType DEF Acquire, ThreadType, ConnType
    <3> QED BY <3>1, <3>2, <3>3
  <2>3. ASSUME NEW t \in Threads, Served(t)
        PROVE ConnType' /\ HandleType' /\ ThreadType'
    <3>1. ConnType'
      BY <2>0, <2>3, UnlockType DEF Served, ConnType
    <3>2. HandleType'
      <4>1. CASE call[t].op \in OpenOps
        <5>1. call[t].fd \in Handles /\ g_ssh[t] \in Conns
          BY <2>0, <4>1, OpType DEF OpenOps, ThreadType
        <5>2. ssh[g_ssh[t]] \in Nat /\ (call[t].op = "opendir") \in BOOLEAN
          BY <2>0, <5>1 DEF ConnType
        <5>3. CASE Register(g_ssh[t], call[t].fd, call[t].op = "opendir")
          BY <2>0, <5>1, <5>2, <5>3 DEF Register, HandleType
        <5>4. CASE UNCHANGED handleVars
          BY <2>0, <5>4 DEF HandleType
        <5> QED BY <2>3, <4>1, <5>3, <5>4 DEF Served
      <4>2. CASE call[t].op \notin OpenOps
        BY <2>3, <4>2, CloseType DEF Served
      <4> QED BY <4>1, <4>2
    <3>3. ThreadType'
      BY <2>0, <2>3, ReturnType DEF Served, ThreadType
    <3> QED BY <3>1, <3>2, <3>3
  <2>4. ASSUME NEW t \in Threads, RunStale(t)
        PROVE ConnType' /\ HandleType' /\ ThreadType'
    <3>1. ConnType'
      BY <2>0, <2>4, UnlockType DEF RunStale, ConnType
    <3>2. HandleType'
      BY <2>4, CloseType DEF RunStale
    <3>3. ThreadType'
      BY <2>0, <2>4, ReturnType DEF RunStale, ThreadType
    <3> QED BY <3>1, <3>2, <3>3
  <2>5. ASSUME NEW t \in Threads, RunProbe(t)
        PROVE ConnType' /\ HandleType' /\ ThreadType'
    <3>1. rr' \in Conns /\ g_ssh' \in [Workers -> Conns]
      BY <2>0, <2>5, PickType DEF RunProbe, ThreadType
    <3>2. ConnType'
      BY <2>0, <2>5, <3>1, UnlockType DEF RunProbe, ConnType
    <3>3. HandleType'
      BY <2>0, <2>5 DEF RunProbe, HandleType
    <3>4. ThreadType'
      BY <2>0, <2>5, <3>1, LabelsType DEF RunProbe, ThreadType
    <3> QED BY <3>2, <3>3, <3>4
  <2>6. ASSUME NEW t \in Threads, RunNoSession(t)
        PROVE ConnType' /\ HandleType' /\ ThreadType'
    BY <2>0, <2>6 DEF RunNoSession, ConnType, HandleType, ThreadType
  <2>7. ASSUME NEW t \in Threads, RunFailed(t)
        PROVE ConnType' /\ HandleType' /\ ThreadType'
    <3>1. ConnType'
      BY <2>0, <2>7, UnlockType, ConnAssumption DEF RunFailed, TransportError, ConnType
    <3>2. HandleType'
      BY <2>7, CloseType DEF RunFailed
    <3>3. ThreadType'
      <4>1. CASE Recovers(t)
        <5>1. [conn |-> g_ssh[t], gen |-> g_gen[t], ssh |-> ssh[g_ssh[t]]] \in Failures
          BY <2>0 DEF ConnType, ThreadType, Failures
        <5> QED BY <2>0, <2>7, <4>1, <5>1, LabelsType DEF RunFailed, ThreadType
      <4>2. CASE ~Recovers(t)
        BY <2>0, <2>7, <4>2, ReturnType DEF RunFailed, ThreadType
      <4> QED BY <4>1, <4>2
    <3> QED BY <3>1, <3>2, <3>3
  <2>8. ASSUME NEW t \in Threads, HealSkip(t)
        PROVE ConnType' /\ HandleType' /\ ThreadType'
    <3>1. ConnType'
      BY <2>0, <2>8, UnlockType DEF HealSkip, ConnType
    <3>2. HandleType' /\ ThreadType'
      BY <2>0, <2>8, LabelsType DEF HealSkip, HandleType, ThreadType
    <3> QED BY <3>1, <3>2
  <2>9. ASSUME NEW t \in Threads, Teardown(t)
        PROVE ConnType' /\ HandleType' /\ ThreadType'
    <3>1. ConnType'
      BY <2>0, <2>9 DEF Teardown, ConnType, NULL
    <3>2. HandleType'
      BY <2>0, <2>9 DEF Teardown, HandleType, NULL
    <3>3. ThreadType'
      BY <2>0, <2>9, LabelsType DEF Teardown, ThreadType
    <3> QED BY <3>1, <3>2, <3>3
  <2>10. ASSUME NEW t \in Threads, Adopt(t)
         PROVE ConnType' /\ HandleType' /\ ThreadType'
    <3>1. ConnType'
      BY <2>0, <2>10 DEF Adopt, ConnType, ThreadType
    <3>2. HandleType'
      BY <2>0, <2>10 DEF Adopt, HandleType
    <3>3. ThreadType'
      BY <2>0, <2>10, LabelsType DEF Adopt, ThreadType, HandleType
    <3> QED BY <3>1, <3>2, <3>3
  <2>11. ASSUME NEW t \in Threads, BuildFail(t)
         PROVE ConnType' /\ HandleType' /\ ThreadType'
    <3>1. ConnType'
      BY <2>0, <2>11, UnlockType DEF BuildFail, ConnType
    <3>2. HandleType'
      BY <2>0, <2>11 DEF BuildFail, HandleType
    <3>3. ThreadType'
      BY <2>0, <2>11, ReturnType DEF BuildFail, ThreadType
    <3> QED BY <3>1, <3>2, <3>3
  <2>12. ASSUME NEW t \in Threads, NEW h \in Handles, NEW ok \in BOOLEAN,
                Reopen(t, h, ok)
         PROVE ConnType' /\ HandleType' /\ ThreadType'
    <3>1. ConnType'
      BY <2>0, <2>12 DEF Reopen, ConnType
    <3>2. HandleType'
      BY <2>0, <2>12 DEF Reopen, HandleType, ConnType, ThreadType
    <3>3. ThreadType'
      BY <2>0, <2>12 DEF Reopen, ThreadType, ConnType
    <3> QED BY <3>1, <3>2, <3>3
  <2>13. ASSUME NEW t \in Threads, ReopenDone(t)
         PROVE ConnType' /\ HandleType' /\ ThreadType'
    <3>1. ConnType'
      BY <2>0, <2>13, UnlockType DEF ReopenDone, ConnType, ThreadType
    <3>2. HandleType' /\ ThreadType'
      BY <2>0, <2>13, LabelsType DEF ReopenDone, HandleType, ThreadType
    <3> QED BY <3>1, <3>2
  <2>14. ASSUME NEW t \in Threads, Decide(t)
         PROVE ConnType' /\ HandleType' /\ ThreadType'
    <3>1. HandleType'
      BY <2>0, <2>14 DEF Decide, HandleType
    <3>2. CASE call[t].op = "io" /\ stale[call[t].fd]
      BY <2>0, <2>14, <3>1, <3>2, ReturnType DEF Decide, ConnType, ThreadType
    <3>3. CASE ~(call[t].op = "io" /\ stale[call[t].fd])
      <4>0. failed[t].conn \in Conns \cup {None}
        BY <2>0 DEF ThreadType, Failures
      <4>1. /\ g_pin' \in [Threads -> Conns \cup {None}]
            /\ g_pin'[t] \in Conns \cup {None}
        BY <2>0, <2>14, <3>3, <4>0 DEF Decide, ThreadType
      <4>2. /\ call[t].op \in PathOps \cup HandleOps
            /\ call[t].op \in HandleOps => call[t].fd \in Handles
        BY <2>0, OpType DEF HandleOps
      <4>3. /\ rr' \in Conns /\ g_ssh' \in [Workers -> Conns]
            /\ pc' \in [Workers -> Labels] /\ probe' \in [Threads -> BOOLEAN]
        BY <2>14, <3>3, <4>1, <4>2, EnterType DEF Decide
      <4> QED BY <2>0, <2>14, <3>1, <3>3, <4>1, <4>3 DEF Decide, ConnType, ThreadType
    <3> QED BY <3>2, <3>3
  <2>15. CASE KeepaliveCheck
    BY <2>0, <2>15, ConnNext, LabelsType
    DEF KeepaliveCheck, NextConn, PickConn, ConnType, HandleType, ThreadType
  <2>16. CASE KeepaliveSend
    <3>1. ConnType'
      BY <2>0, <2>16, UnlockType DEF KeepaliveSend, ConnType
    <3>2. HandleType'
      BY <2>0, <2>16 DEF KeepaliveSend, HandleType
    <3>3. ThreadType'
      <4>1. pc' \in [Workers -> Labels] /\ g_gen' \in [Workers -> Nat]
        <5>1. CASE ssh[ka] # NULL
          BY <2>0, <2>16, <5>1, LabelsType DEF KeepaliveSend, ThreadType
        <5>2. CASE ssh[ka] = NULL
          BY <2>0, <2>16, <5>2 DEF KeepaliveSend, ThreadType
        <5> QED BY <5>1, <5>2
      <4>2. ka' \in Conns
        BY <2>0, <2>16, ConnNext DEF KeepaliveSend, NextConn, ThreadType
      <4> QED BY <2>0, <2>16, <4>1, <4>2 DEF KeepaliveSend, ThreadType
    <3> QED BY <3>1, <3>2, <3>3
  <2>17. ASSUME NEW c \in Conns, Drop(c)
         PROVE ConnType' /\ HandleType' /\ ThreadType'
    BY <2>0, <2>17, ConnAssumption DEF Drop, ConnType, HandleType, ThreadType
  <2>18. CASE Dead \/ UNCHANGED vars
    BY <2>0, <2>18 DEF Dead, vars, ConnType, HandleType, ThreadType
  <2> QED
    BY <2>1, <2>2, <2>3, <2>4, <2>5, <2>6, <2>7, <2>8, <2>9, <2>10, <2>11,
       <2>12, <2>13, <2>14, <2>15, <2>16, <2>17, <2>18
    DEF Next, Progress, Run, Heal, KeepaliveProgress
<1> QED
  BY <1>1, <1>2, PTL DEF Spec
-----------------------------------------------------------------------------

\* The points outside the lock are not Locked, the keepalive thread is no
\* dispatcher thread, None is nobody.
LEMMA PcLabels == 
  /\ Locked \cap {"idle", "acquire", "healwait", "decide"} = {}
  /\ Threads \subseteq Workers /\ Keeper \in Workers /\ Keeper \notin Threads
  /\ None \notin Workers /\ None \notin Conns /\ None \notin Handles
  BY ConnAssumption DEF Locked, Workers

\* Two workers inside a critical section are on two connections (from lock
\* ownership).
LEMMA Mutex ==
  ASSUME LockHeld, NEW t \in Workers, NEW u \in Workers, t # u,
         pc[t] \in Locked, pc[u] \in Locked
  PROVE  g_ssh[t] # g_ssh[u]
  BY DEF LockHeld

\* A step of w outside the lock keeps lock ownership.
LEMMA StepOutside ==
  ASSUME TypeOK, LockHeld, NEW w \in Workers,
         pc[w] \notin Locked, pc'[w] \notin Locked, lock' = lock,
         \A u \in Workers \ {w} : pc'[u] = pc[u] /\ g_ssh'[u] = g_ssh[u]
  PROVE  LockHeld'
  BY PcLabels DEF LockHeld, TypeOK, ConnType

\* A step of w inside its critical section keeps lock ownership.
LEMMA StepInside ==
  ASSUME TypeOK, LockHeld, NEW w \in Workers,
         pc[w] \in Locked, pc'[w] \in Locked, lock' = lock, g_ssh' = g_ssh,
         \A u \in Workers \ {w} : pc'[u] = pc[u]
  PROVE  LockHeld'
  BY PcLabels DEF LockHeld, TypeOK, ConnType

\* gd_unlock at the end of a critical section keeps lock ownership.
LEMMA StepUnlock ==
  ASSUME TypeOK, LockHeld, NEW w \in Workers,
         pc[w] \in Locked, pc'[w] \notin Locked, Unlock(w),
         \A u \in Workers \ {w} : pc'[u] = pc[u] /\ g_ssh'[u] = g_ssh[u]
  PROVE  LockHeld'
<1>1. \A c \in Conns : lock'[c] = IF c = g_ssh[w] THEN None ELSE lock[c]
  BY DEF Unlock, TypeOK, ConnType
<1>2. ASSUME NEW c \in Conns, lock'[c] # None
      PROVE pc'[lock'[c]] \in Locked /\ g_ssh'[lock'[c]] = c
  BY <1>1, <1>2, PcLabels DEF LockHeld, TypeOK, ConnType
<1>3. ASSUME NEW u \in Workers, pc'[u] \in Locked
      PROVE lock'[g_ssh'[u]] = u
  BY <1>1, <1>3, PcLabels, Mutex DEF LockHeld, TypeOK, ThreadType
<1> QED BY <1>2, <1>3 DEF LockHeld

\* A successful gd_lock or gd_lock_conn keeps lock ownership.
LEMMA StepAcquire ==
  ASSUME TypeOK, LockHeld, NEW w \in Workers, Acquire(w)
  PROVE  LockHeld'
<1>1. /\ pc[w] \notin Locked /\ pc'[w] \in Locked /\ g_ssh' = g_ssh
      /\ \A u \in Workers \ {w} : pc'[u] = pc[u]
  BY DEF Acquire, At, TypeOK, ThreadType, Locked
<1>2. \A c \in Conns : lock'[c] = IF c = g_ssh[w] THEN w ELSE lock[c]
  BY DEF Acquire, TypeOK, ConnType
<1>3. lock[g_ssh[w]] = None /\ g_ssh[w] \in Conns
  BY DEF Acquire, TypeOK, ThreadType
<1>4. ASSUME NEW c \in Conns, lock'[c] # None
      PROVE pc'[lock'[c]] \in Locked /\ g_ssh'[lock'[c]] = c
  BY <1>1, <1>2, <1>4, PcLabels DEF LockHeld, TypeOK, ConnType
<1>5. ASSUME NEW u \in Workers, pc'[u] \in Locked
      PROVE lock'[g_ssh'[u]] = u
  BY <1>1, <1>2, <1>3, <1>5, PcLabels DEF LockHeld, TypeOK, ThreadType
<1> QED BY <1>4, <1>5 DEF LockHeld

\* What a returning callback resets, and that it leaves the other threads'
\* locals alone.
LEMMA ReturnFrame ==
  ASSUME TypeOK, NEW t \in Threads, Return(t)
  PROVE  /\ pc'[t] = "idle" /\ call'[t] = NoCall
         /\ failed'[t] = NoFailure /\ g_pin'[t] = None
         /\ \A u \in Workers \ {t} : pc'[u] = pc[u] /\ g_ssh'[u] = g_ssh[u] /\ g_gen'[u] = g_gen[u]
         /\ \A u \in Threads \ {t} : call'[u] = call[u] /\ failed'[u] = failed[u] /\ g_pin'[u] = g_pin[u]
         /\ probe' = probe
  BY PcLabels DEF Return, TypeOK, ThreadType

\* Where a starting gd_xxx goes: to the connection of its handle, to the pin,
\* or around the pool.
LEMMA EnterFrame ==
  ASSUME TypeOK, NEW t \in Threads, NEW o, NEW h, NEW pin, Enter(t, o, h, pin)
  PROVE  /\ pc'[t] = "acquire"
         /\ o \in HandleOps => g_ssh'[t] = conn[h]
         /\ o \notin HandleOps /\ pin # None => g_ssh'[t] = pin
         /\ probe'[t] => o = "open"
         /\ \A u \in Workers \ {t} : pc'[u] = pc[u] /\ g_ssh'[u] = g_ssh[u]
         /\ \A u \in Threads \ {t} : probe'[u] = probe[u]
  BY PcLabels DEF Enter, Pick, PickConn, TypeOK, ThreadType

\* c->lock belongs to exactly the worker inside its critical section: every
\* gd_xxx and every early return of gd_reconnect pairs its lock with one
\* unlock.
THEOREM LockOwned == Spec => []LockHeld
<1>1. Init => LockHeld
  BY PcLabels DEF Init, LockHeld
<1>2. TypeOK /\ LockHeld /\ [Next]_vars => LockHeld'
  <2> SUFFICES ASSUME TypeOK, LockHeld, [Next]_vars PROVE LockHeld'
    OBVIOUS
  <2>0. ThreadType /\ {"run", "heal", "build", "reopen"} = Locked
    BY DEF TypeOK, Locked
  <2> USE DEF At
  <2>1. ASSUME NEW t \in Threads, NEW o \in Ops, NEW h \in Handles \cup {None}, Call(t, o, h)
        PROVE LockHeld'
    BY <2>1, EnterFrame, PcLabels, StepOutside DEF Call
  <2>2. ASSUME NEW w \in Workers, Acquire(w) PROVE LockHeld'
    BY <2>2, StepAcquire
  <2>3. ASSUME NEW t \in Threads, Served(t) \/ RunStale(t) \/ BuildFail(t) PROVE LockHeld'
    BY <2>0, <2>3, ReturnFrame, PcLabels, StepUnlock DEF Served, RunStale, BuildFail
  <2>4. ASSUME NEW t \in Threads, RunProbe(t) PROVE LockHeld'
    BY <2>0, <2>4, PcLabels, StepUnlock DEF RunProbe, Pick, ThreadType
  <2>5. ASSUME NEW t \in Threads, RunFailed(t) PROVE LockHeld'
    <3>1. CASE Recovers(t)
      BY <2>0, <2>5, <3>1, PcLabels, StepUnlock DEF RunFailed, ThreadType
    <3>2. CASE ~Recovers(t)
      BY <2>0, <2>5, <3>2, ReturnFrame, PcLabels, StepUnlock DEF RunFailed
    <3> QED BY <3>1, <3>2
  <2>6. ASSUME NEW t \in Threads, HealSkip(t) \/ ReopenDone(t) PROVE LockHeld'
    BY <2>0, <2>6, PcLabels, StepUnlock DEF HealSkip, ReopenDone, ThreadType
  <2>7. ASSUME NEW t \in Threads, Teardown(t) \/ Adopt(t) PROVE LockHeld'
    BY <2>0, <2>7, PcLabels, StepInside DEF Teardown, Adopt, ThreadType
  <2>8. ASSUME NEW t \in Threads, Decide(t) PROVE LockHeld'
    <3>1. CASE call[t].op = "io" /\ stale[call[t].fd]
      BY <2>8, <3>1, ReturnFrame, PcLabels, StepOutside DEF Decide
    <3>2. CASE ~(call[t].op = "io" /\ stale[call[t].fd])
      BY <2>8, <3>2, EnterFrame, PcLabels, StepOutside DEF Decide
    <3> QED BY <3>1, <3>2
  <2>9. CASE KeepaliveCheck
    <3>1. CASE ssh[ka] # NULL
      BY <2>0, <2>9, <3>1, PcLabels, StepOutside DEF KeepaliveCheck, PickConn, ThreadType
    <3>2. CASE ssh[ka] = NULL
      BY <2>9, <3>2 DEF KeepaliveCheck, LockHeld
    <3> QED BY <3>1, <3>2
  <2>10. CASE KeepaliveSend
    <3>1. CASE ssh[ka] # NULL
      BY <2>0, <2>10, <3>1, PcLabels, StepUnlock DEF KeepaliveSend, ThreadType
    <3>2. CASE ssh[ka] = NULL
      BY <2>10, <3>2 DEF KeepaliveSend, LockHeld
    <3> QED BY <3>1, <3>2
  <2>11. CASE UNCHANGED <<lock, pc, g_ssh>>
    BY <2>11 DEF LockHeld
  <2>12. ASSUME NEW t \in Threads, RunNoSession(t) \/ \E h \in Handles, ok \in BOOLEAN : Reopen(t, h, ok)
         PROVE LockHeld'
    BY <2>11, <2>12 DEF RunNoSession, Reopen
  <2> QED
    BY <2>1, <2>2, <2>3, <2>4, <2>5, <2>6, <2>7, <2>8, <2>9, <2>10, <2>11, <2>12
    DEF Next, Progress, Run, Heal, KeepaliveProgress, Drop, Dead, vars, Workers
<1> QED
  BY <1>1, <1>2, TypeCorrect, PTL DEF Spec
-----------------------------------------------------------------------------

\* The kinds of callback: those that open, those on a path and those on a
\* handle.
LEMMA OpKinds ==
  /\ HandleOps \cap PathOps = {} /\ OpenOps \cap HandleOps = {}
  /\ "path" \notin OpenOps \cup HandleOps /\ "close" \in HandleOps
  /\ "open" \in OpenOps /\ OpenOps \subseteq PathOps /\ NoCall.op = "path"
  BY DEF HandleOps, PathOps, OpenOps, NoCall

\* A callback that returns leaves the other callbacks' handles alone, even
\* when it frees its own.
LEMMA ReturnServed ==
  ASSUME TypeOK, CallsServed, NEW t \in Threads, ~probe[t],
         Return(t), CloseOrKeep(t)
  PROVE  CallsServed'
<1> USE OpKinds, PcLabels
<1>1. /\ \A u \in Threads \ {t} :
           call'[u] = call[u] /\ pc'[u] = pc[u] /\ g_ssh'[u] = g_ssh[u]
      /\ call'[t] = NoCall /\ pc'[t] = "idle" /\ probe' = probe
  BY ReturnFrame
<1>2. conn' = conn /\ live' \subseteq live
  BY DEF CloseOrKeep, Unregister, handleVars
<1>3. \A h \in live \ live' : call[t].op = "close" /\ h = call[t].fd
  BY DEF CloseOrKeep, Unregister, handleVars
<1>4. \A u \in Threads \ {t} : call[u].op \in OpenOps \cup {"close"} =>
        call[u].fd # NoCall.fd
  BY OpType, PcLabels DEF NoCall, TypeOK
<1> QED
  BY <1>1, <1>2, <1>3, <1>4 DEF CallsServed, CallServed

\* A step inside a callback that opens and frees nothing.
LEMMA InsideServed ==
  ASSUME TypeOK, CallsServed, NEW w \in Workers,
         \A u \in Workers \ {w} : pc'[u] = pc[u] /\ g_ssh'[u] = g_ssh[u],
         UNCHANGED <<call, live, conn>>,
         \A u \in Threads \ {w} : probe'[u] = probe[u],
         w \in Threads =>
           /\ pc'[w] # "idle"
           /\ probe'[w] => call[w].op = "open" /\ pc'[w] \in {"acquire", "run"}
           /\ call[w].op \in HandleOps => g_ssh'[w] = conn[call[w].fd]
  PROVE  CallsServed'
<1>1. ASSUME w \in Threads PROVE CallServed(w)'
  <2>1. call' = call /\ live' = live /\ conn' = conn
    OBVIOUS
  <2>2. (probe[w] => call[w].op = "open" /\ pc[w] \in {"acquire", "run"})'
    BY <1>1, <2>1, Zenon
  <2> QED BY <1>1, <2>1, <2>2 DEF CallsServed, CallServed
<1>2. ASSUME NEW u \in Threads \ {w} PROVE CallServed(u)'
  BY <1>2, PcLabels DEF CallsServed, CallServed
<1> QED BY <1>1, <1>2, Zenon DEF CallsServed

\* Every callback on a handle has an open handle and locks the handle's own
\* connection; a block being opened or closed is in no other callback's
\* hands.
THEOREM CallsSafe == Spec => []CallsServed
<1>1. Init => CallsServed
  BY OpKinds, PcLabels DEF Init, CallsServed, CallServed
<1>2. TypeOK /\ CallsServed /\ [Next]_vars => CallsServed'
  <2> SUFFICES ASSUME TypeOK, CallsServed, [Next]_vars PROVE CallsServed'
    OBVIOUS
  <2>0. ConnType /\ HandleType /\ ThreadType
    BY DEF TypeOK
  <2> USE DEF At, handleVars, callVars
  <2>1. ASSUME NEW t \in Threads, NEW o \in Ops, NEW h \in Handles \cup {None}, Call(t, o, h)
        PROVE CallsServed'
    <3>1. /\ call'[t].op = o /\ call'[t].fd = h
          /\ \A u \in Threads \ {t} : call'[u] = call[u]
      BY <2>0, <2>1 DEF Call, ThreadType
    <3>2. /\ pc'[t] = "acquire"
          /\ probe'[t] => o = "open"
          /\ o \in HandleOps => g_ssh'[t] = conn[h]
          /\ \A u \in Threads \ {t} : pc'[u] = pc[u] /\ probe'[u] = probe[u] /\ g_ssh'[u] = g_ssh[u]
      BY <2>1, EnterFrame, PcLabels DEF Call
    <3>3. /\ live' = live /\ conn' = conn
      BY <2>1 DEF Call
    <3>4. /\ o \in HandleOps => h \in live
          /\ o \in OpenOps => h \notin live
          /\ o \in OpenOps \cup {"close"} => \A u \in Threads : call[u].fd # h
      BY <2>1 DEF Call, MayCall, Unallocated, OpenOps, HandleOps
    <3>5. \A u \in Threads \ {t} : call[u].op \in OpenOps \cup {"close"} => call[u].fd # h
      BY <2>0, <2>1, OpType, OpKinds, PcLabels DEF Call, MayCall, CallsServed, CallServed, Unallocated
    <3>6. CallServed(t)'
      <4>1. (probe[t] => call[t].op = "open" /\ pc[t] \in {"acquire", "run"})'
        BY <3>1, <3>2, Zenon
      <4>2. (pc[t] # "idle")'
        BY <3>2
      <4> QED BY <3>1, <3>2, <3>3, <3>4, <4>1, <4>2, Zenon DEF CallServed
    <3>7. ASSUME NEW u \in Threads \ {t} PROVE CallServed(u)'
      BY <3>1, <3>2, <3>3, <3>5 DEF CallsServed, CallServed
    <3> QED BY <3>6, <3>7 DEF CallsServed
  <2>2. ASSUME NEW w \in Workers, Acquire(w) PROVE CallsServed'
    BY <2>0, <2>2, InsideServed DEF Acquire, CallsServed, CallServed, ThreadType
  <2>3. ASSUME NEW t \in Threads, Served(t) PROVE CallsServed'
    <3>1. ~probe[t] /\ Return(t)
      BY <2>3 DEF Served
    <3>2. CASE CloseOrKeep(t)
      BY <3>1, <3>2, ReturnServed
    <3>3. CASE UNCHANGED handleVars
      <4>1. CASE call[t].op = "close"
        BY <2>3, <3>2, <4>1, OpKinds DEF Served
      <4> QED BY <3>2, <3>3, <4>1 DEF CloseOrKeep
    <3>4. CASE call[t].op \in OpenOps /\ Register(g_ssh[t], call[t].fd, call[t].op = "opendir")
      <4>1. /\ \A u \in Threads \ {t} :
                  call'[u] = call[u] /\ pc'[u] = pc[u] /\ g_ssh'[u] = g_ssh[u]
            /\ call'[t] = NoCall /\ pc'[t] = "idle" /\ probe' = probe
        BY <3>1, ReturnFrame, PcLabels
      <4>2. /\ live' = live \cup {call[t].fd}
            /\ \A h \in live : conn'[h] = conn[h]
        BY <2>0, <3>4 DEF Register, CallsServed, CallServed, HandleType
      <4>3. \A u \in Threads \ {t} : call[u].op \in OpenOps \cup {"close"} =>
              call[u].fd # NoCall.fd
        BY <2>0, OpType, OpKinds, PcLabels DEF NoCall
      <4>4. \A u \in Threads \ {t} : call[u].fd # call[t].fd
        BY <3>4 DEF CallsServed, CallServed
      <4> QED BY <3>1, <4>1, <4>2, <4>3, <4>4, OpKinds DEF CallsServed, CallServed
    <3> QED BY <2>3, <3>2, <3>3, <3>4 DEF Served
  <2>4. ASSUME NEW t \in Threads, RunStale(t) \/ BuildFail(t) PROVE CallsServed'
    <3>1. ~probe[t] /\ Return(t)
      BY <2>4, OpKinds DEF RunStale, BuildFail, CallsServed, CallServed
    <3>2. CASE RunStale(t)
      BY <3>1, <3>2, ReturnServed DEF RunStale
    <3>3. CASE BuildFail(t)
      <4>1. /\ \A u \in Threads \ {t} :
                  call'[u] = call[u] /\ pc'[u] = pc[u] /\ g_ssh'[u] = g_ssh[u]
            /\ call'[t] = NoCall /\ pc'[t] = "idle" /\ probe' = probe
            /\ live' = live /\ conn' = conn
        BY <3>1, <3>3, ReturnFrame, PcLabels DEF BuildFail
      <4>2. \A u \in Threads \ {t} : call[u].op \in OpenOps \cup {"close"} =>
              call[u].fd # NoCall.fd
        BY <2>0, OpType, OpKinds, PcLabels DEF NoCall
      <4> QED BY <3>1, <4>1, <4>2, OpKinds DEF CallsServed, CallServed
    <3> QED BY <2>4, <3>2, <3>3
  <2>5. ASSUME NEW t \in Threads, RunProbe(t) PROVE CallsServed'
    <3>1. call[t].op \notin HandleOps
      BY <2>5, OpKinds DEF RunProbe, CallsServed, CallServed
    <3> QED BY <2>0, <2>5, <3>1, PcLabels, InsideServed DEF RunProbe, Pick, ThreadType
  <2>6. ASSUME NEW t \in Threads, RunFailed(t) PROVE CallsServed'
    <3>1. CASE Recovers(t)
      <4>1. UNCHANGED handleVars
        BY <2>6, <3>1 DEF RunFailed, Recovers, CloseOrKeep
      <4> QED BY <2>0, <2>6, <3>1, <4>1, PcLabels, InsideServed DEF RunFailed, ThreadType, CallsServed, CallServed
    <3>2. CASE ~Recovers(t)
      BY <2>6, <3>2, ReturnServed DEF RunFailed
    <3> QED BY <3>1, <3>2
  <2>7. ASSUME NEW t \in Threads,
               HealSkip(t) \/ Teardown(t) \/ Adopt(t) \/ ReopenDone(t) PROVE CallsServed'
    BY <2>0, <2>7, PcLabels, InsideServed
    DEF HealSkip, Teardown, Adopt, ReopenDone, ThreadType, CallsServed, CallServed
  <2>8. ASSUME NEW t \in Threads, Decide(t) PROVE CallsServed'
    <3>1. CASE call[t].op = "io" /\ stale[call[t].fd]
      <4>1. ~probe[t] /\ CloseOrKeep(t) /\ Return(t)
        BY <2>8, <3>1 DEF Decide, CallsServed, CallServed, CloseOrKeep
      <4> QED BY <4>1, ReturnServed
    <3>2. CASE ~(call[t].op = "io" /\ stale[call[t].fd])
      <4>1. UNCHANGED <<call, live, conn>> /\ Enter(t, call[t].op, call[t].fd, g_pin'[t])
        BY <2>8, <3>2 DEF Decide
      <4> HIDE DEF At
      <4> QED BY <4>1, EnterFrame, PcLabels, InsideServed
    <3> QED BY <3>1, <3>2
  <2>9. CASE KeepaliveCheck
    BY <2>0, <2>9, PcLabels DEF KeepaliveCheck, PickConn, ThreadType, CallsServed, CallServed
  <2>10. CASE KeepaliveSend
    BY <2>0, <2>10, PcLabels DEF KeepaliveSend, ThreadType, CallsServed, CallServed
  <2>11. CASE UNCHANGED <<call, probe, live, conn, pc, g_ssh>>
    BY <2>11 DEF CallsServed, CallServed
  <2>12. ASSUME NEW t \in Threads, RunNoSession(t) \/ \E h \in Handles, ok \in BOOLEAN : Reopen(t, h, ok)
         PROVE CallsServed'
    BY <2>11, <2>12 DEF RunNoSession, Reopen
  <2> QED
    BY <2>1, <2>2, <2>3, <2>4, <2>5, <2>6, <2>7, <2>8, <2>9, <2>10, <2>11, <2>12
    DEF Next, Progress, Run, Heal, KeepaliveProgress, Drop, Dead, vars, Workers
<1> QED
  BY <1>1, <1>2, TypeCorrect, PTL DEF Spec

\* No callback under way, retries included, works on a freed GDHANDLE:
\* release and releasedir, which free it, are not retried.
THEOREM HandlesAlive == Spec => []HandleAlive
<1>1. CallsServed => HandleAlive
  BY DEF CallsServed, CallServed, HandleAlive
<1> QED BY <1>1, CallsSafe, PTL
-----------------------------------------------------------------------------

\* The layer on the registry.
Registry == RegistryExact /\ NoDangling /\ WalkOnRegistry

\* A step of w that touches no handle and ends outside gd_reconnect.
LEMMA FrameRegistry ==
  ASSUME TypeOK, Registry, NEW w \in Workers,
         UNCHANGED <<ssh, handles, live, conn, ptr>>,
         \A u \in Workers \ {w} : pc'[u] = pc[u] /\ g_ssh'[u] = g_ssh[u],
         \A u \in Threads \ {w} : todo'[u] = todo[u],
         pc'[w] \notin {"build", "reopen"}
  PROVE  Registry'
<1>1. RegistryExact' /\ NoDangling'
  BY DEF Registry, RegistryExact, NoDangling
<1>2. WalkOnRegistry'
  BY PcLabels DEF Registry, WalkOnRegistry
<1> QED BY <1>1, <1>2 DEF Registry

\* gd_close and the other callbacks' last section.
LEMMA CloseRegistry ==
  ASSUME TypeOK, LockHeld, CallsServed, Registry, NEW t \in Threads,
         pc[t] \in Locked, CloseOrKeep(t), Return(t), UNCHANGED <<ssh, todo>>
  PROVE  Registry'
<1>1. /\ pc'[t] = "idle"
      /\ \A u \in Threads \ {t} : pc'[u] = pc[u] /\ g_ssh'[u] = g_ssh[u]
  BY ReturnFrame, PcLabels
<1>2. CASE call[t].op = "close"
  <2> DEFINE c == g_ssh[t]  h == call[t].fd
  <2>1. /\ h \in live /\ conn[h] = c /\ c \in Conns
        /\ live' = live \ {h} /\ UNCHANGED <<conn, ptr>>
        /\ \A d \in Conns : handles'[d] = IF d = c THEN handles[d] \ {h} ELSE handles[d]
    BY <1>2, OpKinds, PcLabels
    DEF CallsServed, CallServed, CloseOrKeep, Unregister, TypeOK, ThreadType, HandleType
  <2> HIDE DEF c, h
  <2>2. RegistryExact'
    <3> SUFFICES ASSUME NEW e \in Conns
                 PROVE  handles'[e] = {g \in live' : conn'[g] = e}
      BY DEF RegistryExact
    <3>1. handles[e] = {g \in live : conn[g] = e}
      BY DEF Registry, RegistryExact
    <3>2. conn' = conn
      BY <2>1
    <3> QED BY <2>1, <3>1, <3>2
  <2>3. NoDangling'
    BY <2>1 DEF Registry, NoDangling
  <2>4. \A u \in Threads \ {t} : pc[u] = "reopen" => g_ssh[u] # c /\ g_ssh[u] \in Conns
    BY Mutex, PcLabels DEF c, Locked, TypeOK, ThreadType
  <2>5. WalkOnRegistry'
    <3> SUFFICES ASSUME NEW u \in Threads
                 PROVE  /\ pc'[u] = "build" => ssh'[g_ssh'[u]] = NULL
                        /\ pc'[u] = "reopen" => todo'[u] \subseteq
                             {g \in handles'[g_ssh'[u]] : ptr'[g] = NULL}
      BY DEF WalkOnRegistry
    <3>1. CASE u = t
      BY <1>1, <3>1
    <3>2. CASE u # t
      <4>1. pc'[u] = pc[u] /\ g_ssh'[u] = g_ssh[u] /\ ptr' = ptr
        BY <1>1, <2>1, <3>2, PcLabels
      <4>2. pc[u] = "reopen" => handles'[g_ssh[u]] = handles[g_ssh[u]]
        BY <2>1, <2>4, <3>2
      <4> QED BY <4>1, <4>2 DEF Registry, WalkOnRegistry
    <3> QED BY <3>1, <3>2
  <2> QED BY <2>2, <2>3, <2>5 DEF Registry
<1>3. CASE call[t].op # "close"
  BY <1>1, <1>3, FrameRegistry, ReturnFrame, PcLabels DEF CloseOrKeep, handleVars
<1> QED BY <1>2, <1>3

\* gd_open and gd_opendir, on a session.
LEMMA OpenRegistry ==
  ASSUME TypeOK, LockHeld, CallsServed, Registry, NEW t \in Threads,
         pc[t] \in Locked, call[t].op \in OpenOps, NEW d \in BOOLEAN,
         Register(g_ssh[t], call[t].fd, d), Return(t), UNCHANGED <<ssh, todo>>
  PROVE  Registry'
<1>1. /\ pc'[t] = "idle"
      /\ \A u \in Threads \ {t} : pc'[u] = pc[u] /\ g_ssh'[u] = g_ssh[u]
  BY ReturnFrame, PcLabels
<1> DEFINE c == g_ssh[t]  h == call[t].fd
<1>2. h \in Handles /\ h \notin live /\ c \in Conns
  BY OpType, OpKinds, PcLabels DEF CallsServed, CallServed, TypeOK, ThreadType
<1>3. /\ live' = live \cup {h} /\ conn'[h] = c /\ ptr'[h] = ssh[c]
      /\ \A g \in Handles \ {h} : conn'[g] = conn[g] /\ ptr'[g] = ptr[g]
      /\ \A e \in Conns : handles'[e] = IF e = c THEN handles[e] \cup {h} ELSE handles[e]
  BY <1>2 DEF Register, TypeOK, HandleType
<1>4. live \subseteq Handles /\ handles \in [Conns -> SUBSET Handles]
      /\ \A e \in Conns : h \notin handles[e]
  BY <1>2 DEF Registry, RegistryExact, TypeOK, HandleType
<1>5. \A u \in Threads \ {t} : pc[u] = "reopen" => g_ssh[u] # c /\ g_ssh[u] \in Conns
  BY Mutex, PcLabels DEF Locked, TypeOK, ThreadType
<1> HIDE DEF c, h
<1>6. RegistryExact'
  <2> SUFFICES ASSUME NEW e \in Conns
               PROVE  handles'[e] = {g \in live' : conn'[g] = e}
    BY DEF RegistryExact
  <2>1. handles[e] = {g \in live : conn[g] = e}
    BY DEF Registry, RegistryExact
  <2>2. {g \in live' : conn'[g] = e}
          = {g \in live : conn[g] = e} \cup (IF e = c THEN {h} ELSE {})
    BY <1>2, <1>3, <1>4
  <2> QED BY <1>3, <2>1, <2>2
<1>7. NoDangling'
  BY <1>2, <1>3, <1>4 DEF Registry, NoDangling
<1>8. WalkOnRegistry'
  <2> SUFFICES ASSUME NEW u \in Threads
               PROVE  /\ pc'[u] = "build" => ssh'[g_ssh'[u]] = NULL
                      /\ pc'[u] = "reopen" => todo'[u] \subseteq
                           {g \in handles'[g_ssh'[u]] : ptr'[g] = NULL}
    BY DEF WalkOnRegistry
  <2>1. CASE u = t
    BY <1>1, <2>1
  <2>2. CASE u # t
    <3>1. pc'[u] = pc[u] /\ g_ssh'[u] = g_ssh[u]
      BY <1>1, <2>2, PcLabels
    <3>2. pc[u] = "reopen" =>
            /\ handles'[g_ssh[u]] = handles[g_ssh[u]]
            /\ \A g \in handles[g_ssh[u]] : ptr'[g] = ptr[g]
      BY <1>3, <1>4, <1>5, <2>2
    <3> QED BY <3>1, <3>2 DEF Registry, WalkOnRegistry
  <2> QED BY <2>1, <2>2
<1> QED BY <1>6, <1>7, <1>8 DEF Registry

\* The teardown at the head of gd_reconnect.
LEMMA TeardownRegistry ==
  ASSUME TypeOK, LockHeld, Registry, NEW t \in Threads, Teardown(t)
  PROVE  Registry'
<1> DEFINE c == g_ssh[t]
<1>1. /\ c \in Conns /\ g_ssh' = g_ssh
      /\ \A u \in Threads \ {t} : pc'[u] = pc[u]
      /\ pc'[t] = "build"
      /\ UNCHANGED <<handles, live, conn, todo>>
      /\ \A d \in Conns : ssh'[d] = IF d = c THEN NULL ELSE ssh[d]
      /\ \A h \in Handles : ptr'[h] = IF h \in handles[c] THEN NULL ELSE ptr[h]
  BY PcLabels DEF Teardown, walkVars, TypeOK, ThreadType, ConnType
<1> HIDE DEF c
<1>2. RegistryExact'
  BY <1>1 DEF Registry, RegistryExact
<1>3. NoDangling'
  <2> SUFFICES ASSUME NEW h \in live PROVE ptr'[h] \in {NULL, ssh'[conn[h]]}
    BY <1>1 DEF NoDangling
  <2>1. h \in Handles /\ conn[h] \in Conns
    BY DEF TypeOK, HandleType
  <2>2. conn[h] = c => h \in handles[c]
    BY <1>1 DEF Registry, RegistryExact
  <2>3. ptr[h] \in {NULL, ssh[conn[h]]}
    BY DEF Registry, NoDangling
  <2> QED BY <1>1, <2>1, <2>2, <2>3
<1>4. WalkOnRegistry'
  <2> SUFFICES ASSUME NEW u \in Threads
               PROVE  /\ pc'[u] = "build" => ssh'[g_ssh'[u]] = NULL
                      /\ pc'[u] = "reopen" => todo'[u] \subseteq
                           {g \in handles'[g_ssh'[u]] : ptr'[g] = NULL}
    BY DEF WalkOnRegistry
  <2>1. CASE u = t
    BY <1>1, <2>1 DEF c
  <2>2. CASE u # t
    <3>1. g_ssh[u] \in Conns /\ handles[g_ssh[u]] \subseteq Handles
      BY PcLabels DEF TypeOK, ThreadType, HandleType
    <3> QED BY <1>1, <2>2, <3>1 DEF Registry, WalkOnRegistry
  <2> QED BY <2>1, <2>2
<1> QED BY <1>2, <1>3, <1>4 DEF Registry

\* The new session: no handle points anywhere yet.
LEMMA AdoptRegistry ==
  ASSUME TypeOK, LockHeld, Registry, NEW t \in Threads, Adopt(t)
  PROVE  Registry'
<1> DEFINE c == g_ssh[t]
<1>1. /\ c \in Conns /\ g_ssh' = g_ssh /\ pc[t] = "build"
      /\ \A u \in Threads \ {t} : pc'[u] = pc[u] /\ todo'[u] = todo[u]
      /\ pc'[t] = "reopen" /\ todo'[t] = handles[c]
      /\ UNCHANGED <<handles, live, conn, ptr>>
      /\ \A d \in Conns \ {c} : ssh'[d] = ssh[d]
  BY PcLabels DEF Adopt, At, TypeOK, ThreadType, ConnType, handleVars
<1> HIDE DEF c
<1>2. RegistryExact'
  BY <1>1 DEF Registry, RegistryExact
<1>3. \A h \in live : conn[h] = c => ptr[h] = NULL
  BY <1>1 DEF c, Registry, NoDangling, WalkOnRegistry
<1>4. NoDangling'
  <2> SUFFICES ASSUME NEW h \in live PROVE ptr[h] \in {NULL, ssh'[conn[h]]}
    BY <1>1 DEF NoDangling
  <2>1. conn[h] \in Conns
    BY DEF TypeOK, HandleType
  <2> QED BY <1>1, <1>3, <2>1 DEF Registry, NoDangling
<1>5. \A u \in Threads \ {t} : pc[u] = "build" => g_ssh[u] \in Conns \ {c}
  BY <1>1, Mutex, PcLabels DEF c, Locked, TypeOK, ThreadType
<1>6. WalkOnRegistry'
  <2> SUFFICES ASSUME NEW u \in Threads
               PROVE  /\ pc'[u] = "build" => ssh'[g_ssh'[u]] = NULL
                      /\ pc'[u] = "reopen" => todo'[u] \subseteq
                           {g \in handles'[g_ssh'[u]] : ptr'[g] = NULL}
    BY DEF WalkOnRegistry
  <2>1. CASE u = t
    <3>1. \A h \in handles[c] : h \in live /\ conn[h] = c
      BY <1>1 DEF Registry, RegistryExact
    <3> QED BY <1>1, <1>3, <2>1, <3>1 DEF c
  <2>2. CASE u # t
    BY <1>1, <1>5, <2>2 DEF Registry, WalkOnRegistry
  <2> QED BY <2>1, <2>2
<1> QED BY <1>2, <1>4, <1>6 DEF Registry

\* One turn of the walk.
LEMMA ReopenRegistry ==
  ASSUME TypeOK, LockHeld, Registry, NEW t \in Threads, NEW h \in Handles,
         NEW ok \in BOOLEAN, Reopen(t, h, ok)
  PROVE  Registry'
<1> DEFINE c == g_ssh[t]
<1>1. /\ c \in Conns /\ g_ssh' = g_ssh /\ pc' = pc /\ pc[t] = "reopen"
      /\ \A u \in Threads \ {t} : todo'[u] = todo[u]
      /\ h \in todo[t] /\ todo'[t] = todo[t] \ {h}
      /\ UNCHANGED <<handles, live, conn, ssh>>
      /\ \A g \in Handles \ {h} : ptr'[g] = ptr[g]
      /\ ptr'[h] \in {ptr[h], ssh[c]}
  BY PcLabels DEF Reopen, At, TypeOK, ThreadType, HandleType, connVars
<1> HIDE DEF c
<1>2. RegistryExact'
  BY <1>1 DEF Registry, RegistryExact
<1>3. h \in handles[c] /\ h \in live /\ conn[h] = c
  BY <1>1 DEF c, Registry, RegistryExact, WalkOnRegistry
<1>4. NoDangling'
  BY <1>1, <1>3 DEF Registry, NoDangling, TypeOK, HandleType
<1>5. \A u \in Threads \ {t} : pc[u] = "reopen" => g_ssh[u] \in Conns \ {c}
  BY <1>1, Mutex, PcLabels DEF c, Locked, TypeOK, ThreadType
<1>6. \A d \in Conns \ {c} : h \notin handles[d]
  BY <1>3 DEF Registry, RegistryExact
<1>7. \A d \in Conns : handles[d] \subseteq Handles
  BY DEF TypeOK, HandleType
<1>8. WalkOnRegistry'
  <2> SUFFICES ASSUME NEW u \in Threads
               PROVE  /\ pc[u] = "build" => ssh[g_ssh[u]] = NULL
                      /\ pc[u] = "reopen" => todo'[u] \subseteq
                           {g \in handles[g_ssh[u]] : ptr'[g] = NULL}
    BY <1>1 DEF WalkOnRegistry
  <2>1. CASE u = t
    BY <1>1, <1>7, <2>1 DEF c, Registry, WalkOnRegistry
  <2>2. CASE u # t
    BY <1>1, <1>5, <1>6, <1>7, <2>2 DEF Registry, WalkOnRegistry
  <2> QED BY <2>1, <2>2
<1> QED BY <1>2, <1>4, <1>8 DEF Registry

\* The registry of a connection is exactly its open handles and none of them
\* dangles, through the teardown, the adoption and the walk of gd_reconnect.
THEOREM RegistrySafe == Spec => []Registry
<1>1. Init => Registry
  BY PcLabels DEF Init, Registry, RegistryExact, NoDangling, WalkOnRegistry
<1>2. TypeOK /\ LockHeld /\ CallsServed /\ Registry /\ [Next]_vars => Registry'
  <2> SUFFICES ASSUME TypeOK, LockHeld, CallsServed, Registry, [Next]_vars
               PROVE  Registry'
    OBVIOUS
  <2>0. ThreadType /\ {"run", "heal", "build", "reopen"} = Locked
    BY DEF TypeOK, Locked
  <2> USE DEF At, handleVars, connVars, walkVars
  <2>1. ASSUME NEW t \in Threads, NEW o \in Ops, NEW h \in Handles \cup {None}, Call(t, o, h)
        PROVE Registry'
    BY <2>1, EnterFrame, PcLabels, FrameRegistry DEF Call
  <2>2. ASSUME NEW w \in Workers, Acquire(w) PROVE Registry'
    BY <2>0, <2>2, FrameRegistry DEF Acquire, ThreadType
  <2>3. ASSUME NEW t \in Threads, Served(t) PROVE Registry'
    <3>1. CASE CloseOrKeep(t)
      BY <2>0, <2>3, <3>1, CloseRegistry DEF Served
    <3>2. CASE Register(g_ssh[t], call[t].fd, call[t].op = "opendir") /\ call[t].op \in OpenOps
      <4>1. (call[t].op = "opendir") \in BOOLEAN
        OBVIOUS
      <4> QED BY <2>0, <2>3, <3>2, <4>1, OpenRegistry DEF Served
    <3>3. CASE UNCHANGED handleVars
      BY <2>3, <3>3, ReturnFrame, PcLabels, FrameRegistry DEF Served
    <3> QED BY <2>3, <3>1, <3>2, <3>3 DEF Served
  <2>4. ASSUME NEW t \in Threads, RunStale(t) PROVE Registry'
    BY <2>0, <2>4, CloseRegistry DEF RunStale
  <2>5. ASSUME NEW t \in Threads, RunProbe(t) PROVE Registry'
    BY <2>0, <2>5, PcLabels, FrameRegistry DEF RunProbe, Pick, ThreadType
  <2>6. ASSUME NEW t \in Threads, RunFailed(t) PROVE Registry'
    <3>1. CASE Recovers(t)
      <4>1. UNCHANGED handleVars
        BY <2>6, <3>1 DEF RunFailed, Recovers, CloseOrKeep
      <4> QED BY <2>0, <2>6, <3>1, <4>1, PcLabels, FrameRegistry DEF RunFailed, ThreadType
    <3>2. CASE ~Recovers(t)
      BY <2>0, <2>6, <3>2, CloseRegistry DEF RunFailed
    <3> QED BY <3>1, <3>2
  <2>7. ASSUME NEW t \in Threads, HealSkip(t) \/ ReopenDone(t) PROVE Registry'
    BY <2>0, <2>7, PcLabels, FrameRegistry DEF HealSkip, ReopenDone, ThreadType
  <2>8. ASSUME NEW t \in Threads, BuildFail(t) PROVE Registry'
    BY <2>8, ReturnFrame, PcLabels, FrameRegistry DEF BuildFail
  <2>9. ASSUME NEW t \in Threads, Decide(t) PROVE Registry'
    <3>1. CASE call[t].op = "io" /\ stale[call[t].fd]
      BY <2>9, <3>1, ReturnFrame, PcLabels, FrameRegistry DEF Decide
    <3>2. CASE ~(call[t].op = "io" /\ stale[call[t].fd])
      BY <2>9, <3>2, EnterFrame, PcLabels, FrameRegistry DEF Decide
    <3> QED BY <3>1, <3>2
  <2>10. CASE KeepaliveCheck
    BY <2>0, <2>10, PcLabels, FrameRegistry DEF KeepaliveCheck, PickConn, ThreadType
  <2>11. CASE UNCHANGED <<ssh, handles, live, conn, ptr, todo, pc, g_ssh>>
    BY <2>11 DEF Registry, RegistryExact, NoDangling, WalkOnRegistry
  <2>12. CASE KeepaliveSend
    <3>1. CASE ssh[ka] # NULL
      BY <2>0, <2>12, <3>1, PcLabels, FrameRegistry DEF KeepaliveSend, ThreadType
    <3>2. CASE ssh[ka] = NULL
      BY <2>11, <2>12, <3>2 DEF KeepaliveSend
    <3> QED BY <3>1, <3>2
  <2>13. ASSUME NEW t \in Threads, RunNoSession(t) PROVE Registry'
    BY <2>11, <2>13 DEF RunNoSession
  <2> QED
    BY <2>1, <2>2, <2>3, <2>4, <2>5, <2>6, <2>7, <2>8, <2>9, <2>10, <2>11, <2>12, <2>13,
       TeardownRegistry, AdoptRegistry, ReopenRegistry
    DEF Next, Progress, Run, Heal, KeepaliveProgress, Drop, Dead, vars, Workers
<1> QED
  BY <1>1, <1>2, TypeCorrect, LockOwned, CallsSafe, PTL DEF Spec

\* gd_reconnect finds every open handle of its connection on the registry and
\* no freed one.
THEOREM RegistryIsExact == Spec => []RegistryExact
  BY RegistrySafe, PTL DEF Registry

\* An open handle belongs to the current session of its connection or is
\* NULL, so a thread that wakes after gd_reconnect never uses a freed libssh2
\* handle.
THEOREM NothingDangles == Spec => []NoDangling
  BY RegistrySafe, PTL DEF Registry

-----------------------------------------------------------------------------

\* The fields of a failure record have their types.
LEMMA FailureFields ==
  ASSUME ThreadType, NEW t \in Threads
  PROVE  failed[t].conn \in Conns /\ failed[t].gen \in Nat /\ failed[t].ssh \in Nat
  BY DEF ThreadType, Failures

\* The other threads' records survive a step of w: generations only grow.
LEMMA FailureFrame ==
  ASSUME TypeOK, TypeOK', FailureKnown, NEW w \in Workers,
         \A c \in Conns : gen[c] <= gen'[c],
         \A u \in Workers \ {w} : pc'[u] = pc[u] /\ g_ssh'[u] = g_ssh[u],
         \A u \in Threads \ {w} : call'[u] = call[u] /\ failed'[u] = failed[u] /\ g_pin'[u] = g_pin[u],
         w \in Threads => FailureOf(w)'
  PROVE  FailureKnown'
<1> SUFFICES ASSUME NEW u \in Threads, u # w PROVE FailureOf(u)'
  BY Zenon DEF FailureKnown
<1>1. /\ pc'[u] = pc[u] /\ g_ssh'[u] = g_ssh[u]
      /\ call'[u] = call[u] /\ failed'[u] = failed[u] /\ g_pin'[u] = g_pin[u]
  BY PcLabels
<1>2. FailureOf(u)
  BY DEF FailureKnown
<1>3. /\ failed[u].conn \in Conns /\ failed[u].gen \in Nat
      /\ gen[failed[u].conn] \in Nat /\ gen'[failed[u].conn] \in Nat
      /\ gen[failed[u].conn] <= gen'[failed[u].conn]
  BY FailureFields DEF TypeOK, ConnType
<1> QED BY <1>1, <1>2, <1>3 DEF FailureOf, Retrying

\* A callback that returned remembers no failure and no pin.
LEMMA FailureReturn ==
  ASSUME TypeOK, NEW t \in Threads, Return(t)
  PROVE  FailureOf(t)'
  BY ReturnFrame DEF FailureOf, Retrying, NoFailure

\* Every rebuild of a session moves the generation by one, so the generation
\* read under the lock identifies the session a callback ran on.
THEOREM SerialsSafe == Spec => []SerialsMatch
<1>1. Init => SerialsMatch
  BY PcLabels DEF Init, SerialsMatch, NULL
<1>2. TypeOK /\ TypeOK' /\ LockHeld /\ CallsServed /\ SerialsMatch /\ [Next]_vars => SerialsMatch'
  <2> SUFFICES ASSUME TypeOK, TypeOK', LockHeld, CallsServed, SerialsMatch, [Next]_vars
               PROVE  SerialsMatch'
    OBVIOUS
  <2>0. ConnType /\ ThreadType /\ {"run", "heal", "build", "reopen"} = Locked
    BY DEF TypeOK, Locked
  <2> USE DEF At, connVars
  <2>1. ASSUME NEW w \in Workers, pc'[w] # "run", UNCHANGED connVars,
               \A u \in Workers \ {w} : pc'[u] = pc[u] /\ g_ssh'[u] = g_ssh[u] /\ g_gen'[u] = g_gen[u]
        PROVE SerialsMatch'
    BY <2>1, PcLabels DEF SerialsMatch
  <2>2. ASSUME NEW t \in Threads, NEW o \in Ops, NEW h \in Handles \cup {None}, Call(t, o, h)
        PROVE SerialsMatch'
    BY <2>1, <2>2, EnterFrame, PcLabels DEF Call
  <2>3. ASSUME NEW w \in Workers, Acquire(w) PROVE SerialsMatch'
    BY <2>0, <2>3, PcLabels DEF Acquire, SerialsMatch, ThreadType
  <2>4. ASSUME NEW t \in Threads, Served(t) \/ RunStale(t) \/ BuildFail(t) PROVE SerialsMatch'
    BY <2>1, <2>4, ReturnFrame, PcLabels DEF Served, RunStale, BuildFail
  <2>5. ASSUME NEW t \in Threads, RunProbe(t) PROVE SerialsMatch'
    BY <2>0, <2>1, <2>5, PcLabels DEF RunProbe, Pick, ThreadType
  <2>6. ASSUME NEW t \in Threads, RunFailed(t) PROVE SerialsMatch'
    <3>1. CASE Recovers(t)
      BY <2>0, <2>1, <2>6, <3>1, PcLabels DEF RunFailed, ThreadType
    <3>2. CASE ~Recovers(t)
      BY <2>1, <2>6, <3>2, ReturnFrame, PcLabels DEF RunFailed
    <3> QED BY <3>1, <3>2
  <2>7. ASSUME NEW t \in Threads, HealSkip(t) \/ ReopenDone(t) PROVE SerialsMatch'
    BY <2>0, <2>1, <2>7, PcLabels DEF HealSkip, ReopenDone, ThreadType
  <2>8. ASSUME NEW t \in Threads, Teardown(t) PROVE SerialsMatch'
    BY <2>0, <2>8, PcLabels DEF Teardown, SerialsMatch, ThreadType, ConnType
  <2>9. ASSUME NEW t \in Threads, Adopt(t) PROVE SerialsMatch'
    <3>1. /\ g_ssh[t] \in Conns /\ UNCHANGED <<g_ssh, g_gen>> /\ pc'[t] # "run"
          /\ \A u \in Threads \ {t} : pc'[u] = pc[u]
          /\ \A c \in Conns \ {g_ssh[t]} :
               ssh'[c] = ssh[c] /\ alive'[c] = alive[c] /\ built'[c] = built[c] /\ gen'[c] = gen[c]
      BY <2>0, <2>9, PcLabels DEF Adopt, ThreadType, ConnType
    <3>2. /\ built'[g_ssh[t]] = built[g_ssh[t]] + 1 /\ ssh'[g_ssh[t]] = built[g_ssh[t]] + 1
          /\ gen'[g_ssh[t]] = gen[g_ssh[t]] + 1
          /\ gen[g_ssh[t]] \in Nat /\ built[g_ssh[t]] \in Nat
      BY <2>0, <2>9, <3>1 DEF Adopt, ConnType
    <3>3. \A u \in Threads \ {t} : pc[u] = "run" => g_ssh[u] \in Conns \ {g_ssh[t]}
      BY <2>0, <2>9, Mutex, PcLabels DEF Adopt, ThreadType
    <3>4. \A c \in Conns : built'[c] = gen'[c] + 1 /\ ssh'[c] \in {NULL, built'[c]}
      BY <3>1, <3>2 DEF SerialsMatch
    <3>5. ssh'[g_ssh[t]] # NULL
      BY <3>2 DEF NULL
    <3>7. \A c \in Conns : alive[c] => ssh[c] # NULL
      BY DEF SerialsMatch
    <3>6. \A c \in Conns : alive'[c] => ssh'[c] # NULL
      <4> TAKE c \in Conns
      <4>1. CASE c = g_ssh[t]
        BY <4>1, <3>5
      <4>2. CASE c # g_ssh[t]
        BY <4>2, <3>1, <3>7
      <4> QED BY <4>1, <4>2
    <3> QED BY <3>1, <3>3, <3>4, <3>6 DEF SerialsMatch
  <2>10. ASSUME NEW t \in Threads, Decide(t) PROVE SerialsMatch'
    <3>1. CASE call[t].op = "io" /\ stale[call[t].fd]
      BY <2>1, <2>10, <3>1, ReturnFrame, PcLabels DEF Decide
    <3>2. CASE ~(call[t].op = "io" /\ stale[call[t].fd])
      BY <2>1, <2>10, <3>2, EnterFrame, PcLabels DEF Decide
    <3> QED BY <3>1, <3>2
  <2>11. CASE KeepaliveCheck \/ KeepaliveSend
    BY <2>0, <2>11, PcLabels
    DEF KeepaliveCheck, KeepaliveSend, PickConn, ThreadType, SerialsMatch
  <2>12. ASSUME NEW c \in Conns, Drop(c) PROVE SerialsMatch'
    BY <2>0, <2>12 DEF Drop, SerialsMatch, ConnType
  <2>13. CASE UNCHANGED <<connVars, pc, g_ssh, g_gen>>
    BY <2>13 DEF SerialsMatch
  <2>14. ASSUME NEW t \in Threads, RunNoSession(t) \/ \E h \in Handles, ok \in BOOLEAN : Reopen(t, h, ok)
         PROVE SerialsMatch'
    BY <2>13, <2>14 DEF RunNoSession, Reopen
  <2> QED
    BY <2>2, <2>3, <2>4, <2>5, <2>6, <2>7, <2>8, <2>9, <2>10, <2>11, <2>12, <2>13, <2>14
    DEF Next, Progress, Run, Heal, KeepaliveProgress, Dead, vars, Workers
<1> QED
  BY <1>1, <1>2, TypeCorrect, LockOwned, CallsSafe, PTL DEF Spec

\* A thread that failed remembers the session that failed it and calls again
\* only when that session was replaced, on the same connection.
THEOREM FailuresSafe == Spec => []FailureKnown
<1>1. Init => FailureKnown
  BY PcLabels DEF Init, FailureKnown, FailureOf, Retrying, NoFailure, NULL
<1>2. TypeOK /\ TypeOK' /\ CallsServed /\ SerialsMatch /\ FailureKnown /\ [Next]_vars
        => FailureKnown'
  <2> SUFFICES ASSUME TypeOK, TypeOK', CallsServed, SerialsMatch, FailureKnown,
                      [Next]_vars
               PROVE  FailureKnown'
    OBVIOUS
  <2>0. ConnType /\ ThreadType
    BY DEF TypeOK
  <2>g. ASSUME gen' = gen PROVE \A c \in Conns : gen[c] <= gen'[c]
    BY <2>0, <2>g DEF ConnType
  <2>k. \A t \in Threads : FailureOf(t)
    BY DEF FailureKnown
  <2> USE DEF At, connVars, callVars
  <2>1. ASSUME NEW t \in Threads, gen' = gen, Return(t) PROVE FailureKnown'
    BY <2>1, <2>g, FailureReturn, ReturnFrame, PcLabels, FailureFrame
  <2>2. ASSUME NEW t \in Threads, NEW o \in Ops, NEW h \in Handles \cup {None}, Call(t, o, h)
        PROVE FailureKnown'
    <3>1. /\ pc'[t] = "acquire" /\ failed'[t] = failed[t] /\ g_pin'[t] = g_pin[t]
          /\ ~Retrying(t) /\ g_pin[t] = None
      BY <2>2, <2>k, EnterFrame DEF Call, FailureOf
    <3>2. FailureOf(t)'
      BY <3>1 DEF FailureOf, Retrying
    <3>3. /\ gen' = gen
          /\ \A u \in Workers \ {t} : pc'[u] = pc[u] /\ g_ssh'[u] = g_ssh[u]
          /\ \A u \in Threads \ {t} : call'[u] = call[u] /\ failed'[u] = failed[u] /\ g_pin'[u] = g_pin[u]
      BY <2>0, <2>2, EnterFrame DEF Call, ThreadType
    <3> QED BY <2>g, <3>2, <3>3, PcLabels, FailureFrame
  <2>3. ASSUME NEW w \in Workers, Acquire(w) PROVE FailureKnown'
    <3>1. /\ gen' = gen /\ UNCHANGED <<call, failed, g_pin, g_ssh>>
          /\ \A u \in Workers \ {w} : pc'[u] = pc[u]
          /\ \/ pc[w] = "acquire" /\ pc'[w] = "run"
             \/ pc[w] = "healwait" /\ pc'[w] = "heal"
      BY <2>0, <2>3 DEF Acquire, ThreadType
    <3>2. w \in Threads => FailureOf(w)'
      BY <2>k, <3>1 DEF FailureOf, Retrying
    <3> QED BY <2>g, <3>1, <3>2, FailureFrame
  <2>4. ASSUME NEW t \in Threads, Served(t) \/ RunStale(t) \/ BuildFail(t) PROVE FailureKnown'
    BY <2>1, <2>4 DEF Served, RunStale, BuildFail
  <2>5. ASSUME NEW t \in Threads, RunProbe(t) PROVE FailureKnown'
    <3>1. /\ gen' = gen /\ UNCHANGED <<call, failed, g_pin>>
          /\ \A u \in Workers \ {t} : pc'[u] = pc[u] /\ g_ssh'[u] = g_ssh[u]
          /\ pc[t] = "run" /\ pc'[t] = "acquire"
          /\ g_pin[t] # None => g_ssh'[t] = g_pin[t]
      BY <2>0, <2>5, PcLabels DEF RunProbe, Pick, ThreadType
    <3>2. call[t].op \in PathOps
      BY <2>5, OpKinds DEF RunProbe, CallsServed, CallServed
    <3>3. failed[t].conn # None
      BY <2>0, FailureFields, PcLabels
    <3>4. FailureOf(t)'
      BY <2>k, <3>1, <3>2, <3>3 DEF FailureOf, Retrying
    <3> QED BY <2>g, <3>1, <3>4, PcLabels, FailureFrame
  <2>6. ASSUME NEW t \in Threads, RunFailed(t) PROVE FailureKnown'
    <3>1. CASE Recovers(t)
      <4>1. /\ gen' = gen /\ UNCHANGED <<call, g_pin, g_ssh>>
            /\ pc[t] = "run" /\ pc'[t] = "healwait"
            /\ \A u \in Workers \ {t} : pc'[u] = pc[u]
            /\ \A u \in Threads \ {t} : failed'[u] = failed[u]
            /\ failed'[t] = [conn |-> g_ssh[t], gen |-> g_gen[t], ssh |-> ssh[g_ssh[t]]]
        BY <2>0, <2>6, <3>1, PcLabels DEF RunFailed, ThreadType
      <4>2. g_ssh[t] \in Conns /\ gen[g_ssh[t]] \in Nat
        BY <2>0, PcLabels DEF ConnType, ThreadType
      <4>3. ssh[g_ssh[t]] # NULL
        BY <2>6, <4>2 DEF RunFailed, TransportError, SerialsMatch
      <4>4. ssh[g_ssh[t]] = gen[g_ssh[t]] + 1 /\ g_gen[t] = gen[g_ssh[t]]
        BY <4>1, <4>2, <4>3 DEF SerialsMatch
      <4>5. g_pin[t] = None
        BY <2>k, <3>1 DEF FailureOf, Recovers
      <4>6. FailureOf(t)'
        BY <4>1, <4>2, <4>3, <4>4, <4>5 DEF FailureOf, Retrying
      <4> QED BY <2>g, <4>1, <4>6, PcLabels, FailureFrame
    <3>2. CASE ~Recovers(t)
      BY <2>1, <2>6, <3>2 DEF RunFailed
    <3> QED BY <3>1, <3>2
  <2>7. ASSUME NEW t \in Threads, HealSkip(t) \/ Teardown(t) \/ ReopenDone(t) PROVE FailureKnown'
    <3>1. /\ gen' = gen /\ UNCHANGED <<call, failed, g_pin, g_ssh>>
          /\ \A u \in Workers \ {t} : pc'[u] = pc[u]
          /\ \/ pc[t] = "heal" /\ pc'[t] = "decide" /\ gen[g_ssh[t]] # failed[t].gen
             \/ pc[t] = "heal" /\ pc'[t] = "build"
             \/ pc[t] = "reopen" /\ pc'[t] = "decide"
      BY <2>0, <2>7, PcLabels DEF HealSkip, Teardown, ReopenDone, ThreadType
    <3>2. failed[t].gen \in Nat /\ gen[g_ssh[t]] \in Nat
      BY <2>0, FailureFields, PcLabels DEF ThreadType, ConnType
    <3>3. FailureOf(t)'
      BY <2>k, <3>1, <3>2 DEF FailureOf, Retrying
    <3> QED BY <2>g, <3>1, <3>3, PcLabels, FailureFrame
  <2>8. ASSUME NEW t \in Threads, Adopt(t) PROVE FailureKnown'
    <3>1. /\ UNCHANGED <<call, failed, g_pin, g_ssh>>
          /\ \A u \in Workers \ {t} : pc'[u] = pc[u]
          /\ pc[t] = "build" /\ pc'[t] = "reopen"
          /\ \A c \in Conns : gen'[c] = IF c = g_ssh[t] THEN gen[c] + 1 ELSE gen[c]
      BY <2>0, <2>8, PcLabels DEF Adopt, ThreadType, ConnType
    <3>2. \A c \in Conns : gen[c] <= gen'[c]
      BY <2>0, <3>1 DEF ConnType
    <3>3. failed[t].gen \in Nat /\ g_ssh[t] \in Conns /\ gen[g_ssh[t]] \in Nat
      BY <2>0, FailureFields, PcLabels DEF ThreadType, ConnType
    <3>4. FailureOf(t)'
      BY <2>k, <3>1, <3>3 DEF FailureOf, Retrying
    <3> QED BY <3>1, <3>2, <3>4, PcLabels, FailureFrame
  <2>9. ASSUME NEW t \in Threads, Decide(t) PROVE FailureKnown'
    <3>1. CASE call[t].op = "io" /\ stale[call[t].fd]
      BY <2>1, <2>9, <3>1 DEF Decide
    <3>2. CASE ~(call[t].op = "io" /\ stale[call[t].fd])
      <4>1. /\ gen' = gen /\ UNCHANGED <<call, failed>> /\ pc[t] = "decide"
            /\ g_pin' = [g_pin EXCEPT ![t] = IF call[t].op = "io" THEN None ELSE failed[t].conn]
            /\ Enter(t, call[t].op, call[t].fd, g_pin'[t])
        BY <2>9, <3>2 DEF Decide
      <4>2. /\ g_pin'[t] = IF call[t].op = "io" THEN None ELSE failed[t].conn
            /\ \A u \in Threads \ {t} : g_pin'[u] = g_pin[u]
        BY <2>0, <4>1 DEF ThreadType
      <4>3. /\ pc'[t] = "acquire"
            /\ \A u \in Workers \ {t} : pc'[u] = pc[u] /\ g_ssh'[u] = g_ssh[u]
            /\ call[t].op \in HandleOps => g_ssh'[t] = g_ssh[t]
            /\ call[t].op \notin HandleOps /\ g_pin'[t] # None => g_ssh'[t] = g_pin'[t]
        BY <4>1, EnterFrame DEF CallsServed, CallServed
      <4>4. /\ failed[t].conn # None /\ "io" \in HandleOps
            /\ call[t].op \in PathOps => call[t].op # "io" /\ call[t].op \notin HandleOps
        BY <2>0, FailureFields, OpKinds, PcLabels DEF HandleOps
      <4>5. FailureOf(t)'
        BY <2>k, <4>1, <4>2, <4>3, <4>4 DEF FailureOf, Retrying
      <4> QED BY <2>g, <4>1, <4>2, <4>3, <4>5, PcLabels, FailureFrame
    <3> QED BY <3>1, <3>2
  <2>10. CASE KeepaliveCheck \/ KeepaliveSend
    <3>1. /\ gen' = gen /\ UNCHANGED <<call, failed, g_pin>>
          /\ \A u \in Workers \ {Keeper} : pc'[u] = pc[u] /\ g_ssh'[u] = g_ssh[u]
      BY <2>0, <2>10, PcLabels DEF KeepaliveCheck, KeepaliveSend, PickConn, ThreadType
    <3> QED BY <2>g, <3>1, PcLabels, FailureFrame
  <2>11. CASE UNCHANGED <<gen, pc, g_ssh, call, failed, g_pin>>
    BY <2>11 DEF FailureKnown, FailureOf, Retrying
  <2>12. ASSUME NEW t \in Threads, RunNoSession(t) \/ \E h \in Handles, ok \in BOOLEAN : Reopen(t, h, ok)
         PROVE FailureKnown'
    BY <2>11, <2>12 DEF RunNoSession, Reopen
  <2> QED
    BY <2>2, <2>3, <2>4, <2>5, <2>6, <2>7, <2>8, <2>9, <2>10, <2>11, <2>12
    DEF Next, Progress, Run, Heal, KeepaliveProgress, Drop, Dead, vars, Workers
<1> QED
  BY <1>1, <1>2, TypeCorrect, CallsSafe, SerialsSafe, PTL DEF Spec

\* The retry of a callback runs on the connection that was healed for it, and
\* never on the session that failed it.
THEOREM RetriesHealed == Spec => []RetryRunsHealed
<1>1. TypeOK /\ SerialsMatch /\ FailureKnown => RetryRunsHealed
  <2> SUFFICES ASSUME TypeOK, SerialsMatch, FailureKnown, NEW t \in Threads,
                      pc[t] = "run", Retrying(t)
               PROVE  g_ssh[t] = failed[t].conn /\ ssh[g_ssh[t]] # failed[t].ssh
    BY DEF RetryRunsHealed
  <2>1. /\ g_ssh[t] = failed[t].conn /\ failed[t].ssh = failed[t].gen + 1
        /\ failed[t].gen < gen[g_ssh[t]]
    BY DEF FailureKnown, FailureOf
  <2>2. /\ g_ssh[t] \in Conns /\ gen[g_ssh[t]] \in Nat
        /\ failed[t].gen \in Nat
    BY FailureFields, PcLabels DEF TypeOK, ThreadType, ConnType
  <2>3. ssh[g_ssh[t]] \in {NULL, gen[g_ssh[t]] + 1}
    BY <2>2 DEF SerialsMatch
  <2> QED BY <2>1, <2>2, <2>3 DEF NULL
<1> QED BY <1>1, TypeCorrect, SerialsSafe, FailuresSafe, PTL

\* A thread is pinned only during a retry, and to the connection that failed
\* it: gd_unpin is reached on every way out of RETRY_PATH_OP.
THEOREM PinsHeld == Spec => []PinOnlyInRetry
<1>1. FailureKnown => PinOnlyInRetry
  BY DEF FailureKnown, FailureOf, PinOnlyInRetry
<1> QED BY <1>1, FailuresSafe, PTL

\* Of all steps only the head of gd_reconnect takes a thread from gd_heal to
\* the building of a session.
LEMMA OnlyTeardown ==
  ASSUME TypeOK, [Next]_vars, NEW t \in Threads, pc[t] = "heal", pc'[t] = "build"
  PROVE  Teardown(t)
<1>0. ThreadType /\ t \in Workers
  BY PcLabels DEF TypeOK
<1>1. ASSUME NEW w \in Workers, pc'[w] # "build",
             \A u \in Workers \ {w} : pc'[u] = pc[u]
      PROVE FALSE
  BY <1>0, <1>1
<1>2. ASSUME NEW u \in Threads, NEW o \in Ops, NEW h \in Handles \cup {None}, Call(u, o, h)
      PROVE FALSE
  BY <1>1, <1>2, EnterFrame, PcLabels DEF Call
<1>3. ASSUME NEW w \in Workers, Acquire(w) PROVE FALSE
  BY <1>0, <1>1, <1>3 DEF Acquire, ThreadType
<1>4. ASSUME NEW u \in Threads, Return(u) PROVE FALSE
  BY <1>1, <1>4, ReturnFrame, PcLabels
<1>5. ASSUME NEW u \in Threads, RunProbe(u) \/ HealSkip(u) \/ Adopt(u) \/ ReopenDone(u)
      PROVE FALSE
  BY <1>0, <1>1, <1>5, PcLabels DEF RunProbe, HealSkip, Adopt, ReopenDone, ThreadType
<1>6. ASSUME NEW u \in Threads, RunFailed(u) PROVE FALSE
  BY <1>0, <1>1, <1>4, <1>6, PcLabels DEF RunFailed, ThreadType
<1>7. ASSUME NEW u \in Threads, Decide(u) PROVE FALSE
  BY <1>1, <1>4, <1>7, EnterFrame, PcLabels DEF Decide
<1>8. ASSUME NEW u \in Threads, Teardown(u) PROVE u = t
  BY <1>0, <1>8, PcLabels DEF Teardown, ThreadType
<1>9. ~(KeepaliveCheck \/ KeepaliveSend)
  BY <1>0, PcLabels DEF KeepaliveCheck, KeepaliveSend, ThreadType
<1>10. pc' # pc
  OBVIOUS
<1> QED
  BY <1>2, <1>3, <1>4, <1>5, <1>6, <1>7, <1>8, <1>9, <1>10
  DEF Next, Progress, Run, Heal, KeepaliveProgress, Drop, Dead, vars, callVars,
      Served, RunStale, BuildFail, RunNoSession, Reopen, Workers

\* gd_reconnect frees only the session that failed its caller, or none:
\* threads that fail together on one session rebuild it once, because gd_heal
\* compares generations.
THEOREM FreshSessionsKept == Spec => FreshSessionKept
<1>1. TypeOK /\ SerialsMatch /\ FailureKnown /\ [Next]_vars =>
        [\A t \in Threads :
           pc[t] = "heal" /\ pc'[t] = "build" => ssh[g_ssh[t]] \in {NULL, failed[t].ssh}]_vars
  <2> SUFFICES ASSUME TypeOK, SerialsMatch, FailureKnown, [Next]_vars, NEW t \in Threads,
                      pc[t] = "heal", pc'[t] = "build"
               PROVE  ssh[g_ssh[t]] \in {NULL, failed[t].ssh}
    OBVIOUS
  <2>1. gen[g_ssh[t]] = failed[t].gen
    BY OnlyTeardown DEF Teardown
  <2>2. failed[t].ssh = failed[t].gen + 1
    BY DEF FailureKnown, FailureOf
  <2>3. g_ssh[t] \in Conns
    BY PcLabels DEF TypeOK, ThreadType
  <2> QED BY <2>1, <2>2, <2>3 DEF SerialsMatch
<1> QED BY <1>1, TypeCorrect, SerialsSafe, FailuresSafe, PTL DEF Spec, FreshSessionKept
-----------------------------------------------------------------------------

\* Handles that a step of w leaves alone, when w runs no gd_reconnect on
\* their connection.
LEMMA FlagFrame ==
  ASSUME TypeOK, FlagsKept, NEW w \in Workers, NEW h \in live,
         conn'[h] = conn[h], ptr'[h] = ptr[h], stale'[h] = stale[h],
         ssh'[conn[h]] = ssh[conn[h]], degraded => degraded',
         \A u \in Workers \ {w} : pc'[u] = pc[u] /\ g_ssh'[u] = g_ssh[u],
         \A u \in Threads \ {w} : todo'[u] = todo[u] /\ lost'[u] = lost[u],
         pc[w] \notin {"build", "reopen"} \/ g_ssh[w] # conn[h]
  PROVE  FlagKept(h)'
<1>1. InWalk(h) => InWalk(h)'
  BY PcLabels DEF InWalk
<1>2. InLosingWalk(h) => InLosingWalk(h)'
  BY PcLabels DEF InLosingWalk
<1>3. FlagKept(h)
  BY DEF FlagsKept
<1> QED BY <1>1, <1>2, <1>3, Zenon DEF FlagKept

\* A step of w that runs no gd_reconnect and touches no session, pointer or
\* flag keeps every handle's flag.
LEMMA FlagsFrame ==
  ASSUME TypeOK, FlagsKept, NEW w \in Workers,
         ssh' = ssh, conn' = conn, ptr' = ptr, stale' = stale, degraded' = degraded,
         live' \subseteq live,
         \A u \in Workers \ {w} : pc'[u] = pc[u] /\ g_ssh'[u] = g_ssh[u],
         todo' = todo, lost' = lost,
         pc[w] \notin {"build", "reopen"}
  PROVE  FlagsKept'
<1>1. ASSUME NEW h \in live PROVE FlagKept(h)'
  BY FlagFrame
<1> QED BY <1>1, Zenon DEF FlagsKept

\* sh->stale agrees with the handle pointer but for the handles a
\* gd_reconnect is still walking to, and a stale handle on a connection with
\* a session has been counted as lost.
THEOREM FlagsSafe == Spec => []FlagsKept
<1>1. Init => FlagsKept
  BY DEF Init, FlagsKept
<1>2. TypeOK /\ TypeOK' /\ LockHeld /\ Registry /\ SerialsMatch /\ FlagsKept /\ [Next]_vars
        => FlagsKept'
  <2> SUFFICES ASSUME TypeOK, TypeOK', LockHeld, Registry, SerialsMatch, FlagsKept,
                      [Next]_vars
               PROVE  FlagsKept'
    OBVIOUS
  <2>0. ConnType /\ HandleType /\ ThreadType
    BY DEF TypeOK
  <2> USE DEF At, connVars, handleVars, walkVars
  <2>1. ASSUME NEW t \in Threads, NEW o \in Ops, NEW h \in Handles \cup {None}, Call(t, o, h)
        PROVE FlagsKept'
    BY <2>1, EnterFrame, PcLabels, FlagsFrame DEF Call
  <2>2. ASSUME NEW w \in Workers, Acquire(w) PROVE FlagsKept'
    BY <2>0, <2>2, FlagsFrame DEF Acquire, ThreadType
  <2>3. ASSUME NEW t \in Threads, pc[t] = "run" \/ pc[t] = "decide", Return(t), CloseOrKeep(t),
               UNCHANGED <<ssh, degraded, todo, lost>>
        PROVE FlagsKept'
    <3>1. /\ conn' = conn /\ ptr' = ptr /\ stale' = stale /\ live' \subseteq live
      BY <2>3 DEF CloseOrKeep, Unregister
    <3> QED BY <2>3, <3>1, ReturnFrame, PcLabels, FlagsFrame
  <2>4. ASSUME NEW t \in Threads, Served(t) PROVE FlagsKept'
    <3>1. CASE CloseOrKeep(t)
      BY <2>3, <2>4, <3>1 DEF Served
    <3>2. CASE UNCHANGED handleVars
      BY <2>4, <3>2, ReturnFrame, PcLabels, FlagsFrame DEF Served
    <3>3. CASE call[t].op \in OpenOps /\ Register(g_ssh[t], call[t].fd, call[t].op = "opendir")
      <4>0. call[t].fd \in Handles
        BY <2>0, <3>3, OpType, OpKinds, PcLabels DEF ThreadType
      <4> PICK k \in Handles : k = call[t].fd
        BY <4>0
      <4>1. k \in Handles /\ g_ssh[t] \in Conns
        BY <2>0, <3>3, PcLabels DEF ThreadType
      <4>2. ssh[g_ssh[t]] # NULL
        BY <2>4, <4>1 DEF Served, SerialsMatch
      <4>3. /\ live' = live \cup {k} /\ ~stale'[k] /\ ptr'[k] # NULL
            /\ \A h \in Handles \ {k} :
                 conn'[h] = conn[h] /\ ptr'[h] = ptr[h] /\ stale'[h] = stale[h]
        BY <2>0, <3>3, <4>1, <4>2 DEF Register, HandleType
      <4>4. FlagKept(k)'
        <5>1. ~stale'[k]
          BY <4>3
        <5>2. ptr'[k] # NULL
          BY <4>3
        <5> QED BY <5>1, <5>2, Zenon DEF FlagKept
      <4>5. ASSUME NEW h \in live, h # k PROVE FlagKept(h)'
        <5>1. h \in Handles
          BY <2>0, <4>5 DEF HandleType
        <5>2. conn'[h] = conn[h] /\ ptr'[h] = ptr[h] /\ stale'[h] = stale[h]
          BY <4>3, <4>5, <5>1, Zenon
        <5> QED BY <2>0, <2>4, <4>5, <5>2, ReturnFrame, PcLabels, FlagFrame DEF Served
      <4>6. ASSUME NEW h \in live' PROVE FlagKept(h)'
        <5>1. live' = live \cup {k}
          BY <4>3
        <5>2. h = k \/ (h \in live /\ h # k)
          BY <5>1, <4>6, Zenon
        <5> QED BY <5>2, <4>4, <4>5, Zenon
      <4> QED BY <4>6, Zenon DEF FlagsKept
    <3> QED BY <2>4, <3>1, <3>2, <3>3 DEF Served
  <2>5. ASSUME NEW t \in Threads, RunStale(t) PROVE FlagsKept'
    BY <2>3, <2>5 DEF RunStale
  <2>6. ASSUME NEW t \in Threads, RunProbe(t) PROVE FlagsKept'
    BY <2>0, <2>6, PcLabels, FlagsFrame DEF RunProbe, Pick, ThreadType
  <2>7. ASSUME NEW t \in Threads, RunFailed(t) PROVE FlagsKept'
    <3>1. CASE Recovers(t)
      <4>1. UNCHANGED handleVars
        BY <2>7, <3>1 DEF RunFailed, Recovers, CloseOrKeep
      <4> QED BY <2>0, <2>7, <3>1, <4>1, PcLabels, FlagsFrame DEF RunFailed, ThreadType
    <3>2. CASE ~Recovers(t)
      BY <2>3, <2>7, <3>2 DEF RunFailed
    <3> QED BY <3>1, <3>2
  <2>8. ASSUME NEW t \in Threads, HealSkip(t) PROVE FlagsKept'
    BY <2>0, <2>8, PcLabels, FlagsFrame DEF HealSkip, ThreadType
  <2>9. ASSUME NEW t \in Threads, Decide(t) PROVE FlagsKept'
    <3>1. CASE call[t].op = "io" /\ stale[call[t].fd]
      BY <2>9, <3>1, ReturnFrame, PcLabels, FlagsFrame DEF Decide
    <3>2. CASE ~(call[t].op = "io" /\ stale[call[t].fd])
      BY <2>9, <3>2, EnterFrame, PcLabels, FlagsFrame DEF Decide
    <3> QED BY <3>1, <3>2
  <2>10. CASE KeepaliveCheck \/ KeepaliveSend
    <3>1. /\ UNCHANGED <<ssh, live, conn, ptr, stale, degraded, todo, lost>>
          /\ \A u \in Workers \ {Keeper} : pc'[u] = pc[u] /\ g_ssh'[u] = g_ssh[u]
          /\ pc[Keeper] \notin {"build", "reopen"}
      BY <2>0, <2>10, PcLabels DEF KeepaliveCheck, KeepaliveSend, PickConn, ThreadType
    <3> QED BY <3>1, PcLabels, FlagsFrame
  <2>11. ASSUME NEW t \in Threads, Teardown(t) PROVE FlagsKept'
    <3> SUFFICES ASSUME NEW h \in live PROVE FlagKept(h)'
      BY <2>11 DEF Teardown, FlagsKept
    <3>1. h \in Handles /\ conn[h] \in Conns /\ g_ssh[t] \in Conns
      BY <2>0, PcLabels DEF HandleType, ThreadType
    <3>2. /\ conn' = conn /\ stale' = stale /\ degraded' = degraded /\ g_ssh' = g_ssh
          /\ todo' = todo /\ lost' = lost /\ pc[t] = "heal" /\ pc'[t] = "build"
          /\ \A u \in Workers \ {t} : pc'[u] = pc[u]
          /\ ssh'[g_ssh[t]] = NULL
          /\ conn[h] # g_ssh[t] => ssh'[conn[h]] = ssh[conn[h]]
      BY <2>0, <2>11, <3>1, PcLabels DEF Teardown, ThreadType, ConnType
    <3>3. CASE conn[h] = g_ssh[t]
      <4>1. InWalk(h)'
        BY <3>2, <3>3 DEF InWalk
      <4>2. ssh'[conn'[h]] = NULL
        BY <3>2, <3>3
      <4> QED BY <4>1, <4>2, Zenon DEF FlagKept
    <3>4. CASE conn[h] # g_ssh[t]
      <4>1. ptr'[h] = ptr[h]
        BY <2>11, <3>1, <3>4 DEF Teardown, Registry, RegistryExact
      <4> QED BY <3>2, <3>4, <4>1, PcLabels, FlagFrame
    <3> QED BY <3>3, <3>4
  <2>12. ASSUME NEW t \in Threads, Adopt(t) PROVE FlagsKept'
    <3> SUFFICES ASSUME NEW h \in live PROVE FlagKept(h)'
      BY <2>12 DEF Adopt, FlagsKept
    <3>1. h \in Handles /\ conn[h] \in Conns /\ g_ssh[t] \in Conns
      BY <2>0, PcLabels DEF HandleType, ThreadType
    <3>2. /\ conn' = conn /\ ptr' = ptr /\ stale' = stale /\ degraded' = degraded
          /\ g_ssh' = g_ssh /\ lost' = lost
          /\ pc'[t] = "reopen" /\ todo'[t] = handles[g_ssh[t]]
          /\ \A u \in Workers \ {t} : pc'[u] = pc[u]
          /\ \A u \in Threads \ {t} : todo'[u] = todo[u]
          /\ conn[h] # g_ssh[t] => ssh'[conn[h]] = ssh[conn[h]]
      BY <2>0, <2>12, <3>1, PcLabels DEF Adopt, ThreadType, ConnType
    <3>3. CASE conn[h] = g_ssh[t]
      <4>1. h \in todo'[t]
        BY <3>1, <3>2, <3>3 DEF Registry, RegistryExact
      <4>2. InWalk(h)' /\ InLosingWalk(h)'
        BY <3>2, <3>3, <4>1 DEF InWalk, InLosingWalk
      <4> QED BY <4>2, Zenon DEF FlagKept
    <3>4. CASE conn[h] # g_ssh[t]
      BY <3>2, <3>4, PcLabels, FlagFrame
    <3> QED BY <3>3, <3>4
  <2>13. ASSUME NEW t \in Threads, BuildFail(t) PROVE FlagsKept'
    <3> SUFFICES ASSUME NEW h \in live PROVE FlagKept(h)'
      BY <2>13 DEF BuildFail, FlagsKept
    <3>1. h \in Handles /\ conn[h] \in Conns /\ g_ssh[t] \in Conns
      BY <2>0, PcLabels DEF HandleType, ThreadType
    <3>2. /\ conn' = conn /\ ptr' = ptr /\ degraded' = degraded /\ ssh' = ssh
          /\ todo' = todo /\ lost' = lost /\ pc[t] = "build" /\ Return(t)
          /\ stale'[h] <=> stale[h] \/ h \in handles[g_ssh[t]]
      BY <2>13, <3>1 DEF BuildFail
    <3>3. CASE conn[h] = g_ssh[t]
      <4>1. stale'[h]
        BY <3>1, <3>2, <3>3 DEF Registry, RegistryExact
      <4>2. ssh[g_ssh[t]] = NULL /\ ptr[h] = NULL
        BY <3>2, <3>3 DEF Registry, NoDangling, WalkOnRegistry
      <4>3. ssh'[conn'[h]] = NULL /\ ptr'[h] = NULL
        BY <3>2, <3>3, <4>2
      <4> QED BY <4>1, <4>3, Zenon DEF FlagKept
    <3>4. CASE conn[h] # g_ssh[t]
      <4>1. stale'[h] = stale[h]
        BY <2>0, <2>13, <3>1, <3>4 DEF BuildFail, Registry, RegistryExact, HandleType
      <4> QED BY <3>2, <3>4, <4>1, ReturnFrame, PcLabels, FlagFrame
    <3> QED BY <3>3, <3>4
  <2>14. ASSUME NEW t \in Threads, NEW k \in Handles, NEW ok \in BOOLEAN, Reopen(t, k, ok)
         PROVE FlagsKept'
    <3> SUFFICES ASSUME NEW h \in live PROVE FlagKept(h)'
      BY <2>14 DEF Reopen, FlagsKept
    <3>1. h \in Handles /\ conn[h] \in Conns /\ g_ssh[t] \in Conns
      BY <2>0, PcLabels DEF HandleType, ThreadType
    <3>2. /\ conn' = conn /\ ssh' = ssh /\ degraded' = degraded
          /\ g_ssh' = g_ssh /\ pc' = pc /\ pc[t] = "reopen"
          /\ k \in todo[t] /\ todo'[t] = todo[t] \ {k}
          /\ \A u \in Threads \ {t} : todo'[u] = todo[u] /\ lost'[u] = lost[u]
      BY <2>0, <2>14, PcLabels DEF Reopen, ThreadType
    <3>3. (lost[t] \/ ~ok) => lost'[t]
      BY <2>0, <2>14 DEF Reopen, ThreadType
    <3>4. conn[k] = g_ssh[t] /\ ptr[k] = NULL
      BY <3>1, <3>2 DEF Registry, RegistryExact, WalkOnRegistry
    <3>5. CASE h = k /\ ok
      <4>1. ssh[g_ssh[t]] # NULL
        BY <2>14, <3>1, <3>5 DEF Reopen, SerialsMatch
      <4>2. ~stale'[h] /\ ptr'[h] # NULL
        BY <2>0, <2>14, <3>5, <4>1 DEF Reopen, HandleType
      <4> QED BY <4>2, Zenon DEF FlagKept
    <3>6. CASE h = k /\ ~ok
      <4>1. stale'[h] /\ ptr'[h] = NULL
        BY <2>0, <2>14, <3>4, <3>6 DEF Reopen, HandleType
      <4>2. InLosingWalk(h)'
        BY <3>2, <3>3, <3>4, <3>6 DEF InLosingWalk
      <4> QED BY <4>1, <4>2, Zenon DEF FlagKept
    <3>7. CASE h # k
      <4>1. stale'[h] = stale[h] /\ ptr'[h] = ptr[h]
        BY <2>0, <2>14, <3>1, <3>7 DEF Reopen, HandleType
      <4>2. InWalk(h) => InWalk(h)'
        BY <3>2, <3>7 DEF InWalk
      <4>3. InLosingWalk(h) => InLosingWalk(h)'
        BY <3>2, <3>3, <3>7 DEF InLosingWalk
      <4>4. FlagKept(h)
        BY DEF FlagsKept
      <4> QED BY <3>2, <4>1, <4>2, <4>3, <4>4, Zenon DEF FlagKept
    <3> QED BY <3>5, <3>6, <3>7
  <2>15. ASSUME NEW t \in Threads, ReopenDone(t) PROVE FlagsKept'
    <3> SUFFICES ASSUME NEW h \in live PROVE FlagKept(h)'
      BY <2>15 DEF ReopenDone, FlagsKept
    <3>1. h \in Handles /\ conn[h] \in Conns /\ g_ssh[t] \in Conns
      BY <2>0, PcLabels DEF HandleType, ThreadType
    <3>2. /\ conn' = conn /\ ssh' = ssh /\ ptr' = ptr /\ stale' = stale
          /\ g_ssh' = g_ssh /\ todo' = todo /\ pc[t] = "reopen" /\ todo[t] = {}
          /\ \A u \in Workers \ {t} : pc'[u] = pc[u]
          /\ \A u \in Threads \ {t} : lost'[u] = lost[u]
      BY <2>0, <2>15, PcLabels DEF ReopenDone, ThreadType
    <3>3. degraded \/ lost[t] => degraded'
      BY <2>15 DEF ReopenDone
    <3>4. CASE conn[h] = g_ssh[t]
      <4>1. \A u \in Threads : g_ssh[u] = conn[h] /\ pc[u] \in {"build", "reopen"} => u = t
        BY <3>2, <3>4, Mutex, PcLabels DEF Locked
      <4>2. ~InWalk(h)
        BY <3>2, <4>1 DEF InWalk
      <4>3. InLosingWalk(h) => lost[t]
        BY <3>2, <4>1 DEF InLosingWalk
      <4>4. FlagKept(h)
        BY DEF FlagsKept
      <4> QED BY <3>2, <3>3, <4>2, <4>3, <4>4, Zenon DEF FlagKept
    <3>5. CASE conn[h] # g_ssh[t]
      BY <3>2, <3>3, <3>5, PcLabels, FlagFrame
    <3> QED BY <3>4, <3>5
  <2>16. CASE UNCHANGED <<ssh, live, conn, ptr, stale, degraded, pc, g_ssh, todo, lost>>
    BY <2>16 DEF FlagsKept, FlagKept, InWalk, InLosingWalk
  <2>17. ASSUME NEW t \in Threads, RunNoSession(t) PROVE FlagsKept'
    BY <2>16, <2>17 DEF RunNoSession
  <2> QED
    BY <2>1, <2>2, <2>4, <2>5, <2>6, <2>7, <2>8, <2>9, <2>10, <2>11, <2>12, <2>13, <2>14,
       <2>15, <2>16, <2>17
    DEF Next, Progress, Run, Heal, KeepaliveProgress, Drop, Dead, vars, Workers
<1> QED
  BY <1>1, <1>2, TypeCorrect, LockOwned, RegistrySafe, SerialsSafe, PTL DEF Spec

\* Outside gd_reconnect a handle is flagged stale exactly when it has no
\* remote handle: RETRY_HANDLE_OP, which reads the flag without the lock, and
\* gd_read, which reads the pointer, agree.
THEOREM StaleFlagsExact == Spec => []StaleExact
<1>1. FlagsKept => StaleExact
  <2>1. \A h : InWalk(h) => Rebuilding(conn[h])
    BY DEF InWalk, Rebuilding
  <2> QED BY <2>1, Zenon DEF FlagsKept, FlagKept, StaleExact
<1> QED BY <1>1, FlagsSafe, PTL

\* A reconnect that got a session and lost a handle has left the degraded
\* marker, and no later reconnect of any connection erases it.
THEOREM LossesReported == Spec => []LostReported
<1>1. FlagsKept => LostReported
  <2>1. \A h : InLosingWalk(h) => Rebuilding(conn[h])
    BY DEF InLosingWalk, Rebuilding
  <2> QED BY <2>1, Zenon DEF FlagsKept, FlagKept, LostReported
<1> QED BY <1>1, FlagsSafe, PTL

\* The inductive invariant that the run conn_safety checks holds for every
\* value of the constants.
THEOREM InvariantHolds == Spec => []IInv
  BY TypeCorrect, LockOwned, CallsSafe, RegistrySafe, SerialsSafe, FailuresSafe,
     FlagsSafe, PTL DEF IInv, Registry
=============================================================================
