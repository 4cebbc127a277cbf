------------------------------- MODULE GdConn -------------------------------
(***************************************************************************)
(* The SSH connection pool of the golddrive CLI under concurrent file      *)
(* system callbacks: pool.c (picking and locking a connection, the retry   *)
(* pin), the handle registry and gd_reconnect / gd_heal of gd.c, and the   *)
(* two retry macros and the keepalive thread of main.c.                    *)
(*                                                                         *)
(* A session is named by the serial number it was built under on its       *)
(* connection; NULL stands for c->ssh == NULL.  A remote handle is named   *)
(* by the serial of the session that opened it, so a handle whose serial   *)
(* is not its connection's current one is a freed pointer.  Sections that  *)
(* run under the connection lock are one step, except gd_reconnect, whose  *)
(* intermediate states other threads observe without the lock.             *)
(***************************************************************************)
EXTENDS Naturals, FiniteSets

CONSTANTS
  Threads,     \* WinFsp dispatcher threads
  Keeper,      \* the keepalive thread
  PoolSize,    \* g_pool.size, the connections that were established
  Handles,     \* GDHANDLE blocks: bounds the handles open at once
  Ops,         \* kinds of callback the dispatcher issues
  KeepLink,    \* -o keeplink: gd_open does not stat the path first
  MaxFaults,   \* bounds the times a session dies or answers EIO
  None         \* no thread, no connection, no handle

NULL    == 0
Conns   == 0 .. PoolSize - 1
Workers == Threads \cup {Keeper}

\* "path": an op on a path that a retry macro wraps, in one locked section;
\* "io": gd_read, gd_write, gd_fsync, gd_flush; "readdir": the sections of
\* gd_rewinddir and gd_readdir, which differ in nothing modelled here;
\* "close": gd_close and gd_closedir.
OpenOps   == {"open", "opendir"}
PathOps   == {"path"} \cup OpenOps
HandleOps == {"io", "fstat", "readdir", "close"}

ASSUME ConnAssumption ==
  /\ PoolSize \in Nat \ {0}
  /\ MaxFaults \in Nat
  /\ KeepLink \in BOOLEAN
  /\ Ops \subseteq PathOps \cup HandleOps
  /\ Keeper \notin Threads
  /\ None \notin Workers \cup Conns \cup Handles

VARIABLES
  up,          \* FALSE once the process died of a NULL dereference
  rr,          \* g_pool.rr modulo the pool size, all that rr_index reads
  faults,      \* faults injected so far
  degraded,    \* the <letter>.degraded marker file exists
  \* GDSSH, per connection
  ssh,         \* serial of the current session, or NULL
  alive,       \* whether that session's transport still works
  gen,         \* c->generation
  built,       \* sessions built so far: the next serial
  lock,        \* owner of c->lock
  handles,     \* c->handles, the registry
  \* GDHANDLE, per handle
  live,        \* the blocks gd_open/gd_opendir returned and not yet freed
  conn,        \* sh->conn
  dir,         \* sh->dir
  ptr,         \* sh->file_handle or sh->dir_handle
  stale,       \* sh->stale
  \* locals of each thread
  pc,
  call,        \* the callback being served: its kind and its handle
  probe,       \* inside the gd_stat that precedes the open in gd_open
  g_ssh,       \* thread-local g_ssh
  g_gen,       \* thread-local g_gen
  g_pin,       \* thread-local g_pin
  failed,      \* the macro's _c and _gen, and the session that failed
  todo,        \* handles gd_reconnect has still to reopen
  lost,        \* gd_reconnect's lost > 0
  aborted,     \* gd_reconnect's aborted
  ka           \* connection index of the keepalive sweep

connVars   == <<ssh, alive, gen, built>>
handleVars == <<live, conn, dir, ptr, stale, handles>>
walkVars   == <<todo, lost, aborted>>
callVars   == <<call, probe, failed, g_pin>>
vars == <<up, rr, faults, degraded, connVars, lock, handleVars,
          pc, callVars, g_ssh, g_gen, walkVars, ka>>

Calls     == [op : {"path"}, fd : {None}]
               \cup [op : OpenOps \cup HandleOps, fd : Handles]
Failures  == [conn : Conns, gen : Nat, ssh : Nat]
NoCall    == [op |-> "path", fd |-> None]
NoFailure == [conn |-> 0, gen |-> 0, ssh |-> NULL]

\* The second run of a callback, after gd_heal returned 0.
Retrying(t) == failed[t].ssh # NULL

\* Control points of a worker; at the Locked ones it owns c->lock.
Locked == {"run", "heal", "build", "reopen"}
Labels == {"idle", "acquire", "healwait", "decide"} \cup Locked

\* Worker w is at control point l of a process that still runs.
At(w, l) == up /\ pc[w] = l

-----------------------------------------------------------------------------

Init ==
  /\ up = TRUE /\ rr = 0 /\ faults = 0 /\ degraded = FALSE
  /\ ssh   = [c \in Conns |-> 1]
  /\ alive = [c \in Conns |-> TRUE]
  /\ gen   = [c \in Conns |-> 0]
  /\ built = [c \in Conns |-> 1]
  /\ lock  = [c \in Conns |-> None]
  /\ handles = [c \in Conns |-> {}]
  /\ live  = {}
  /\ conn  = [h \in Handles |-> 0]
  /\ dir   = [h \in Handles |-> FALSE]
  /\ ptr   = [h \in Handles |-> NULL]
  /\ stale = [h \in Handles |-> FALSE]
  /\ pc    = [w \in Workers |-> "idle"]
  /\ call  = [t \in Threads |-> NoCall]
  /\ probe = [t \in Threads |-> FALSE]
  /\ g_ssh = [w \in Workers |-> 0]
  /\ g_gen = [w \in Workers |-> 0]
  /\ g_pin = [t \in Threads |-> None]
  /\ failed = [t \in Threads |-> NoFailure]
  /\ todo  = [t \in Threads |-> {}]
  /\ lost  = [t \in Threads |-> FALSE]
  /\ aborted = [t \in Threads |-> FALSE]
  /\ ka = 0

-----------------------------------------------------------------------------
(***************************************************************************)
(* pool.c                                                                  *)
(***************************************************************************)

\* Seeded faults: the counter is used unreduced; the pin is ignored.
PickUnreduced(t, pin) ==
  /\ g_ssh' = [g_ssh EXCEPT ![t] = IF pin # None THEN pin ELSE rr]
  /\ rr' = IF pin # None THEN rr ELSE rr + 1

PickUnpinned(t, pin) ==
  g_ssh' = [g_ssh EXCEPT ![t] = rr] /\ rr' = (rr + 1) % PoolSize

\* gd_lock up to the point where it blocks: the pin, else the next
\* connection.  A pool of one never touches the counter.
Pick(t, pin) ==
  /\ g_ssh' = [g_ssh EXCEPT ![t] = IF pin # None THEN pin ELSE rr]
  /\ rr' = IF pin # None THEN rr ELSE (rr + 1) % PoolSize

\* gd_lock_conn up to the point where it blocks.
PickConn(w, c) == g_ssh' = [g_ssh EXCEPT ![w] = c] /\ UNCHANGED rr

\* AcquireSRWLockExclusive succeeds; the generation is read under the lock.
Acquire(w) ==
  /\ At(w, "acquire") \/ At(w, "healwait")
  /\ lock[g_ssh[w]] = None
  /\ lock' = [lock EXCEPT ![g_ssh[w]] = w]
  /\ g_gen' = [g_gen EXCEPT ![w] = gen[g_ssh[w]]]
  /\ pc' = [pc EXCEPT ![w] = IF @ = "acquire" THEN "run" ELSE "heal"]
  /\ UNCHANGED <<up, rr, faults, degraded, connVars, handleVars, callVars,
                 g_ssh, walkVars, ka>>

Unlock(w) == lock' = [lock EXCEPT ![g_ssh[w]] = None]

-----------------------------------------------------------------------------
(***************************************************************************)
(* A callback: f_xxx runs its gd_xxx once, and once more after a heal      *)
(***************************************************************************)

\* Start the gd_xxx of a callback, first attempt or retry.
Enter(t, o, h, pin) ==
  /\ pc' = [pc EXCEPT ![t] = "acquire"]
  /\ probe' = [probe EXCEPT ![t] = (o = "open" /\ ~KeepLink)]
  /\ IF o \in HandleOps THEN PickConn(t, conn[h]) ELSE Pick(t, pin)

\* Blocks malloc could hand out: neither open nor being opened.
Unallocated ==
  {h \in Handles \ live : \A t \in Threads : call[t].fd # h}

\* The file system never issues an op on a released handle, and releases a
\* handle once, after every op on it returned (external: WinFsp).  gd_fstat
\* of a directory handle, which answers EBADF, is left out.
MayCall(o, h) ==
  \/ o = "path" /\ h = None
  \/ o \in OpenOps /\ h \in Unallocated
  \/ /\ o \in HandleOps
     /\ h \in live
     /\ o \in {"io", "fstat"} => ~dir[h]
     /\ o = "readdir" => dir[h]
     /\ \A t \in Threads : call[t].fd = h =>
          o # "close" /\ call[t].op # "close"

Call(t, o, h) ==
  /\ At(t, "idle")
  /\ MayCall(o, h)
  /\ call' = [call EXCEPT ![t] = [op |-> o, fd |-> h]]
  /\ Enter(t, o, h, g_pin[t])
  /\ UNCHANGED <<up, faults, degraded, connVars, lock, handleVars, failed,
                 g_pin, g_gen, walkVars, ka>>

\* Seeded fault: no gd_unpin.
ReturnPinned(t) ==
  /\ pc' = [pc EXCEPT ![t] = "idle"]
  /\ call' = [call EXCEPT ![t] = NoCall]
  /\ failed' = [failed EXCEPT ![t] = NoFailure]
  /\ g_ssh' = [g_ssh EXCEPT ![t] = 0]
  /\ g_gen' = [g_gen EXCEPT ![t] = 0]
  /\ UNCHANGED <<g_pin, probe>>

\* The callback returns; gd_unpin.  g_ssh and g_gen are left out of the
\* state until the thread's next lock sets them again.
Return(t) ==
  /\ pc' = [pc EXCEPT ![t] = "idle"]
  /\ call' = [call EXCEPT ![t] = NoCall]
  /\ failed' = [failed EXCEPT ![t] = NoFailure]
  /\ g_pin' = [g_pin EXCEPT ![t] = None]
  /\ g_ssh' = [g_ssh EXCEPT ![t] = 0]
  /\ g_gen' = [g_gen EXCEPT ![t] = 0]
  /\ UNCHANGED probe

\* gd_handle_register, in the critical section that opened the handle.
Register(c, h, isdir) ==
  /\ live' = live \cup {h}
  /\ conn' = [conn EXCEPT ![h] = c]
  /\ dir' = [dir EXCEPT ![h] = isdir]
  /\ ptr' = [ptr EXCEPT ![h] = ssh[c]]
  /\ stale' = [stale EXCEPT ![h] = FALSE]
  /\ handles' = [handles EXCEPT ![c] = @ \cup {h}]

\* Seeded fault: the block is freed and stays on the registry.
FreeRegistered(c, h) ==
  live' = live \ {h} /\ UNCHANGED <<conn, dir, ptr, stale, handles>>

\* gd_handle_unregister and free.
Unregister(c, h) ==
  /\ handles' = [handles EXCEPT ![c] = @ \ {h}]
  /\ live' = live \ {h}
  /\ UNCHANGED <<conn, dir, ptr, stale>>

\* gd_close and gd_closedir drop the handle whatever the server said.
CloseOrKeep(t) ==
  IF call[t].op = "close" THEN Unregister(g_ssh[t], call[t].fd)
                          ELSE UNCHANGED handleVars

\* The server ran the request: it succeeded, or failed with an error of its
\* own (ENOENT, EACCES, ...) that no macro retries.
Served(t) ==
  LET c == g_ssh[t]  h == call[t].fd IN
  /\ At(t, "run") /\ ~probe[t]
  /\ alive[c]
  /\ call[t].op \in HandleOps => ptr[h] # NULL
  /\ IF call[t].op \in OpenOps
     THEN Register(c, h, call[t].op = "opendir") \/ UNCHANGED handleVars
     ELSE CloseOrKeep(t)
  /\ Unlock(t) /\ Return(t)
  /\ UNCHANGED <<up, rr, faults, degraded, connVars, walkVars, ka>>

\* The handle pointer is NULL: EBADF, and gd_close still frees the block.
RunStale(t) ==
  /\ At(t, "run")
  /\ call[t].op \in HandleOps
  /\ ptr[call[t].fd] = NULL
  /\ CloseOrKeep(t)
  /\ Unlock(t) /\ Return(t)
  /\ UNCHANGED <<up, rr, faults, degraded, connVars, walkVars, ka>>

\* The gd_stat that precedes the open: its result only decides whether hard
\* links are looked for.  The open then locks afresh.
RunProbe(t) ==
  /\ At(t, "run") /\ probe[t]
  /\ ssh[g_ssh[t]] # NULL
  /\ Unlock(t)
  /\ pc' = [pc EXCEPT ![t] = "acquire"]
  /\ probe' = [probe EXCEPT ![t] = FALSE]
  /\ Pick(t, g_pin[t])
  /\ UNCHANGED <<up, faults, degraded, connVars, handleVars, call, failed,
                 g_pin, g_gen, walkVars, ka>>

\* A path op on a connection without a session: libssh2 refuses the NULL
\* sftp, and get_ssh_error reads the error number of a NULL session.
RunNoSession(t) ==
  /\ At(t, "run")
  /\ call[t].op \in PathOps
  /\ ssh[g_ssh[t]] = NULL
  /\ up' = FALSE
  /\ UNCHANGED <<rr, faults, degraded, connVars, lock, handleVars, pc,
                 callVars, g_ssh, g_gen, walkVars, ka>>

\* EIO: the transport is dead, or the server sent a status map_error does
\* not know, on a session that still works.
TransportError(c) ==
  \/ ssh[c] # NULL /\ ~alive[c] /\ UNCHANGED faults
  \/ alive[c] /\ faults < MaxFaults /\ faults' = faults + 1

\* Seeded fault: release is wrapped in RETRY_HANDLE_OP too.
RecoversClose(t) == call[t].op # "readdir" /\ ~Retrying(t)

\* readdir, release and releasedir are not wrapped in a retry macro, and a
\* retried call is not retried again.
Recovers(t) == call[t].op \notin {"readdir", "close"} /\ ~Retrying(t)

RunFailed(t) ==
  LET c == g_ssh[t] IN
  /\ At(t, "run") /\ ~probe[t]
  /\ call[t].op \in HandleOps => ptr[call[t].fd] # NULL
  /\ TransportError(c)
  /\ CloseOrKeep(t)
  /\ Unlock(t)
  /\ IF Recovers(t)
     THEN /\ pc' = [pc EXCEPT ![t] = "healwait"]
          /\ failed' = [failed EXCEPT ![t] =
                          [conn |-> c, gen |-> g_gen[t], ssh |-> ssh[c]]]
          /\ UNCHANGED <<call, probe, g_pin, g_ssh, g_gen>>
     ELSE Return(t)
  /\ UNCHANGED <<up, rr, degraded, connVars, walkVars, ka>>

-----------------------------------------------------------------------------
(***************************************************************************)
(* gd_heal and gd_reconnect, under the connection lock                     *)
(***************************************************************************)

\* The generation moved: somebody else rebuilt the session.
HealSkip(t) ==
  LET c == g_ssh[t] IN
  /\ At(t, "heal")
  /\ gen[c] # failed[t].gen
  /\ Unlock(t)
  /\ pc' = [pc EXCEPT ![t] = "decide"]
  /\ UNCHANGED <<up, rr, faults, degraded, connVars, handleVars, callVars,
                 g_ssh, g_gen, walkVars, ka>>

\* Seeded faults: the handles are not forgotten; the generation the caller
\* saw is not compared.
TeardownDangling(t) ==
  LET c == g_ssh[t] IN
  /\ At(t, "heal")
  /\ gen[c] = failed[t].gen
  /\ ssh' = [ssh EXCEPT ![c] = NULL]
  /\ alive' = [alive EXCEPT ![c] = FALSE]
  /\ pc' = [pc EXCEPT ![t] = "build"]
  /\ UNCHANGED <<up, rr, faults, degraded, gen, built, lock, live, conn, dir,
                 ptr, stale, handles, callVars, g_ssh, g_gen, walkVars, ka>>

TeardownUnchecked(t) ==
  LET c == g_ssh[t] IN
  /\ At(t, "heal")
  /\ ptr' = [h \in Handles |-> IF h \in handles[c] THEN NULL ELSE ptr[h]]
  /\ ssh' = [ssh EXCEPT ![c] = NULL]
  /\ alive' = [alive EXCEPT ![c] = FALSE]
  /\ pc' = [pc EXCEPT ![t] = "build"]
  /\ UNCHANGED <<up, rr, faults, degraded, gen, built, lock, live, conn, dir,
                 stale, handles, callVars, g_ssh, g_gen, walkVars, ka>>

\* Forget every remote handle of the session, then free the session.
Teardown(t) ==
  LET c == g_ssh[t] IN
  /\ At(t, "heal")
  /\ gen[c] = failed[t].gen
  /\ ptr' = [h \in Handles |-> IF h \in handles[c] THEN NULL ELSE ptr[h]]
  /\ ssh' = [ssh EXCEPT ![c] = NULL]
  /\ alive' = [alive EXCEPT ![c] = FALSE]
  /\ pc' = [pc EXCEPT ![t] = "build"]
  /\ UNCHANGED <<up, rr, faults, degraded, gen, built, lock, live, conn, dir,
                 stale, handles, callVars, g_ssh, g_gen, walkVars, ka>>

\* Seeded fault: the new session is not published as a new generation.
AdoptUnpublished(t) ==
  LET c == g_ssh[t] IN
  /\ At(t, "build")
  /\ built' = [built EXCEPT ![c] = @ + 1]
  /\ ssh' = [ssh EXCEPT ![c] = built[c] + 1]
  /\ alive' = [alive EXCEPT ![c] = TRUE]
  /\ todo' = [todo EXCEPT ![t] = handles[c]]
  /\ pc' = [pc EXCEPT ![t] = "reopen"]
  /\ UNCHANGED <<up, rr, faults, degraded, gen, lock, handleVars, callVars,
                 g_ssh, g_gen, lost, aborted, ka>>

\* One of the GD_RECONNECT_MAX attempts of gd_init_ssh succeeded.
Adopt(t) ==
  LET c == g_ssh[t] IN
  /\ At(t, "build")
  /\ built' = [built EXCEPT ![c] = @ + 1]
  /\ ssh' = [ssh EXCEPT ![c] = built[c] + 1]
  /\ alive' = [alive EXCEPT ![c] = TRUE]
  /\ gen' = [gen EXCEPT ![c] = @ + 1]
  /\ todo' = [todo EXCEPT ![t] = handles[c]]
  /\ pc' = [pc EXCEPT ![t] = "reopen"]
  /\ UNCHANGED <<up, rr, faults, degraded, lock, handleVars, callVars,
                 g_ssh, g_gen, lost, aborted, ka>>

\* Seeded faults: the handles are not flagged; the lock is kept.
BuildFailUnflagged(t) ==
  /\ At(t, "build")
  /\ Unlock(t) /\ Return(t)
  /\ UNCHANGED <<up, rr, faults, degraded, connVars, handleVars, walkVars, ka>>

BuildFailLocked(t) ==
  /\ At(t, "build")
  /\ stale' = [h \in Handles |-> stale[h] \/ h \in handles[g_ssh[t]]]
  /\ Return(t)
  /\ UNCHANGED <<up, rr, faults, degraded, connVars, live, conn, dir, ptr,
                 handles, lock, walkVars, ka>>

\* All of them failed: the callback returns the error it already had.
BuildFail(t) ==
  /\ At(t, "build")
  /\ stale' = [h \in Handles |-> stale[h] \/ h \in handles[g_ssh[t]]]
  /\ Unlock(t) /\ Return(t)
  /\ UNCHANGED <<up, rr, faults, degraded, connVars, live, conn, dir, ptr,
                 handles, walkVars, ka>>

\* One turn of the walk over the registry.  ok: gd_handle_reopen returned
\* 0; otherwise -1 (this path only) or, on a dead transport, -2 (give up).
Reopen(t, h, ok) ==
  LET c == g_ssh[t] IN
  /\ At(t, "reopen") /\ h \in todo[t]
  /\ ok => alive[c] /\ ~aborted[t]
  /\ todo' = [todo EXCEPT ![t] = @ \ {h}]
  /\ ptr' = IF ok THEN [ptr EXCEPT ![h] = ssh[c]] ELSE ptr
  /\ stale' = [stale EXCEPT ![h] = ~ok]
  /\ lost' = [lost EXCEPT ![t] = @ \/ ~ok]
  /\ aborted' = [aborted EXCEPT ![t] = @ \/ ~alive[c]]
  /\ UNCHANGED <<up, rr, faults, degraded, connVars, lock, live, conn, dir,
                 handles, pc, callVars, g_ssh, g_gen, ka>>

\* Seeded fault: the marker is cleared by a reconnect that lost nothing.
ReopenDoneClearing(t) ==
  /\ At(t, "reopen") /\ todo[t] = {}
  /\ degraded' = lost[t]
  /\ Unlock(t)
  /\ pc' = [pc EXCEPT ![t] = "decide"]
  /\ lost' = [lost EXCEPT ![t] = FALSE]
  /\ aborted' = [aborted EXCEPT ![t] = FALSE]
  /\ UNCHANGED <<up, rr, faults, connVars, handleVars, callVars, g_ssh,
                 g_gen, todo, ka>>

\* The end of gd_reconnect raises the marker if a handle was lost.
ReopenDone(t) ==
  /\ At(t, "reopen") /\ todo[t] = {}
  /\ degraded' = (degraded \/ lost[t])
  /\ Unlock(t)
  /\ pc' = [pc EXCEPT ![t] = "decide"]
  /\ lost' = [lost EXCEPT ![t] = FALSE]
  /\ aborted' = [aborted EXCEPT ![t] = FALSE]
  /\ UNCHANGED <<up, rr, faults, connVars, handleVars, callVars, g_ssh,
                 g_gen, todo, ka>>

\* gd_heal returned 0.  RETRY_HANDLE_OP reads sh->stale without the lock
\* and gives up on a stale handle; RETRY_PATH_OP pins and calls again.
Decide(t) ==
  LET o == call[t].op  h == call[t].fd IN
  /\ At(t, "decide")
  /\ IF o = "io" /\ stale[h]
     THEN Return(t) /\ UNCHANGED rr
     ELSE /\ g_pin' = [g_pin EXCEPT ![t] =
                         IF o = "io" THEN None ELSE failed[t].conn]
          /\ Enter(t, o, h, g_pin'[t])
          /\ UNCHANGED <<call, failed, g_gen>>
  /\ UNCHANGED <<up, faults, degraded, connVars, lock, handleVars, walkVars,
                 ka>>

-----------------------------------------------------------------------------
(***************************************************************************)
(* The keepalive thread, and the network                                   *)
(***************************************************************************)

NextConn == (ka + 1) % PoolSize

\* c->ssh is tested without the lock, which is then taken.
KeepaliveCheck ==
  /\ At(Keeper, "idle")
  /\ IF ssh[ka] # NULL
     THEN /\ PickConn(Keeper, ka)
          /\ pc' = [pc EXCEPT ![Keeper] = "acquire"]
          /\ UNCHANGED ka
     ELSE ka' = NextConn /\ UNCHANGED <<pc, g_ssh, rr>>
  /\ UNCHANGED <<up, faults, degraded, connVars, lock, handleVars, callVars,
                 g_gen, walkVars>>

\* libssh2_keepalive_send; its result is ignored, a NULL session is not.
KeepaliveSend ==
  /\ At(Keeper, "run")
  /\ IF ssh[ka] # NULL
     THEN /\ Unlock(Keeper)
          /\ pc' = [pc EXCEPT ![Keeper] = "idle"]
          /\ g_gen' = [g_gen EXCEPT ![Keeper] = 0]
          /\ ka' = NextConn
          /\ UNCHANGED up
     ELSE up' = FALSE /\ UNCHANGED <<lock, pc, g_gen, ka>>
  /\ UNCHANGED <<rr, faults, degraded, connVars, handleVars, callVars, g_ssh,
                 walkVars>>

\* The transport of a session dies at any time.
Drop(c) ==
  /\ up /\ alive[c] /\ faults < MaxFaults
  /\ alive' = [alive EXCEPT ![c] = FALSE]
  /\ faults' = faults + 1
  /\ UNCHANGED <<up, rr, degraded, ssh, gen, built, lock, handleVars, pc,
                 callVars, g_ssh, g_gen, walkVars, ka>>

\* The process is gone; nothing more happens.
Dead == ~up /\ UNCHANGED vars

-----------------------------------------------------------------------------

Run(t) ==
  Served(t) \/ RunStale(t) \/ RunProbe(t) \/ RunNoSession(t) \/ RunFailed(t)

Heal(t) ==
  \/ HealSkip(t) \/ Teardown(t) \/ Adopt(t) \/ BuildFail(t)
  \/ \E h \in Handles, ok \in BOOLEAN : Reopen(t, h, ok)
  \/ ReopenDone(t)

\* What thread t does on its own once a callback is under way.
Progress(t) == Acquire(t) \/ Run(t) \/ Heal(t) \/ Decide(t)

KeepaliveProgress == Acquire(Keeper) \/ KeepaliveSend

Next ==
  \/ \E t \in Threads, o \in Ops, h \in Handles \cup {None} : Call(t, o, h)
  \/ \E t \in Threads : Progress(t)
  \/ KeepaliveCheck
  \/ KeepaliveProgress
  \/ \E c \in Conns : Drop(c)
  \/ Dead

Spec == Init /\ [][Next]_vars

\* A thread that is in a callback keeps running: every blocking libssh2 call
\* is bounded by the session timeout and every retry loop by a counter.
\* Nothing is assumed of who wins a contended SRW lock.
Fairness ==
  /\ \A t \in Threads : WF_vars(Progress(t))
  /\ WF_vars(KeepaliveProgress)

FairSpec == Spec /\ Fairness

-----------------------------------------------------------------------------
(***************************************************************************)
(* Properties                                                              *)
(***************************************************************************)

\* Every variable has its type.
ConnType ==
  /\ up \in BOOLEAN /\ degraded \in BOOLEAN
  /\ rr \in Conns
  /\ faults \in 0 .. MaxFaults
  /\ ssh \in [Conns -> Nat] /\ built \in [Conns -> Nat]
  /\ gen \in [Conns -> Nat]
  /\ alive \in [Conns -> BOOLEAN]
  /\ lock \in [Conns -> Workers \cup {None}]

HandleType ==
  /\ handles \in [Conns -> SUBSET Handles]
  /\ live \in SUBSET Handles
  /\ conn \in [Handles -> Conns]
  /\ dir \in [Handles -> BOOLEAN] /\ stale \in [Handles -> BOOLEAN]
  /\ ptr \in [Handles -> Nat]

ThreadType ==
  /\ pc \in [Workers -> Labels]
  /\ call \in [Threads -> Calls]
  /\ probe \in [Threads -> BOOLEAN]
  /\ g_ssh \in [Workers -> Conns] /\ g_gen \in [Workers -> Nat]
  /\ g_pin \in [Threads -> Conns \cup {None}]
  /\ failed \in [Threads -> Failures]
  /\ todo \in [Threads -> SUBSET Handles]
  /\ lost \in [Threads -> BOOLEAN] /\ aborted \in [Threads -> BOOLEAN]
  /\ ka \in Conns

TypeOK == ConnType /\ HandleType /\ ThreadType

\* A gd_reconnect of connection c is between its teardown and its last
\* unlock.
Rebuilding(c) ==
  \E t \in Threads : pc[t] \in {"build", "reopen"} /\ g_ssh[t] = c

\* gd_reconnect finds every open handle of its connection, and nothing
\* else, on the registry (config.h: "live-handle list head"): a missing one
\* would dangle, a left-over one would be written to after free.
RegistryExact ==
  \A c \in Conns : handles[c] = {h \in live : conn[h] = c}

\* An open handle never points into a session that was freed: it belongs to
\* the current session of its connection or is NULL (gd.c, gd_reconnect:
\* "must find NULL rather than a freed pointer").
NoDangling == \A h \in live : ptr[h] \in {NULL, ssh[conn[h]]}

\* No callback under way, retries included, works on a freed GDHANDLE
\* (main.c: release is not retried because gd_close frees it).
HandleAlive ==
  \A t \in Threads :
    pc[t] # "idle" /\ call[t].op \in HandleOps => call[t].fd \in live

\* Outside gd_reconnect a handle is flagged stale exactly when it has no
\* remote handle: RETRY_HANDLE_OP decides on the flag, gd_read on the
\* pointer.
StaleExact ==
  \A h \in live : ~Rebuilding(conn[h]) => (stale[h] <=> ptr[h] = NULL)

\* A reconnect that got a session and still lost a handle has left the
\* degraded marker behind, and no later reconnect erases it (gd.c, end of
\* gd_reconnect).
LostReported ==
  \A h \in live :
    stale[h] /\ ssh[conn[h]] # NULL /\ ~Rebuilding(conn[h]) => degraded

\* The retry of a callback runs on the connection that was healed for it,
\* and never on the session that failed it.
RetryRunsHealed ==
  \A t \in Threads :
    pc[t] = "run" /\ Retrying(t) =>
      /\ g_ssh[t] = failed[t].conn
      /\ ssh[g_ssh[t]] # failed[t].ssh

\* A thread is pinned only during a retry, and to the healed connection:
\* a pin left behind would take the thread out of the round robin for good.
PinOnlyInRetry ==
  \A t \in Threads :
    g_pin[t] # None => Retrying(t) /\ g_pin[t] = failed[t].conn

\* gd_reconnect never frees a session newer than the one that failed its
\* caller: N threads failing on one session rebuild it once.
FreshSessionKept ==
  [][\A t \in Threads :
       pc[t] = "heal" /\ pc'[t] = "build" =>
         ssh[g_ssh[t]] \in {NULL, failed[t].ssh}]_vars

\* No connection stays locked for ever, whatever fails inside gd_reconnect.
LockReleased ==
  \A w \in Workers, c \in Conns : lock[c] = w ~> (lock[c] # w \/ ~up)

-----------------------------------------------------------------------------
(***************************************************************************)
(* The inductive invariant behind the safety properties                    *)
(***************************************************************************)

\* c->lock is owned by the worker inside its critical section, and the
\* keepalive thread is at the connection of its sweep.
LockHeld ==
  /\ \A c \in Conns : lock[c] # None =>
       pc[lock[c]] \in Locked /\ g_ssh[lock[c]] = c
  /\ \A w \in Workers : pc[w] \in Locked => lock[g_ssh[w]] = w

\* A handle op works on an open handle, on the connection it is pinned to; a
\* block that is being opened or closed is in no other callback's hands.
CallServed(t) ==
  /\ pc[t] = "idle" => call[t] = NoCall
  /\ probe[t] => call[t].op = "open" /\ pc[t] \in {"acquire", "run"}
  /\ call[t].op \in HandleOps =>
       call[t].fd \in live /\ g_ssh[t] = conn[call[t].fd]
  /\ call[t].op \in OpenOps => call[t].fd \notin live
  /\ call[t].op \in OpenOps \cup {"close"} =>
       \A u \in Threads \ {t} : call[u].fd # call[t].fd

CallsServed == \A t \in Threads : CallServed(t)

\* Until it adopts a session gd_reconnect leaves none behind; what it has
\* still to reopen is registered and forgotten.
WalkOnRegistry ==
  \A t \in Threads :
    /\ pc[t] = "build" => ssh[g_ssh[t]] = NULL
    /\ pc[t] = "reopen" =>
         todo[t] \subseteq {h \in handles[g_ssh[t]] : ptr[h] = NULL}

\* Every rebuild moves the generation, so a session's serial is one above
\* the generation it runs under; only a session has a transport.
SerialsMatch ==
  /\ \A c \in Conns : /\ built[c] = gen[c] + 1
                      /\ ssh[c] \in {NULL, built[c]}
                      /\ alive[c] => ssh[c] # NULL
  /\ \A t \in Threads : pc[t] = "run" => g_gen[t] = gen[g_ssh[t]]

\* A thread that failed remembers the session that failed it; it calls again
\* only when that session was replaced, and on the same connection.
FailureOf(t) ==
  /\ pc[t] = "idle" => ~Retrying(t) /\ g_pin[t] = None
  /\ pc[t] \in {"healwait", "heal", "build", "reopen", "decide"} => Retrying(t)
  /\ Retrying(t) =>
       /\ g_ssh[t] = failed[t].conn
       /\ failed[t].ssh = failed[t].gen + 1
       /\ failed[t].gen <= gen[failed[t].conn]
       /\ pc[t] \notin {"healwait", "heal", "build"} =>
            failed[t].gen < gen[failed[t].conn]
       /\ pc[t] \in {"acquire", "run"} /\ call[t].op \in PathOps =>
            g_pin[t] = failed[t].conn
  /\ g_pin[t] # None => Retrying(t) /\ g_pin[t] = failed[t].conn

FailureKnown == \A t \in Threads : FailureOf(t)

\* The flags during the walk: a handle the walk is done with is stale or
\* reopened, and a stale one is counted.
InWalk(h) ==
  \E t \in Threads : /\ g_ssh[t] = conn[h]
                     /\ \/ pc[t] = "build"
                        \/ pc[t] = "reopen" /\ h \in todo[t]

InLosingWalk(h) ==
  \E t \in Threads : /\ g_ssh[t] = conn[h] /\ pc[t] = "reopen"
                     /\ h \in todo[t] \/ lost[t]

FlagKept(h) ==
  /\ (stale[h] <=> ptr[h] = NULL) \/ InWalk(h)
  /\ stale[h] /\ ssh[conn[h]] # NULL => degraded \/ InLosingWalk(h)

FlagsKept == \A h \in live : FlagKept(h)

IInv ==
  /\ TypeOK /\ LockHeld /\ CallsServed /\ RegistryExact /\ NoDangling
  /\ WalkOnRegistry /\ SerialsMatch /\ FailureKnown /\ FlagsKept

-----------------------------------------------------------------------------
\* What the comments promise and the code does not keep.

\* main.c, RETRY_PATH_OP: "Returns the original error if reconnection
\* fails": a callback ends with an error, not with the process.
OpsReturn == up

\* PLAN.md R7: "When handles are lost the CLI drops a <letter>.degraded
\* marker".
LossMarked ==
  \A h \in live : stale[h] /\ ~Rebuilding(conn[h]) => degraded

===========================================================================
