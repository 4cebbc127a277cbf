------------------------------- MODULE GdFile -------------------------------
(***************************************************************************)
(* What becomes of the contents of a remote file that is open for writing  *)
(* when its session is lost: gd_open, gd_write, gd_ftruncate, gd_close and *)
(* gd_handle_reopen of gd.c, RETRY_HANDLE_OP of main.c, reopen_is_safe of  *)
(* parse.c, with other users of the server changing the file meanwhile.    *)
(*                                                                         *)
(* One GDHANDLE on one path.  A file is an inode with a size and cells; a  *)
(* cell is as much as one SFTP write request carries (g_conf.buffer).  The *)
(* connection is the handle's own; GdConn models the pool around it.       *)
(***************************************************************************)
EXTENDS Naturals

CONSTANTS
  Modes,       \* the creation flags that files are opened with
  MaxSize,     \* bounds a file, in cells
  MaxNodes,    \* bounds the inodes ever created at the path
  MaxFaults,   \* bounds the times the session dies
  MaxForeign   \* bounds the changes other users make

Creation == {"CREAT", "TRUNC", "EXCL"}

ASSUME FileAssumption ==
  /\ Modes \subseteq SUBSET Creation
  /\ MaxSize \in Nat \ {0} /\ MaxNodes \in Nat \ {0}
  /\ MaxFaults \in Nat /\ MaxForeign \in Nat

NoNode == 0
Nodes  == 1 .. MaxNodes
Cells  == 0 .. MaxSize - 1
Sizes  == 0 .. MaxSize

VARIABLES
  \* the server
  file,        \* the inode at the path, or NoNode
  fresh,       \* inodes created so far
  size,        \* size of each inode, in cells
  data,        \* its cells: "hole" (zeroes), "mine" or "theirs"
  \* the handle's connection
  alive,       \* its session works
  gen,         \* c->generation
  walk,        \* gd_reconnect at this handle: "no", "reopen" or "check"
  tmp,         \* the inode just reopened, until it is accepted
  \* the GDHANDLE
  live,        \* open
  flags,       \* sh->flags, without the access mode
  node,        \* the inode behind sh->file_handle, NoNode for NULL
  written_end, \* sh->written_end
  stale,       \* sh->stale
  \* the dispatcher thread that writes
  pc, req,     \* control point; offset and length of the write
  total,       \* cells of the request that were confirmed
  again,       \* this is the retry
  seen,        \* generation the failed attempt ran under
  \* what happened, for the properties
  acked,       \* <<inode, cell>> that gd_write acknowledged and nobody undid
  disturbed,   \* cells somebody else changed during the attempt
  ownCut,      \* golddrive truncated the file since it was opened
  foreignCut,  \* somebody else truncated or replaced it since
  sized,       \* the last open or reopen saw that the file has what was written,
               \* and nobody has cut it below that since
  faults, foreign

serverVars == <<file, fresh, size, data>>
connVars   == <<alive, gen, walk, tmp, faults>>
handleVars == <<live, flags, node, written_end, stale>>
writeVars  == <<pc, req, total, again, seen>>
ghostVars  == <<acked, disturbed, ownCut, foreignCut, sized>>
vars == <<serverVars, connVars, handleVars, writeVars, ghostVars, foreign>>

Requests == [off : Cells, len : 1 .. MaxSize]
NoReq    == [off |-> 0, len |-> 1]

Init ==
  /\ file \in {NoNode, 1} /\ fresh = 1
  /\ size \in [Nodes -> {0, MaxSize}] /\ \A i \in Nodes \ {1} : size[i] = 0
  /\ data = [i \in Nodes |-> [p \in Cells |-> IF p < size[i] THEN "theirs" ELSE "hole"]]
  /\ alive = TRUE /\ gen = 0 /\ walk = "no" /\ tmp = NoNode
  /\ live = FALSE /\ flags = {} /\ node = NoNode /\ written_end = 0 /\ stale = FALSE
  /\ pc = "idle" /\ req = NoReq /\ total = 0 /\ again = FALSE /\ seen = 0
  /\ acked = {} /\ disturbed = {} /\ ownCut = FALSE /\ foreignCut = FALSE
  /\ sized = FALSE /\ faults = 0 /\ foreign = 0

-----------------------------------------------------------------------------
(***************************************************************************)
(* The SFTP server (external: OpenSSH's sftp-server)                       *)
(***************************************************************************)

\* Inode i gets size n; what is cut off reads as zeroes if it grows back.
Resize(i, n) ==
  /\ size' = [size EXCEPT ![i] = n]
  /\ data' = [data EXCEPT ![i] = [p \in Cells |-> IF p < n THEN @[p] ELSE "hole"]]

\* Open the path with creation flags fl; the open fails unless CanOpen.
CanOpen(fl) ==
  IF file = NoNode THEN "CREAT" \in fl /\ fresh < MaxNodes
                   ELSE ~({"CREAT", "EXCL"} \subseteq fl)

\* The inode that a successful open with fl gives.
Opened(fl) == IF file = NoNode THEN fresh + 1 ELSE file

OpenEffect(fl) ==
  /\ file' = Opened(fl)
  /\ IF file = NoNode
     THEN fresh' = fresh + 1 /\ UNCHANGED <<size, data>>
     ELSE IF "TRUNC" \in fl THEN Resize(file, 0) /\ UNCHANGED fresh
                            ELSE UNCHANGED <<fresh, size, data>>

\* One write request; a write behind the end leaves zeroes in between.
WriteCell(i, p) ==
  /\ data' = [data EXCEPT ![i][p] = "mine"]
  /\ size' = [size EXCEPT ![i] = IF @ > p THEN @ ELSE p + 1]

\* What is left of the acknowledged cells when inode i shrinks to n cells.
AckedBelow(i, n) == {a \in acked : a[1] = i => a[2] < n}

-----------------------------------------------------------------------------
(***************************************************************************)
(* The callbacks                                                           *)
(***************************************************************************)

\* gd_open with the session working.
Open(fl) ==
  /\ pc = "idle" /\ ~live /\ alive /\ walk = "no"
  /\ CanOpen(fl)
  /\ OpenEffect(fl)
  /\ live' = TRUE /\ flags' = fl /\ node' = Opened(fl)
  /\ written_end' = 0 /\ stale' = FALSE
  /\ acked' = IF "TRUNC" \in fl THEN AckedBelow(file, 0) ELSE acked
  /\ ownCut' = FALSE /\ foreignCut' = FALSE /\ sized' = TRUE
  /\ UNCHANGED <<connVars, writeVars, disturbed, foreign>>

Write(off, len) ==
  /\ pc = "idle" /\ live /\ off + len <= MaxSize
  /\ pc' = "write" /\ req' = [off |-> off, len |-> len]
  /\ total' = 0 /\ again' = FALSE /\ disturbed' = {}
  /\ UNCHANGED <<serverVars, connVars, handleVars, seen, acked, ownCut,
                 foreignCut, sized, foreign>>

\* gd_write has the connection lock: no gd_reconnect is under way.
Writing == pc = "write" /\ walk = "no"

\* The thread leaves the callback.
Finish == pc' = "idle" /\ req' = NoReq /\ total' = 0 /\ again' = FALSE /\ seen' = 0

\* sh->file_handle is NULL: EBADF, which no macro recovers from.
WriteStale ==
  /\ Writing /\ node = NoNode
  /\ Finish
  /\ UNCHANGED <<serverVars, connVars, handleVars, ghostVars, foreign>>

\* A cell is written and confirmed, not the last one.
WriteChunk ==
  /\ Writing /\ node # NoNode /\ alive
  /\ total + 1 < req.len
  /\ WriteCell(node, req.off + total)
  /\ total' = total + 1
  /\ UNCHANGED <<file, fresh, connVars, handleVars, pc, req, again, seen,
                 ghostVars, foreign>>

\* Seeded faults: the high-water mark counts what was asked for, on errors
\* too; it adds up what was written.
HighWaterSum(done) == written_end + done

HighWaterAsked(done) ==
  IF written_end < req.off + req.len THEN req.off + req.len ELSE written_end

\* The high-water mark when done cells of the request were confirmed; a
\* failed gd_write (done = 0, total is -1) does not move it.
HighWater(done) ==
  IF done > 0 /\ written_end < req.off + done THEN req.off + done ELSE written_end

Requested == {node} \X {p \in req.off .. req.off + req.len - 1 : p \notin disturbed}

\* The last cell: gd_write acknowledges the request.
WriteDone ==
  /\ Writing /\ node # NoNode /\ alive
  /\ total + 1 = req.len
  /\ WriteCell(node, req.off + total)
  /\ written_end' = HighWater(req.len)
  /\ acked' = acked \cup Requested
  /\ Finish
  /\ UNCHANGED <<file, fresh, connVars, live, flags, node, stale, disturbed,
                 ownCut, foreignCut, sized, foreign>>

\* The server refuses a request (disk full): an error nobody retries.
WriteRefused ==
  /\ Writing /\ node # NoNode /\ alive
  /\ written_end' = HighWater(0)
  /\ Finish
  /\ UNCHANGED <<serverVars, connVars, live, flags, node, stale, ghostVars,
                 foreign>>

\* EIO: gd_write failed on its session, and so does f_write the second time.
Fail ==
  /\ written_end' = HighWater(0)
  /\ IF again THEN Finish
              ELSE pc' = "failed" /\ seen' = gen /\ UNCHANGED <<req, total, again>>
  /\ UNCHANGED <<live, flags, node, stale, ghostVars, foreign>>

\* The session dies under a request, which the server ran or not.
WriteLost ==
  /\ Writing /\ node # NoNode /\ alive /\ faults < MaxFaults
  /\ alive' = FALSE /\ faults' = faults + 1
  /\ WriteCell(node, req.off + total) \/ UNCHANGED <<size, data>>
  /\ Fail
  /\ UNCHANGED <<file, fresh, gen, walk, tmp>>

\* It was dead before.
WriteDead ==
  /\ Writing /\ node # NoNode /\ ~alive
  /\ Fail
  /\ UNCHANGED <<serverVars, connVars>>

\* Seeded fault: the retry carries on where the first attempt stopped.
RetryResume ==
  /\ pc = "failed" /\ walk = "no" /\ gen # seen
  /\ IF stale THEN Finish /\ UNCHANGED disturbed
              ELSE /\ pc' = "write" /\ again' = TRUE /\ disturbed' = {}
                   /\ UNCHANGED <<req, seen, total>>
  /\ UNCHANGED <<serverVars, connVars, handleVars, acked, ownCut, foreignCut,
                 sized, foreign>>

\* gd_heal returned 0: write again from the start, unless the handle is lost.
Retry ==
  /\ pc = "failed" /\ walk = "no" /\ gen # seen
  /\ IF stale THEN Finish /\ UNCHANGED disturbed
              ELSE /\ pc' = "write" /\ total' = 0 /\ again' = TRUE
                   /\ disturbed' = {} /\ UNCHANGED <<req, seen>>
  /\ UNCHANGED <<serverVars, connVars, handleVars, acked, ownCut, foreignCut,
                 sized, foreign>>

\* gd_ftruncate, a path op on any connection of the pool.
Ftruncate(n) ==
  /\ live /\ file # NoNode
  /\ Resize(file, n)
  /\ acked' = AckedBelow(file, n)
  /\ disturbed' = IF file = node THEN disturbed \cup {p \in Cells : p >= n} ELSE disturbed
  /\ ownCut' = (ownCut \/ n < size[file])
  /\ sized' = (sized /\ (file # node \/ n >= written_end))
  /\ UNCHANGED <<file, fresh, connVars, handleVars, writeVars, foreignCut,
                 foreign>>

\* gd_close: whatever the server says, the handle is gone.
Close ==
  /\ pc = "idle" /\ live /\ walk = "no"
  /\ live' = FALSE /\ flags' = {} /\ node' = NoNode
  /\ written_end' = 0 /\ stale' = FALSE
  /\ UNCHANGED <<serverVars, connVars, writeVars, ghostVars, foreign>>

-----------------------------------------------------------------------------
(***************************************************************************)
(* gd_reconnect, by this thread or another one that uses the connection    *)
(***************************************************************************)

\* Teardown, new session, and the walk comes to this handle.
Reconnect ==
  /\ ~alive /\ walk = "no" /\ pc # "write"
  /\ alive' = TRUE /\ gen' = gen + 1
  /\ node' = NoNode
  /\ walk' = IF live THEN "reopen" ELSE "no"
  /\ UNCHANGED <<serverVars, tmp, faults, live, flags, written_end, stale,
                 writeVars, ghostVars, foreign>>

\* No new session: every handle is marked stale, the generation stays, and
\* the thread that asked returns its error.
ReconnectFailed ==
  /\ ~alive /\ walk = "no" /\ pc # "write"
  /\ node' = NoNode /\ stale' = live
  /\ \/ pc = "failed" /\ seen = gen /\ Finish
     \/ UNCHANGED writeVars
  /\ UNCHANGED <<serverVars, connVars, live, flags, written_end, ghostVars,
                 foreign>>

\* The walk leaves the handle behind; n is what it now holds.
Settle(n) ==
  /\ walk' = "no" /\ tmp' = NoNode
  /\ node' = n /\ stale' = (n = NoNode)

\* Seeded faults: CREAT is replayed; the size is not looked at.
MaskKeepsCreat(fl) == fl \ {"TRUNC", "EXCL"}
UncheckedSafe(end, n) == TRUE

\* gd_handle_reopen masks the one-shot flags.
ReopenFlags(fl) == fl \ Creation

reopen_is_safe(end, n) == n >= end

\* The open of gd_handle_reopen succeeds.
Reopen ==
  LET fl == ReopenFlags(flags) IN
  /\ walk = "reopen" /\ alive /\ CanOpen(fl)
  /\ OpenEffect(fl)
  /\ IF written_end > 0
     THEN walk' = "check" /\ tmp' = Opened(fl) /\ UNCHANGED <<node, stale, sized>>
     ELSE Settle(Opened(fl)) /\ sized' = TRUE
  /\ UNCHANGED <<alive, gen, faults, live, flags, written_end, writeVars, acked,
                 disturbed, ownCut, foreignCut, foreign>>

\* It fails: the path is gone, or the fresh session died.
ReopenFailed ==
  /\ walk = "reopen" /\ (~alive \/ ~CanOpen(ReopenFlags(flags)))
  /\ Settle(NoNode)
  /\ UNCHANGED <<serverVars, alive, gen, faults, live, flags, written_end,
                 writeVars, ghostVars, foreign>>

\* fstat of the reopened handle gives its size, and a shorter file is refused;
\* or fstat fails, on a live session or a dead one, or its answer has no size,
\* and the handle is taken as it is.
Check ==
  /\ walk = "check"
  /\ \/ /\ alive /\ sized' = TRUE
        /\ Settle(IF reopen_is_safe(written_end, size[tmp]) THEN tmp ELSE NoNode)
     \/ sized' = FALSE /\ Settle(tmp)
  /\ UNCHANGED <<serverVars, alive, gen, faults, live, flags, written_end,
                 writeVars, acked, disturbed, ownCut, foreignCut, foreign>>

-----------------------------------------------------------------------------
(***************************************************************************)
(* The network and the other users of the server (external)                *)
(***************************************************************************)

Drop ==
  /\ alive /\ faults < MaxFaults
  /\ alive' = FALSE /\ faults' = faults + 1
  /\ UNCHANGED <<serverVars, gen, walk, tmp, handleVars, writeVars, ghostVars,
                 foreign>>

ForeignStep ==
  /\ foreign < MaxForeign /\ foreign' = foreign + 1
  /\ UNCHANGED <<connVars, handleVars, writeVars, ownCut>>

ForeignTruncate(n) ==
  /\ ForeignStep
  /\ file # NoNode /\ n < size[file]
  /\ Resize(file, n)
  /\ acked' = AckedBelow(file, n)
  /\ disturbed' = IF file = node THEN disturbed \cup {p \in Cells : p >= n} ELSE disturbed
  /\ foreignCut' = TRUE /\ sized' = (sized /\ (file # node \/ n >= written_end))
  /\ UNCHANGED <<file, fresh>>

ForeignWrite(p) ==
  /\ ForeignStep
  /\ file # NoNode
  /\ data' = [data EXCEPT ![file][p] = "theirs"]
  /\ size' = [size EXCEPT ![file] = IF @ > p THEN @ ELSE p + 1]
  /\ acked' = acked \ {<<file, p>>}
  /\ disturbed' = IF file = node THEN disturbed \cup {p} ELSE disturbed
  /\ UNCHANGED <<file, fresh, foreignCut, sized>>

\* Another file is renamed onto the path.
ForeignReplace(n) ==
  /\ ForeignStep
  /\ fresh < MaxNodes
  /\ file' = fresh + 1 /\ fresh' = fresh + 1
  /\ size' = [size EXCEPT ![fresh + 1] = n]
  /\ data' = [data EXCEPT ![fresh + 1] = [p \in Cells |-> IF p < n THEN "theirs" ELSE "hole"]]
  /\ foreignCut' = TRUE
  /\ UNCHANGED <<acked, disturbed, sized>>

ForeignRemove ==
  /\ ForeignStep
  /\ file # NoNode /\ file' = NoNode
  /\ foreignCut' = TRUE
  /\ UNCHANGED <<fresh, size, data, acked, disturbed, sized>>

-----------------------------------------------------------------------------

Callback ==
  \/ \E fl \in Modes : Open(fl)
  \/ \E off \in Cells, len \in 1 .. MaxSize : Write(off, len)
  \/ WriteStale \/ WriteChunk \/ WriteDone \/ WriteRefused \/ WriteLost
  \/ WriteDead \/ Retry \/ Close
  \/ \E n \in Sizes : Ftruncate(n)

Recovery ==
  Reconnect \/ ReconnectFailed \/ Reopen \/ ReopenFailed \/ Check

Environment ==
  \/ Drop
  \/ \E n \in Sizes : ForeignTruncate(n) \/ ForeignReplace(n)
  \/ \E p \in Cells : ForeignWrite(p)
  \/ ForeignRemove

Next == Callback \/ Recovery \/ Environment

Spec == Init /\ [][Next]_vars

-----------------------------------------------------------------------------
(***************************************************************************)
(* Properties                                                              *)
(***************************************************************************)

\* Every variable has its type.
ServerType ==
  /\ file \in Nodes \cup {NoNode} /\ fresh \in Nodes
  /\ size \in [Nodes -> Sizes]
  /\ data \in [Nodes -> [Cells -> {"hole", "mine", "theirs"}]]

ConnType ==
  /\ alive \in BOOLEAN /\ gen \in Nat
  /\ walk \in {"no", "reopen", "check"} /\ tmp \in Nodes \cup {NoNode}
  /\ faults \in 0 .. MaxFaults

HandleType ==
  /\ live \in BOOLEAN /\ flags \in SUBSET Creation
  /\ node \in Nodes \cup {NoNode} /\ written_end \in Sizes
  /\ stale \in BOOLEAN

WriteType ==
  /\ pc \in {"idle", "write", "failed"} /\ req \in Requests
  /\ total \in Nat /\ again \in BOOLEAN /\ seen \in Nat

GhostType ==
  /\ acked \in SUBSET (Nodes \X Cells) /\ disturbed \in SUBSET Cells
  /\ ownCut \in BOOLEAN /\ foreignCut \in BOOLEAN /\ sized \in BOOLEAN
  /\ foreign \in 0 .. MaxForeign

TypeOK == ServerType /\ ConnType /\ HandleType /\ WriteType /\ GhostType

\* What gd_write acknowledged stays in the file it was written to until
\* somebody truncates or overwrites it: lost replies, retries from the start
\* and reopened handles included (PLAN.md: "reconnecting mid-session
\* truncates the user's file" if the flags were replayed).
AckedKept ==
  \A a \in acked : a[2] < size[a[1]] /\ data[a[1]][a[2]] = "mine"

\* gd_reconnect changes nothing on the server: it neither empties a file nor
\* brings back one that was deleted while the session was down.
ReopenInert ==
  [][walk # "no" /\ walk' # walk => UNCHANGED <<file, size, data>>]_vars

\* An open handle works on a file shorter than what it wrote only if somebody
\* truncated it while it was open, or if the last reopen got no size from the
\* server (gd.c: "Refuse to resume a write handle whose file shrank while we
\* were disconnected").
NoShrunkResume ==
  live /\ node # NoNode /\ sized => size[node] >= written_end

\* What that comment promises without the second exception.  gd.c:348-350
\* takes the handle when fstat fails or its answer has no size: refuted.
ResumedWhole ==
  [][live /\ node = NoNode /\ node' # NoNode => size[node'] >= written_end]_vars

\* The high-water mark never claims more than the file got: a handle is
\* refused for its size only after somebody, golddrive included, truncated
\* or replaced the file.
RefusedOnlyIfCut ==
  [][walk = "check" /\ walk' = "no" /\ stale' => ownCut \/ foreignCut]_vars

\* parse.h, reopen_is_safe: "Our own writes only ever grow the file [...], so
\* a smaller file means somebody else truncated or replaced it."
SmallerIsForeign ==
  [][walk = "check" /\ walk' = "no" /\ stale' => foreignCut]_vars

===========================================================================
