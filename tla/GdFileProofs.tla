---------------------------- MODULE GdFileProofs ----------------------------
(***************************************************************************)
(* Proofs that the safety properties of GdFile hold for files of any size, *)
(* any number of inodes, session losses and changes by other users.  The   *)
(* inductive invariant is proved in layers:                                *)
(*                                                                         *)
(*   TypeInv     types, with the bounds of the request under way           *)
(*   WalkPlaced  where handle, walk and write stand together               *)
(*   Born        inodes are in use only after they were created            *)
(*   AckedInv    acknowledged cells, and the part of a request written     *)
(*               so far, are in the file                                   *)
(*   MarkInv     until somebody cuts the file it has what the high-water   *)
(*               mark claims                                               *)
(***************************************************************************)
EXTENDS GdFile, TLAPS

\* A write in progress stays inside the file's bound and has a cell to go.
RequestFits ==
  pc # "idle" => req.off + req.len <= MaxSize /\ total < req.len

\* The walk of gd_reconnect is only ever at an open handle that has lost its
\* file, and it starts before the write under way, if any, has begun.
WalkPlaced ==
  /\ walk # "no" => live /\ node = NoNode /\ (pc = "write" => total = 0)
  /\ walk = "check" => tmp \in Nodes
  /\ ~live => node = NoNode

\* No inode is in use before it was created.
Born ==
  /\ file <= fresh /\ node <= fresh /\ tmp <= fresh
  /\ \A a \in acked : a[1] <= fresh

\* Types, with the bounds the high-water mark gets its type from.
TypeInv == TypeOK /\ RequestFits

\* What gd_write wrote to cell p of inode i is there.
InFile(i, p) == p < size[i] /\ data[i][p] = "mine"

\* The cells of a request confirmed so far, that nobody changed since, are in
\* the file.
WrittenSoFar ==
  pc = "write" /\ node # NoNode =>
    \A p \in Cells :
      req.off <= p /\ p < req.off + total /\ p \notin disturbed =>
        InFile(node, p)

\* What was acknowledged, and what is about to be, is in the file.
AckedInv == AckedKept /\ WrittenSoFar

\* Until somebody cuts the file the handle is on the file at its path, which
\* is as long as the high-water mark says.
MarkInv ==
  live /\ ~ownCut /\ ~foreignCut =>
    /\ file # NoNode /\ written_end <= size[file]
    /\ node \in {NoNode, file}
    /\ walk = "check" => tmp = file

-----------------------------------------------------------------------------

\* What the bounds are.
LEMMA Bounds ==
  /\ MaxSize \in Nat \ {0} /\ MaxNodes \in Nat \ {0}
  /\ Nodes = 1 .. MaxNodes /\ Cells = 0 .. MaxSize - 1 /\ Sizes = 0 .. MaxSize
  /\ NoNode = 0 /\ NoNode \notin Nodes
  /\ Requests = [off : Cells, len : 1 .. MaxSize] /\ NoReq \in Requests
  BY FileAssumption DEF Nodes, Cells, Sizes, NoNode, Requests, NoReq

\* A step that leaves a group of variables alone keeps their types.
LEMMA TypeFrames ==
  /\ ServerType /\ UNCHANGED serverVars => ServerType'
  /\ ConnType /\ UNCHANGED connVars => ConnType'
  /\ HandleType /\ UNCHANGED handleVars => HandleType'
  /\ WriteType /\ UNCHANGED writeVars => WriteType'
  /\ GhostType /\ UNCHANGED <<ghostVars, foreign>> => GhostType'
<1>1. ServerType /\ UNCHANGED serverVars => ServerType'
  BY DEF ServerType, serverVars
<1>2. ConnType /\ UNCHANGED connVars => ConnType'
  BY DEF ConnType, connVars
<1>3. HandleType /\ UNCHANGED handleVars => HandleType'
  BY DEF HandleType, handleVars
<1>4. WriteType /\ UNCHANGED writeVars => WriteType'
  BY DEF WriteType, writeVars
<1>5. GhostType /\ UNCHANGED <<ghostVars, foreign>> => GhostType'
  BY DEF GhostType, ghostVars
<1> QED BY <1>1, <1>2, <1>3, <1>4, <1>5

\* Which actions change the request under way.
LEMMA RequestSteps ==
  [Next]_vars =>
    \/ UNCHANGED writeVars
    \/ \E off \in Cells, len \in 1 .. MaxSize : Write(off, len)
    \/ Finish
    \/ WriteChunk
    \/ pc = "write" /\ pc' = "failed" /\ seen' = gen /\ UNCHANGED <<req, total, again>>
    \/ Retry
  BY DEF Next, Callback, Recovery, Environment, vars, Open, Write, WriteStale,
         WriteDone, WriteRefused, WriteLost, WriteDead, Writing, Fail, Ftruncate,
         Close, Reconnect, ReconnectFailed, Reopen, ReopenFailed, Check, Drop,
         ForeignStep, ForeignTruncate, ForeignWrite, ForeignReplace, ForeignRemove,
         writeVars

\* A reopen never creates or empties: the flags that do are masked, so it
\* gives the file that is at the path and changes nothing.
LEMMA ReopenMasked ==
  ASSUME CanOpen(ReopenFlags(flags))
  PROVE  /\ file # NoNode /\ Opened(ReopenFlags(flags)) = file
         /\ OpenEffect(ReopenFlags(flags)) => UNCHANGED serverVars
<1>1. "CREAT" \notin ReopenFlags(flags) /\ "TRUNC" \notin ReopenFlags(flags)
  BY DEF ReopenFlags, Creation
<1>2. file # NoNode
  BY <1>1 DEF CanOpen
<1> QED BY <1>1, <1>2 DEF Opened, OpenEffect, serverVars

\* Which actions change the server's files.
LEMMA ServerSteps ==
  [Next]_vars =>
    \/ UNCHANGED serverVars
    \/ \E fl \in Modes : Open(fl)
    \/ WriteChunk \/ WriteDone
    \/ WriteLost /\ WriteCell(node, req.off + total)
    \/ \E n \in Sizes : Ftruncate(n) \/ ForeignTruncate(n) \/ ForeignReplace(n)
    \/ \E p \in Cells : ForeignWrite(p)
    \/ ForeignRemove
<1>1. Reopen => UNCHANGED serverVars
  BY ReopenMasked DEF Reopen
<1> QED
  BY <1>1 DEF Next, Callback, Recovery, Environment, vars, Write, WriteStale,
         WriteRefused, WriteLost, WriteDead, Fail, Retry, Close, Reconnect,
         ReconnectFailed, ReopenFailed, Check, Drop, serverVars

\* Which actions change the handle.
LEMMA HandleSteps ==
  [Next]_vars =>
    \/ UNCHANGED handleVars
    \/ \E fl \in Modes : Open(fl)
    \/ WriteDone \/ WriteRefused \/ WriteLost \/ WriteDead \/ Close
    \/ Reconnect \/ ReconnectFailed \/ Reopen \/ ReopenFailed \/ Check
  BY DEF Next, Callback, Recovery, Environment, vars, Write, WriteStale,
         WriteChunk, Retry, Ftruncate, Drop, ForeignStep, ForeignTruncate,
         ForeignWrite, ForeignReplace, ForeignRemove, handleVars

\* Resizing keeps the types of sizes and contents.
LEMMA ResizeType ==
  ASSUME ServerType, NEW i \in Nodes, NEW n \in Sizes, Resize(i, n)
  PROVE  /\ size' \in [Nodes -> Sizes]
         /\ data' \in [Nodes -> [Cells -> {"hole", "mine", "theirs"}]]
  BY DEF ServerType, Resize

\* So does a write request inside the bound.
LEMMA WriteCellType ==
  ASSUME ServerType, NEW i \in Nodes, NEW p \in Cells, WriteCell(i, p)
  PROVE  /\ size' \in [Nodes -> Sizes]
         /\ data' \in [Nodes -> [Cells -> {"hole", "mine", "theirs"}]]
<1>1. p + 1 \in Sizes
  BY Bounds
<1> QED BY <1>1 DEF ServerType, WriteCell

\* An inode that is opened exists.
LEMMA OpenedType ==
  ASSUME ServerType, NEW fl, CanOpen(fl)
  PROVE  Opened(fl) \in Nodes
  BY Bounds DEF ServerType, CanOpen, Opened

\* The cell a write request is at lies inside the bound.
LEMMA CellType ==
  ASSUME WriteType, RequestFits, pc = "write"
  PROVE  req.off + total \in Cells /\ req.off + req.len \in Sizes
  BY Bounds DEF WriteType, RequestFits

-----------------------------------------------------------------------------
(***************************************************************************)
(* Types                                                                   *)
(***************************************************************************)

\* The initial states are typed.
LEMMA TypeInit == Init => TypeInv
<1> SUFFICES ASSUME Init PROVE TypeInv
  OBVIOUS
<1>1. ServerType
  <2>1. size \in [Nodes -> Sizes]
    BY Bounds, \A n \in {0, MaxSize} : n \in Sizes DEF Init
  <2>2. file \in Nodes \cup {NoNode} /\ fresh \in Nodes
    BY Bounds DEF Init
  <2> QED BY <2>1, <2>2 DEF Init, ServerType
<1>2. ConnType
  BY Bounds, FileAssumption DEF Init, ConnType
<1>3. HandleType
  <2>1. flags = {} /\ node = NoNode /\ written_end \in Sizes
    BY Bounds DEF Init
  <2> QED BY <2>1 DEF Init, HandleType
<1>4. WriteType /\ RequestFits
  BY Bounds DEF Init, WriteType, RequestFits
<1>5. GhostType
  <2>1. acked = {} /\ disturbed = {} /\ foreign \in 0 .. MaxForeign
    BY FileAssumption DEF Init
  <2> QED BY <2>1 DEF Init, GhostType
<1> QED BY <1>1, <1>2, <1>3, <1>4, <1>5 DEF TypeInv, TypeOK

\* The request under way stays inside its bounds.
LEMMA RequestNext == TypeInv /\ [Next]_vars => WriteType' /\ RequestFits'
<1> SUFFICES ASSUME TypeInv, [Next]_vars PROVE WriteType' /\ RequestFits'
  OBVIOUS
<1> USE DEF TypeInv, TypeOK, WriteType, RequestFits
<1>1. CASE UNCHANGED writeVars
  BY <1>1 DEF writeVars
<1>2. ASSUME NEW off \in Cells, NEW len \in 1 .. MaxSize, Write(off, len)
      PROVE  WriteType' /\ RequestFits'
  <2>1. [off |-> off, len |-> len] \in Requests
    BY Bounds
  <2>2. req'.off + req'.len <= MaxSize /\ total' < req'.len
    BY <1>2, Bounds DEF Write
  <2>3. pc' = "write" /\ req' \in Requests /\ total' = 0 /\ again' = FALSE
        /\ seen' = seen
    BY <1>2, <2>1 DEF Write
  <2> QED BY <2>2, <2>3
<1>3. CASE Finish
  BY <1>3, Bounds DEF Finish
<1>4. CASE WriteChunk
  BY <1>4, Bounds DEF WriteChunk, Writing
<1>5. CASE /\ pc = "write" /\ pc' = "failed"
           /\ seen' = gen /\ UNCHANGED <<req, total, again>>
  BY <1>5 DEF ConnType
<1>6. CASE Retry
  <2>1. CASE Finish
    BY <2>1, <1>3
  <2>2. CASE /\ pc' = "write" /\ total' = 0 /\ again' = TRUE
             /\ UNCHANGED <<req, seen>>
    <3>1. total' < req.len /\ req.off + req.len <= MaxSize
      BY <1>6, <2>2, Bounds DEF Retry
    <3> QED BY <2>2, <3>1
  <2> QED BY <1>6, <2>1, <2>2 DEF Retry
<1> QED BY <1>1, <1>2, <1>3, <1>4, <1>5, <1>6, RequestSteps

\* The server's files stay inside their bounds.
LEMMA ServerNext == TypeInv /\ [Next]_vars => ServerType'
<1> SUFFICES ASSUME TypeInv, [Next]_vars PROVE ServerType'
  OBVIOUS
<1> USE DEF TypeInv, TypeOK
<1>1. ASSUME NEW fl \in Modes, Open(fl) PROVE ServerType'
  <2>1. CanOpen(fl) /\ OpenEffect(fl) /\ Opened(fl) \in Nodes
    BY <1>1, OpenedType DEF Open
  <2>2. CASE file = NoNode
    BY <2>1, <2>2 DEF OpenEffect, ServerType, Opened
  <2>3. CASE file # NoNode /\ "TRUNC" \in fl
    <3>1. file \in Nodes /\ Resize(file, 0) /\ UNCHANGED fresh /\ 0 \in Sizes
      BY <2>1, <2>3, Bounds DEF OpenEffect, ServerType
    <3> QED BY <2>1, <2>3, <3>1, ResizeType DEF OpenEffect, ServerType, Opened
  <2>4. CASE file # NoNode /\ "TRUNC" \notin fl
    BY <2>1, <2>4 DEF OpenEffect, ServerType, Opened
  <2> QED BY <2>2, <2>3, <2>4
<1>2. ASSUME pc = "write", node # NoNode, WriteCell(node, req.off + total),
             UNCHANGED <<file, fresh>>
      PROVE  ServerType'
  <2>1. node \in Nodes
    BY <1>2 DEF HandleType
  <2> QED BY <1>2, <2>1, CellType, WriteCellType DEF ServerType
<1>3. ASSUME NEW n \in Sizes, file # NoNode, Resize(file, n),
             UNCHANGED <<file, fresh>>
      PROVE  ServerType'
  BY <1>3, ResizeType DEF ServerType
<1>4. ASSUME NEW n \in Sizes, ForeignReplace(n) PROVE ServerType'
  BY <1>4, Bounds DEF ForeignReplace, ServerType
<1>5. ASSUME NEW p \in Cells, ForeignWrite(p) PROVE ServerType'
  <2>1. p + 1 \in Sizes
    BY Bounds
  <2> QED BY <1>5, <2>1 DEF ForeignWrite, ServerType
<1>6. CASE ForeignRemove
  BY <1>6 DEF ForeignRemove, ServerType
<1> QED
  BY <1>1, <1>2, <1>3, <1>4, <1>5, <1>6, ServerSteps, TypeFrames
  DEF WriteChunk, WriteDone, WriteLost, Writing, Ftruncate, ForeignTruncate

\* The handle stays typed: the high-water mark lies inside the file's bound.
LEMMA HandleNext == TypeInv /\ [Next]_vars => HandleType'
<1> SUFFICES ASSUME TypeInv, [Next]_vars PROVE HandleType'
  OBVIOUS
<1> USE DEF TypeInv, TypeOK
<1>1. ASSUME NEW fl \in Modes, Open(fl) PROVE HandleType'
  <2>1. fl \in SUBSET Creation /\ 0 \in Sizes
    BY Bounds, FileAssumption
  <2>2. Opened(fl) \in Nodes
    BY <1>1, OpenedType DEF Open
  <2> QED BY <1>1, <2>1, <2>2 DEF Open, HandleType
<1>2. CASE WriteDone
  BY <1>2, CellType DEF WriteDone, Writing, HighWater, HandleType
<1>3. ASSUME written_end' = HighWater(0), UNCHANGED <<live, flags, node, stale>>
      PROVE  HandleType'
  BY <1>3 DEF HighWater, HandleType
<1>4. CASE Close
  <2>1. {} \in SUBSET Creation /\ 0 \in Sizes
    BY Bounds
  <2> QED BY <1>4, <2>1 DEF Close, HandleType
<1>5. CASE Reconnect \/ ReconnectFailed
  BY <1>5 DEF Reconnect, ReconnectFailed, HandleType
<1>6. CASE Reopen
  <2>1. Opened(ReopenFlags(flags)) \in Nodes
    BY <1>6, OpenedType DEF Reopen
  <2> QED BY <1>6, <2>1 DEF Reopen, Settle, HandleType
<1>7. CASE ReopenFailed
  BY <1>7 DEF ReopenFailed, Settle, HandleType
<1>8. CASE Check
  BY <1>8 DEF Check, Settle, HandleType, ConnType
<1> QED
  BY <1>1, <1>2, <1>3, <1>4, <1>5, <1>6, <1>7, <1>8, HandleSteps, TypeFrames
  DEF WriteRefused, WriteLost, WriteDead, Fail

\* The connection and the record of what happened stay typed.
LEMMA RestNext == TypeInv /\ [Next]_vars => ConnType' /\ GhostType'
<1> SUFFICES ASSUME TypeInv, [Next]_vars PROVE ConnType' /\ GhostType'
  OBVIOUS
<1> USE DEF TypeInv, TypeOK
<1>1. ConnType'
  <2>1. CASE UNCHANGED connVars
    BY <2>1, TypeFrames
  <2>2. CASE Drop
    <3>1. faults' \in 0 .. MaxFaults
      BY <2>2, FileAssumption DEF Drop, ConnType
    <3> QED BY <2>2, <3>1 DEF Drop, ConnType
  <2>3. CASE WriteLost
    <3>1. faults' \in 0 .. MaxFaults
      BY <2>3, FileAssumption DEF WriteLost, ConnType
    <3> QED BY <2>3, <3>1 DEF WriteLost, ConnType
  <2>4. CASE Reconnect
    BY <2>4 DEF Reconnect, ConnType
  <2>5. CASE Reopen
    BY <2>5, OpenedType DEF Reopen, Settle, ConnType
  <2>6. CASE ReopenFailed \/ Check
    BY <2>6 DEF ReopenFailed, Check, Settle, ConnType
  <2> QED
    BY <2>1, <2>2, <2>3, <2>4, <2>5, <2>6
    DEF Next, Callback, Recovery, Environment, vars, Open, Write, WriteStale,
        WriteChunk, WriteDone, WriteRefused, WriteDead, Retry, Close, Ftruncate,
        ReconnectFailed, ForeignStep, ForeignTruncate, ForeignWrite,
        ForeignReplace, ForeignRemove
<1>2. GhostType'
  <2>1. CASE UNCHANGED <<ghostVars, foreign>>
    BY <2>1, TypeFrames
  <2>2. ASSUME NEW n \in Nat PROVE AckedBelow(file, n) \in SUBSET (Nodes \X Cells)
    BY DEF AckedBelow, GhostType
  <2>3. ASSUME NEW fl \in Modes, Open(fl) PROVE GhostType'
    BY <2>2, <2>3 DEF Open, GhostType
  <2>4. ASSUME NEW off \in Cells, NEW len \in 1 .. MaxSize, Write(off, len)
        PROVE  GhostType'
    BY <2>4 DEF Write, GhostType
  <2>5. CASE WriteDone
    <3>1. node \in Nodes
      BY <2>5, Bounds DEF WriteDone, HandleType
    <3>2. req.off \in Cells /\ req.len \in 1 .. MaxSize
      BY Bounds DEF WriteType
    <3>3. req.off + req.len =< MaxSize
      BY <2>5 DEF WriteDone, Writing, RequestFits
    <3>4. \A p \in req.off .. req.off + req.len - 1 : p \in Cells
      BY <3>2, <3>3, Bounds
    <3>5. Requested \subseteq {node} \X Cells
      BY <3>4 DEF Requested
    <3>6. Requested \in SUBSET (Nodes \X Cells)
      BY <3>1, <3>5
    <3>7. acked' = acked \cup Requested
      BY <2>5 DEF WriteDone
    <3>8. UNCHANGED <<disturbed, ownCut, foreignCut, sized, foreign>>
      BY <2>5 DEF WriteDone
    <3>9. acked' \in SUBSET (Nodes \X Cells)
      BY <3>6, <3>7 DEF GhostType
    <3> QED BY <3>8, <3>9 DEF GhostType
  <2>6. CASE Retry
    BY <2>6 DEF Retry, GhostType
  <2>7. ASSUME NEW n \in Sizes, Ftruncate(n) PROVE GhostType'
    <3>1. acked' \in SUBSET (Nodes \X Cells) /\ disturbed' \in SUBSET Cells
      <4>1. n \in Nat
        BY Bounds
      <4>2. acked' = AckedBelow(file, n)
        BY <2>7 DEF Ftruncate
      <4>3. disturbed' \in {disturbed, disturbed \cup {p \in Cells : p >= n}}
        BY <2>7 DEF Ftruncate
      <4> QED BY <2>2, <4>1, <4>2, <4>3 DEF GhostType
    <3>2. ownCut' \in BOOLEAN /\ sized' \in BOOLEAN /\ UNCHANGED <<foreignCut, foreign>>
      BY <2>7 DEF Ftruncate, GhostType
    <3> QED BY <3>1, <3>2 DEF GhostType
  <2>8. ASSUME ForeignStep PROVE foreign' \in 0 .. MaxForeign /\ ownCut' = ownCut
    BY <2>8, FileAssumption DEF ForeignStep, GhostType
  <2>9. ASSUME NEW n \in Sizes, ForeignTruncate(n) PROVE GhostType'
    <3>1. acked' \in SUBSET (Nodes \X Cells) /\ disturbed' \in SUBSET Cells
      <4>1. n \in Nat
        BY Bounds
      <4>2. acked' = AckedBelow(file, n)
        BY <2>9 DEF ForeignTruncate
      <4>3. disturbed' \in {disturbed, disturbed \cup {p \in Cells : p >= n}}
        BY <2>9 DEF ForeignTruncate
      <4> QED BY <2>2, <4>1, <4>2, <4>3 DEF GhostType
    <3> QED BY <2>8, <2>9, <3>1 DEF ForeignTruncate, GhostType
  <2>10. ASSUME NEW n \in Sizes, ForeignReplace(n) PROVE GhostType'
    BY <2>8, <2>10 DEF ForeignReplace, GhostType
  <2>11. ASSUME NEW p \in Cells, ForeignWrite(p) PROVE GhostType'
    BY <2>8, <2>11 DEF ForeignWrite, GhostType
  <2>12. CASE ForeignRemove
    BY <2>8, <2>12 DEF ForeignRemove, GhostType
  <2>13. CASE Reopen \/ Check
    BY <2>13 DEF Reopen, Check, GhostType
  <2> QED
    BY <2>1, <2>3, <2>4, <2>5, <2>6, <2>7, <2>9, <2>10, <2>11, <2>12, <2>13
    DEF Next, Callback, Recovery, Environment, vars, WriteStale, WriteChunk,
        WriteRefused, WriteLost, WriteDead, Fail, Close, Reconnect,
        ReconnectFailed, ReopenFailed, Drop
<1> QED BY <1>1, <1>2

\* Types and bounds hold in every behaviour, whatever the constants.
THEOREM TypeInvSafe == Spec => []TypeInv
<1>1. Init => TypeInv
  BY TypeInit
<1>2. TypeInv /\ [Next]_vars => TypeInv'
  BY RequestNext, ServerNext, HandleNext, RestNext DEF TypeInv, TypeOK
<1> QED BY <1>1, <1>2, PTL DEF Spec

\* Every variable of the file model keeps its type.
THEOREM FileTypeCorrect == Spec => []TypeOK
<1>1. TypeInv => TypeOK
  BY DEF TypeInv
<1> QED BY <1>1, TypeInvSafe, PTL

-----------------------------------------------------------------------------
(***************************************************************************)
(* Handle, walk and write                                                  *)
(***************************************************************************)

\* The walk of gd_reconnect finds the handle open and without a file, and no
\* write under way has begun.
THEOREM WalkSafe == Spec => []WalkPlaced
<1>1. Init => WalkPlaced
  BY DEF Init, WalkPlaced
<1>2. TypeInv /\ WalkPlaced /\ [Next]_vars => WalkPlaced'
  <2> SUFFICES ASSUME TypeInv, WalkPlaced, [Next]_vars PROVE WalkPlaced'
    OBVIOUS
  <2> USE DEF WalkPlaced
  <2>1. ASSUME UNCHANGED <<walk, tmp, live, node>>, UNCHANGED <<pc, total>>
        PROVE  WalkPlaced'
    BY <2>1
  <2>2. ASSUME NEW fl \in Modes, Open(fl) PROVE WalkPlaced'
    BY <2>2 DEF Open, connVars, writeVars
  <2>3. ASSUME NEW off \in Cells, NEW len \in 1 .. MaxSize, Write(off, len)
        PROVE  WalkPlaced'
    BY <2>3 DEF Write, connVars, handleVars
  <2>4. ASSUME walk = "no", UNCHANGED <<walk, tmp, live, node>> PROVE WalkPlaced'
    BY <2>4
  <2>5. CASE Close
    BY <2>5 DEF Close, connVars
  <2>6. CASE Reconnect
    BY <2>6 DEF Reconnect, writeVars
  <2>7. CASE ReconnectFailed
    BY <2>7 DEF ReconnectFailed, connVars
  <2>8. CASE Reopen
    <3>1. Opened(ReopenFlags(flags)) \in Nodes
      BY <2>8, OpenedType DEF Reopen, TypeInv, TypeOK
    <3> QED BY <2>8, <3>1 DEF Reopen, Settle, writeVars
  <2>9. CASE ReopenFailed
    BY <2>9 DEF ReopenFailed, Settle
  <2>10. CASE Check
    BY <2>10 DEF Check, Settle
  <2> QED
    BY <2>1, <2>2, <2>3, <2>4, <2>5, <2>6, <2>7, <2>8, <2>9, <2>10
    DEF Next, Callback, Recovery, Environment, vars, WriteStale, WriteChunk,
        WriteDone, WriteRefused, WriteLost, WriteDead, Writing, Fail, Retry,
        Ftruncate, Drop, ForeignStep, ForeignTruncate, ForeignWrite,
        ForeignReplace, ForeignRemove, connVars, handleVars, writeVars
<1> QED BY <1>1, <1>2, TypeInvSafe, PTL DEF Spec

\* Which actions add to what was acknowledged.
LEMMA AckedSteps ==
  [Next]_vars => WriteDone \/ acked' \subseteq acked
<1>1. \A i, n : AckedBelow(i, n) \subseteq acked
  BY DEF AckedBelow
<1> QED
  BY <1>1 DEF Next, Callback, Recovery, Environment, vars, Open, Write,
         WriteStale, WriteChunk, WriteRefused, WriteLost, WriteDead, Fail, Retry,
         Close, Ftruncate, Reconnect, ReconnectFailed, Reopen, ReopenFailed, Check,
         Drop, ForeignStep, ForeignTruncate, ForeignWrite, ForeignReplace,
         ForeignRemove, ghostVars

\* The handle, the walk and what was acknowledged know only inodes that exist.
THEOREM BornSafe == Spec => []Born
<1>1. Init => Born
  BY Bounds DEF Init, Born
<1>2. TypeInv /\ Born /\ [Next]_vars => Born'
  <2> SUFFICES ASSUME TypeInv, Born, [Next]_vars PROVE Born'
    OBVIOUS
  <2> USE DEF TypeInv, TypeOK, ServerType
  <2>1. fresh' >= fresh /\ file' <= fresh'
    <3>1. fresh \in Nat /\ file \in Nat /\ file <= fresh
      BY Bounds DEF Born
    <3>2. CASE UNCHANGED <<file, fresh>>
      BY <3>1, <3>2
    <3>3. ASSUME NEW fl \in Modes, Open(fl) PROVE fresh' >= fresh /\ file' <= fresh'
      BY <3>1, <3>3 DEF Open, OpenEffect, Opened
    <3>4. ASSUME NEW n \in Sizes, ForeignReplace(n)
          PROVE  fresh' >= fresh /\ file' <= fresh'
      BY <3>1, <3>4 DEF ForeignReplace
    <3>5. CASE ForeignRemove
      BY <3>1, <3>5, Bounds DEF ForeignRemove
    <3> QED
      BY <3>2, <3>3, <3>4, <3>5, ServerSteps
      DEF serverVars, WriteChunk, WriteDone, WriteLost, Ftruncate,
          ForeignTruncate, ForeignWrite
  <2>2. node' <= fresh'
    <3>1. node \in Nat /\ tmp \in Nat /\ fresh \in Nat /\ fresh' \in Nat
      BY ServerNext, Bounds DEF HandleType, ConnType, TypeInv
    <3>2. CASE node' \in {node, tmp, NoNode}
      BY <2>1, <3>1, <3>2, Bounds DEF Born
    <3>3. ASSUME NEW fl \in Modes, Open(fl) PROVE node' <= fresh'
      BY <2>1, <3>3, Bounds DEF Open, Opened, OpenEffect, Born
    <3>4. CASE Reopen
      BY <2>1, <3>1, <3>4, ReopenMasked DEF Reopen, Settle, Born, serverVars
    <3> QED
      BY <3>2, <3>3, <3>4, HandleSteps
      DEF handleVars, WriteDone, WriteRefused, WriteLost, WriteDead, Fail, Close,
          Reconnect, ReconnectFailed, ReopenFailed, Check, Settle
  <2>3. tmp' <= fresh'
    <3>1. tmp \in Nat /\ fresh \in Nat /\ fresh' \in Nat
      BY ServerNext, Bounds DEF ConnType, TypeInv
    <3>2. CASE tmp' \in {tmp, NoNode}
      BY <2>1, <3>1, <3>2, Bounds DEF Born
    <3>3. CASE Reopen
      BY <2>1, <3>1, <3>3, ReopenMasked, Bounds DEF Reopen, Settle, Born, serverVars
    <3> QED
      BY <3>2, <3>3
      DEF Next, Callback, Recovery, Environment, vars, Open, Write, WriteStale,
          WriteChunk, WriteDone, WriteRefused, WriteLost, WriteDead, Retry, Close,
          Ftruncate, Reconnect, ReconnectFailed, ReopenFailed, Check, Settle, Drop,
          ForeignStep, ForeignTruncate, ForeignWrite, ForeignReplace,
          ForeignRemove, connVars
  <2>4. \A a \in acked' : a[1] <= fresh'
    <3>1. fresh \in Nat /\ fresh' \in Nat /\ \A a \in acked : a[1] \in Nat
      <4>1. \A a \in acked : a[1] \in Nodes
        BY DEF GhostType
      <4>2. fresh' \in Nodes
        BY ServerNext DEF TypeInv
      <4> QED BY <4>1, <4>2, Bounds
    <3>2. CASE acked' \subseteq acked
      BY <2>1, <3>1, <3>2 DEF Born
    <3>3. CASE WriteDone
      <4>1. \A a \in acked' : a \in acked \/ a[1] = node
        BY <3>3 DEF WriteDone, Requested
      <4>2. node' = node
        BY <3>3 DEF WriteDone
      <4> QED BY <2>1, <2>2, <3>1, <4>1, <4>2 DEF Born
    <3> QED BY <3>2, <3>3, AckedSteps
  <2> QED BY <2>1, <2>2, <2>3, <2>4 DEF Born
<1> QED BY <1>1, <1>2, TypeInvSafe, PTL DEF Spec

-----------------------------------------------------------------------------
(***************************************************************************)
(* Acknowledged data                                                       *)
(***************************************************************************)

\* A write request leaves what is in the files and adds its cell.
LEMMA WriteCellKeeps ==
  ASSUME ServerType, NEW i \in Nodes, NEW p \in Cells, WriteCell(i, p)
  PROVE  /\ InFile(i, p)'
         /\ \A j \in Nodes, q \in Cells : InFile(j, q) => InFile(j, q)'
<1>1. /\ size' = [size EXCEPT ![i] = IF size[i] > p THEN size[i] ELSE p + 1]
      /\ data' = [data EXCEPT ![i] = [data[i] EXCEPT ![p] = "mine"]]
      /\ size \in [Nodes -> Nat] /\ Cells \subseteq Nat
      /\ data[i] \in [Cells -> {"hole", "mine", "theirs"}]
  BY Bounds DEF WriteCell, ServerType
<1>2. InFile(i, p)'
  BY <1>1 DEF InFile, ServerType
<1>3. ASSUME NEW j \in Nodes, NEW q \in Cells, InFile(j, q) PROVE InFile(j, q)'
  BY <1>1, <1>3 DEF InFile, ServerType
<1> QED BY <1>2, <1>3

\* Resizing leaves what is below the new size.
LEMMA ResizeKeeps ==
  ASSUME ServerType, NEW i \in Nodes, NEW n \in Sizes, Resize(i, n),
         NEW j \in Nodes, NEW q \in Cells, InFile(j, q), j = i => q < n
  PROVE  InFile(j, q)'
<1>1. /\ size' = [size EXCEPT ![i] = n]
      /\ data' = [data EXCEPT ![i] = [p \in Cells |-> IF p < n THEN data[i][p] ELSE "hole"]]
  BY DEF Resize, ServerType
<1> QED BY <1>1 DEF InFile, ServerType

\* A change by somebody else that is noted as such leaves the rest.
LEMMA ForeignKeeps ==
  ASSUME TypeInv, Born, NEW j \in Nodes, NEW q \in Cells, InFile(j, q), j <= fresh
  PROVE  /\ \A p \in Cells : ForeignWrite(p) /\ (j # file \/ q # p) => InFile(j, q)'
         /\ \A n \in Sizes : ForeignReplace(n) => InFile(j, q)'
<1>1. fresh \in Nat /\ j # fresh + 1
  BY Bounds DEF TypeInv, TypeOK, ServerType
<1>2. ASSUME NEW p \in Cells, ForeignWrite(p), j # file \/ q # p PROVE InFile(j, q)'
  <2>1. /\ size' = [size EXCEPT ![file] = IF size[file] > p THEN size[file] ELSE p + 1]
        /\ data' = [data EXCEPT ![file] = [data[file] EXCEPT ![p] = "theirs"]]
        /\ file \in Nodes
    BY <1>2 DEF ForeignWrite, TypeInv, TypeOK, ServerType
  <2>2. size[file] \in Nat /\ data[file] \in [Cells -> {"hole", "mine", "theirs"}]
        /\ Cells \subseteq Nat
    BY <2>1, Bounds DEF TypeInv, TypeOK, ServerType
  <2> QED BY <1>2, <2>1, <2>2 DEF InFile, TypeInv, TypeOK, ServerType
<1>3. ASSUME NEW n \in Sizes, ForeignReplace(n) PROVE InFile(j, q)'
  BY <1>1, <1>3 DEF ForeignReplace, InFile, TypeInv, TypeOK, ServerType
<1> QED BY <1>2, <1>3

\* What was acknowledged, and what of a request was confirmed, stays.
LEMMA AckedNext ==
  TypeInv /\ WalkPlaced /\ Born /\ AckedInv /\ [Next]_vars => AckedInv'
<1> SUFFICES ASSUME TypeInv, WalkPlaced, Born, AckedInv, [Next]_vars PROVE AckedInv'
  OBVIOUS
<1> USE DEF TypeInv, TypeOK
<1>a. \A a \in acked : a[1] \in Nodes /\ a[2] \in Cells /\ InFile(a[1], a[2])
  BY DEF AckedInv, AckedKept, InFile, GhostType
<1>b. ASSUME \A a \in acked' : InFile(a[1], a[2])' PROVE AckedKept'
  BY <1>b DEF AckedKept, InFile
<1>c. ASSUME pc' # "write" \/ node' = NoNode \/ total' = 0 PROVE WrittenSoFar'
  <2>1. req'.off \in Nat
    BY RequestNext, Bounds DEF WriteType
  <2> QED BY <1>c, <2>1, Bounds DEF WrittenSoFar
<1>1. ASSUME UNCHANGED <<size, data>>, acked' \subseteq acked,
             \/ pc' # "write" \/ node' = NoNode \/ total' = 0
             \/ UNCHANGED <<pc, node, req, total, disturbed>>
      PROVE  AckedInv'
  <2>1. AckedKept'
    BY <1>a, <1>b, <1>1 DEF InFile
  <2>2. WrittenSoFar'
    BY <1>c, <1>1 DEF WrittenSoFar, InFile, AckedInv
  <2> QED BY <2>1, <2>2 DEF AckedInv
<1>2. ASSUME NEW fl \in Modes, Open(fl) PROVE AckedInv'
  <2>1. pc' # "write" /\ OpenEffect(fl) /\ acked' \subseteq acked
    BY <1>2 DEF Open, writeVars, AckedBelow
  <2>2. CASE file # NoNode /\ "TRUNC" \in fl
    <3>1. Resize(file, 0) /\ acked' = AckedBelow(file, 0) /\ file \in Nodes /\ 0 \in Sizes
      BY <1>2, <2>2, Bounds DEF Open, OpenEffect, ServerType
    <3>2. AckedKept'
      BY <1>a, <1>b, <3>1, ResizeKeeps DEF AckedBelow
    <3> QED BY <1>c, <2>1, <3>2 DEF AckedInv
  <2>3. CASE ~(file # NoNode /\ "TRUNC" \in fl)
    BY <1>1, <2>1, <2>3 DEF OpenEffect
  <2> QED BY <2>2, <2>3
<1>3. ASSUME Writing, node # NoNode, WriteCell(node, req.off + total)
      PROVE  /\ node \in Nodes /\ req.off + total \in Cells
             /\ \A j \in Nodes, q \in Cells :
                  InFile(j, q) \/ (j = node /\ q = req.off + total) => InFile(j, q)'
  <2>1. node \in Nodes /\ req.off + total \in Cells
    BY <1>3, CellType DEF Writing, HandleType
  <2>2. PICK i \in Nodes, p \in Cells : i = node /\ p = req.off + total
    BY <2>1
  <2>3. WriteCell(i, p)
    BY <1>3, <2>2
  <2> QED BY <2>1, <2>2, <2>3, WriteCellKeeps
<1>4. CASE WriteChunk
  <2>1. acked' = acked /\ node' = node /\ req' = req /\ total' = total + 1
        /\ disturbed' = disturbed
    BY <1>4 DEF WriteChunk, handleVars, ghostVars
  <2>2. AckedKept'
    BY <1>a, <1>b, <1>3, <1>4, <2>1 DEF WriteChunk
  <2>3. ASSUME NEW p \in Cells, req.off <= p, p < req.off + (total + 1),
               p \notin disturbed
        PROVE  InFile(node, p)'
    <3>1. req.off \in Nat /\ total \in Nat /\ p \in Nat
      BY Bounds DEF WriteType
    <3>2. CASE p < req.off + total
      <4>1. InFile(node, p)
        BY <1>4, <2>3, <3>2 DEF WriteChunk, Writing, AckedInv, WrittenSoFar
      <4> QED BY <1>3, <1>4, <2>1, <4>1 DEF WriteChunk, InFile
    <3>3. CASE p = req.off + total
      BY <1>3, <1>4, <2>1, <3>3 DEF WriteChunk, InFile
    <3> QED BY <2>3, <3>1, <3>2, <3>3
  <2>4. WrittenSoFar'
    BY <2>1, <2>3 DEF WrittenSoFar, InFile
  <2> QED BY <2>2, <2>4 DEF AckedInv
<1>5. CASE WriteDone
  <2>1. pc' # "write" /\ acked' = acked \cup Requested /\ Writing /\ node # NoNode
        /\ WriteCell(node, req.off + total) /\ total + 1 = req.len
    BY <1>5 DEF WriteDone, Finish
  <2>2. ASSUME NEW a \in Requested PROVE InFile(a[1], a[2])'
    <3>1. a[1] = node /\ a[2] \in req.off .. req.off + req.len - 1
          /\ a[2] \notin disturbed
      BY DEF Requested
    <3>a. req.off \in Nat /\ req.len \in Nat /\ total \in Nat
      BY Bounds DEF WriteType
    <3>b. a[2] \in Cells
      <4>1. req.off + req.len \in Sizes
        BY <2>1, CellType DEF Writing
      <4> QED BY <3>1, <3>a, <4>1, Bounds
    <3>2. req.off \in Nat /\ total \in Nat /\ a[2] \in Cells /\ a[2] \in Nat
      BY <3>1, <3>a, <3>b
    <3>3. CASE a[2] < req.off + total
      <4>1. InFile(node, a[2])
        BY <2>1, <3>1, <3>2, <3>3 DEF Writing, AckedInv, WrittenSoFar
      <4> QED BY <1>3, <2>1, <3>1, <3>2, <4>1
    <3>4. CASE a[2] = req.off + total
      BY <1>3, <2>1, <3>1, <3>4
    <3> QED BY <2>1, <3>1, <3>2, <3>3, <3>4
  <2>3. AckedKept'
    BY <1>a, <1>b, <1>3, <2>1, <2>2
  <2> QED BY <1>c, <2>1, <2>3 DEF AckedInv
<1>6. CASE WriteLost
  <2>1. acked' = acked /\ pc' # "write"
    BY <1>6 DEF WriteLost, Fail, Finish, ghostVars
  <2>2. CASE UNCHANGED <<size, data>>
    BY <1>1, <2>1, <2>2
  <2>3. CASE WriteCell(node, req.off + total)
    <3>1. AckedKept'
      BY <1>a, <1>b, <1>3, <1>6, <2>1, <2>3 DEF WriteLost
    <3> QED BY <1>c, <2>1, <3>1 DEF AckedInv
  <2> QED BY <1>6, <2>2, <2>3 DEF WriteLost
<1>7. ASSUME NEW n \in Sizes, Ftruncate(n) \/ ForeignTruncate(n) PROVE AckedInv'
  <2>1. /\ file \in Nodes /\ Resize(file, n) /\ acked' = AckedBelow(file, n)
        /\ disturbed' = IF file = node THEN disturbed \cup {p \in Cells : p >= n}
                                       ELSE disturbed
        /\ UNCHANGED <<pc, node, req, total>>
    BY <1>7 DEF Ftruncate, ForeignTruncate, ForeignStep, handleVars, writeVars,
                ServerType
  <2>2. AckedKept'
    BY <1>a, <1>b, <2>1, ResizeKeeps DEF AckedBelow
  <2>3. ASSUME pc = "write", node # NoNode, NEW p \in Cells, req.off <= p,
               p < req.off + total, p \notin disturbed'
        PROVE  InFile(node, p)'
    <3>1. p \notin disturbed /\ (file = node => p < n)
      BY <2>1, <2>3, Bounds
    <3>2. node \in Nodes /\ InFile(node, p)
      BY <2>3, <3>1 DEF HandleType, AckedInv, WrittenSoFar
    <3> QED BY <2>1, <3>1, <3>2, ResizeKeeps
  <2>4. WrittenSoFar'
    BY <2>1, <2>3 DEF WrittenSoFar, InFile
  <2> QED BY <2>2, <2>4 DEF AckedInv
<1>8. ASSUME NEW p \in Cells, ForeignWrite(p) PROVE AckedInv'
  <2>1. /\ acked' = acked \ {<<file, p>>}
        /\ disturbed' = IF file = node THEN disturbed \cup {p} ELSE disturbed
        /\ UNCHANGED <<pc, node, req, total>>
    BY <1>8 DEF ForeignWrite, ForeignStep, handleVars, writeVars
  <2>2. ASSUME NEW a \in acked' PROVE InFile(a[1], a[2])'
    <3>1. a \in acked /\ (a[1] # file \/ a[2] # p) /\ a[1] <= fresh
      BY <2>1 DEF Born, GhostType
    <3> QED BY <1>a, <1>8, <3>1, ForeignKeeps
  <2>3. ASSUME pc = "write", node # NoNode, NEW q \in Cells, req.off <= q,
               q < req.off + total, q \notin disturbed'
        PROVE  InFile(node, q)'
    <3>1. q \notin disturbed /\ (node # file \/ q # p) /\ node <= fresh
      BY <2>1, <2>3 DEF Born
    <3>2. node \in Nodes /\ InFile(node, q)
      BY <2>3, <3>1 DEF HandleType, AckedInv, WrittenSoFar
    <3> QED BY <1>8, <2>1, <3>1, <3>2, ForeignKeeps DEF InFile
  <2>4. WrittenSoFar'
    BY <2>1, <2>3 DEF WrittenSoFar, InFile
  <2> QED BY <1>b, <2>2, <2>4 DEF AckedInv
<1>9. ASSUME NEW n \in Sizes, ForeignReplace(n) PROVE AckedInv'
  <2>1. UNCHANGED <<acked, disturbed, pc, node, req, total>>
    BY <1>9 DEF ForeignReplace, ForeignStep, handleVars, writeVars
  <2>2. ASSUME NEW a \in acked' PROVE InFile(a[1], a[2])'
    BY <1>a, <1>9, <2>1, ForeignKeeps DEF Born
  <2>3. ASSUME pc = "write", node # NoNode, NEW q \in Cells, req.off <= q,
               q < req.off + total, q \notin disturbed
        PROVE  InFile(node, q)'
    <3>1. node \in Nodes /\ InFile(node, q) /\ node <= fresh
      BY <2>3 DEF HandleType, AckedInv, WrittenSoFar, Born
    <3> QED BY <1>9, <2>1, <3>1, ForeignKeeps DEF InFile
  <2>4. WrittenSoFar'
    BY <2>1, <2>3 DEF WrittenSoFar, InFile
  <2> QED BY <1>b, <2>2, <2>4 DEF AckedInv
<1>10. CASE UNCHANGED vars \/ ForeignRemove \/ Drop
  BY <1>1, <1>10 DEF vars, ForeignRemove, ForeignStep, Drop, serverVars,
                     handleVars, writeVars, ghostVars
<1>11. ASSUME NEW off \in Cells, NEW len \in 1 .. MaxSize, Write(off, len)
       PROVE  AckedInv'
  BY <1>1, <1>11 DEF Write, serverVars
<1>12. CASE WriteStale \/ WriteRefused \/ WriteDead \/ Retry \/ Close
  BY <1>1, <1>12 DEF WriteStale, WriteRefused, WriteDead, Fail, Finish, Retry,
                     Close, serverVars, ghostVars, writeVars
<1>13. CASE Reconnect \/ ReconnectFailed
  BY <1>1, <1>13 DEF Reconnect, ReconnectFailed, serverVars, ghostVars
<1>14. CASE Reopen \/ ReopenFailed \/ Check
  <2>1. UNCHANGED <<size, data, acked, disturbed, pc, req, total>>
    BY <1>14, ReopenMasked DEF Reopen, ReopenFailed, Check, serverVars,
                               writeVars, ghostVars
  <2>2. pc' # "write" \/ total' = 0
    BY <1>14, <2>1 DEF Reopen, ReopenFailed, Check, WalkPlaced
  <2> QED BY <1>1, <2>1, <2>2
<1> QED
  BY <1>1, <1>2, <1>4, <1>5, <1>6, <1>7, <1>8, <1>9, <1>10, <1>11, <1>12,
     <1>13, <1>14
  DEF Next, Callback, Recovery, Environment

\* Acknowledged data stays in the file through lost replies, retries and
\* reopened handles, for files of any size and any number of faults.
THEOREM AckedSafe == Spec => []AckedKept
<1>1. Init => AckedInv
  BY DEF Init, AckedInv, AckedKept, WrittenSoFar
<1>2. AckedInv => AckedKept
  BY DEF AckedInv
<1> QED
  BY <1>1, <1>2, AckedNext, TypeInvSafe, WalkSafe, BornSafe, PTL DEF Spec

-----------------------------------------------------------------------------
(***************************************************************************)
(* Reopening                                                               *)
(***************************************************************************)

\* A handle that nobody cut is on the file at its path, which holds all that
\* the high-water mark claims.
LEMMA MarkNext == TypeInv /\ WalkPlaced /\ MarkInv /\ [Next]_vars => MarkInv'
<1> SUFFICES ASSUME TypeInv, WalkPlaced, MarkInv, [Next]_vars,
                    live', ~ownCut', ~foreignCut'
             PROVE  /\ file' # NoNode /\ written_end' <= size'[file']
                    /\ node' \in {NoNode, file'}
                    /\ walk' = "check" => tmp' = file'
  BY DEF MarkInv
<1> DEFINE Goal == /\ file' # NoNode /\ written_end' <= size'[file']
                   /\ node' \in {NoNode, file'}
                   /\ walk' = "check" => tmp' = file'
<1> USE DEF TypeInv, TypeOK
<1>a. ServerType' /\ HandleType'
  BY ServerNext, HandleNext
<1>b. ASSUME live, ~ownCut, ~foreignCut
      PROVE  /\ file \in Nodes /\ written_end <= size[file] /\ node \in {NoNode, file}
             /\ walk = "check" => tmp = file
             /\ size[file] \in Nat /\ written_end \in Nat
  BY <1>b, Bounds DEF MarkInv, ServerType, HandleType
<1>1. ASSUME NEW fl \in Modes, Open(fl) PROVE Goal
  <2>1. file' = Opened(fl) /\ node' = file' /\ written_end' = 0 /\ walk' # "check"
        /\ Opened(fl) \in Nodes
    BY <1>1, OpenedType DEF Open, OpenEffect, connVars
  <2>2. size'[file'] \in Nat
    BY <1>a, <2>1, Bounds DEF ServerType
  <2> QED BY <2>1, <2>2, Bounds
<1>2. ASSUME live, ~ownCut, ~foreignCut, UNCHANGED file, size'[file] >= size[file],
             written_end' <= size'[file], node' \in {NoNode, file},
             walk' = "check" => walk = "check" /\ tmp' = tmp
      PROVE  Goal
  BY <1>2, <1>b, Bounds
<1>3. ASSUME live, ~ownCut, ~foreignCut, UNCHANGED <<file, written_end, node>>,
             size'[file] >= size[file], UNCHANGED <<walk, tmp>>
      PROVE  Goal
  <2>1. size'[file] \in Nat
    BY <1>a, <1>b, <1>3, Bounds DEF ServerType
  <2> QED BY <1>2, <1>3, <1>b, <2>1
<1>4. ASSUME Writing, live, ~ownCut, ~foreignCut, node # NoNode,
             WriteCell(node, req.off + total)
      PROVE  size'[file] >= size[file] /\ size'[file] > req.off + total
  BY <1>4, <1>b, CellType, Bounds DEF WriteCell, ServerType, Writing
<1>5. CASE WriteChunk
  BY <1>3, <1>4, <1>5 DEF WriteChunk, connVars, handleVars, ghostVars
<1>6. CASE WriteDone
  <2>1. live /\ ~ownCut /\ ~foreignCut /\ node # NoNode /\ Writing
        /\ WriteCell(node, req.off + total) /\ total + 1 = req.len
        /\ UNCHANGED <<file, node, walk, tmp>> /\ written_end' = HighWater(req.len)
    BY <1>6 DEF WriteDone, connVars
  <2>2. size'[file] >= size[file] /\ size'[file] > req.off + total
    BY <1>4, <2>1
  <2>3. written_end' <= size'[file]
    <3>1. size'[file] \in Nat /\ req.off \in Nat /\ total \in Nat /\ req.len \in Nat
      BY <1>a, <1>b, <2>1, Bounds DEF ServerType, WriteType
    <3>2. req.off + req.len <= size'[file]
      BY <2>1, <2>2, <3>1
    <3>3. written_end' \in {written_end, req.off + req.len}
      BY <2>1 DEF HighWater
    <3> QED BY <1>b, <2>1, <2>2, <3>1, <3>2, <3>3
  <2> QED BY <1>2, <1>b, <2>1, <2>2, <2>3
<1>7. CASE WriteRefused \/ WriteDead
  <2>1. written_end' = written_end
    <3>1. HighWater(0) = written_end
      BY DEF HighWater
    <3> QED BY <1>7, <3>1 DEF WriteRefused, WriteDead, Fail
  <2>2. UNCHANGED serverVars /\ UNCHANGED connVars /\ UNCHANGED ghostVars
        /\ UNCHANGED <<live, node>>
    BY <1>7 DEF WriteRefused, WriteDead, Fail
  <2>3. /\ live /\ ~ownCut /\ ~foreignCut
        /\ UNCHANGED <<file, size, node>> /\ UNCHANGED <<walk, tmp>>
    BY <2>2 DEF serverVars, connVars, ghostVars
  <2> QED BY <1>3, <1>b, <2>1, <2>3
<1>8. CASE WriteLost
  <2>1. /\ live /\ ~ownCut /\ ~foreignCut
        /\ UNCHANGED <<file, written_end, node>> /\ UNCHANGED <<walk, tmp>>
    <3>1. written_end' = written_end
      BY <1>8 DEF WriteLost, Fail, HighWater
    <3> QED BY <1>8, <3>1 DEF WriteLost, Fail, ghostVars
  <2>2. size'[file] >= size[file]
    BY <1>4, <1>8, <1>b, <2>1 DEF WriteLost
  <2> QED BY <1>3, <2>1, <2>2
<1>9. ASSUME NEW n \in Sizes, Ftruncate(n) PROVE Goal
  <2>1. live /\ ~ownCut /\ ~foreignCut /\ n >= size[file] /\ Resize(file, n)
        /\ UNCHANGED <<file, written_end, node, walk, tmp>>
    <3>1. live /\ Resize(file, n) /\ ownCut' = (ownCut \/ n < size[file])
          /\ foreignCut' = foreignCut /\ UNCHANGED <<file, written_end, node, walk, tmp>>
      BY <1>9 DEF Ftruncate, connVars, handleVars
    <3>2. ~ownCut /\ ~foreignCut /\ ~(n < size[file])
      BY <3>1 DEF GhostType
    <3> QED BY <1>b, <3>1, <3>2, Bounds
  <2>2. size'[file] = n
    BY <1>b, <2>1 DEF Resize, ServerType
  <2> QED BY <1>3, <2>1, <2>2
<1>10. ASSUME NEW p \in Cells, ForeignWrite(p) PROVE Goal
  <2>1. live /\ ~ownCut /\ ~foreignCut
        /\ UNCHANGED <<file, written_end, node, walk, tmp>>
    BY <1>10 DEF ForeignWrite, ForeignStep, connVars, handleVars
  <2>2. size'[file] >= size[file]
    BY <1>10, <1>b, <2>1, Bounds DEF ForeignWrite, ServerType
  <2> QED BY <1>3, <2>1, <2>2
<1>11. CASE Close
  BY <1>11 DEF Close
<1>12. CASE Reconnect \/ ReconnectFailed
  <2>1. live /\ ~ownCut /\ ~foreignCut /\ UNCHANGED <<file, size, written_end>>
        /\ node' = NoNode /\ walk' # "check"
    <3>1. CASE Reconnect
      BY <3>1 DEF Reconnect, serverVars, ghostVars
    <3>2. CASE ReconnectFailed
      BY <3>2 DEF ReconnectFailed, serverVars, ghostVars, connVars
    <3> QED BY <1>12, <3>1, <3>2
  <2> QED BY <1>2, <1>b, <2>1
<1>13. CASE Reopen
  <2>1. Opened(ReopenFlags(flags)) = file /\ UNCHANGED serverVars
    BY <1>13, ReopenMasked DEF Reopen
  <2>2. live /\ ~ownCut /\ ~foreignCut /\ UNCHANGED <<file, size, written_end>>
    BY <1>13, <2>1 DEF Reopen, serverVars, ghostVars
  <2>3. \/ walk' = "check" /\ tmp' = file /\ node' = node
        \/ walk' = "no" /\ node' = file
    BY <1>13, <2>1 DEF Reopen, Settle
  <2> QED BY <1>b, <2>2, <2>3, Bounds
<1>14. CASE ReopenFailed \/ Check
  <2>1. live /\ ~ownCut /\ ~foreignCut /\ UNCHANGED <<file, size, written_end>>
        /\ walk' = "no" /\ node' \in {NoNode, file}
    <3>1. CASE ReopenFailed
      BY <3>1 DEF ReopenFailed, Settle, serverVars, ghostVars
    <3>2. CASE Check
      <4>1. walk = "check" /\ live /\ ~ownCut /\ ~foreignCut
            /\ UNCHANGED <<file, size, written_end>>
        BY <3>2 DEF Check, serverVars, ghostVars
      <4>2. walk' = "no" /\ node' \in {NoNode, tmp}
        BY <3>2 DEF Check, Settle
      <4> QED BY <1>b, <4>1, <4>2
    <3> QED BY <1>14, <3>1, <3>2
  <2> QED BY <1>2, <1>b, <2>1
<1>15. ASSUME live, ~ownCut, ~foreignCut, UNCHANGED serverVars,
              UNCHANGED <<written_end, node, walk, tmp>>
       PROVE  Goal
  BY <1>3, <1>15, <1>b DEF serverVars
<1>16. ASSUME NEW off \in Cells, NEW len \in 1 .. MaxSize, Write(off, len)
       PROVE  Goal
  BY <1>15, <1>16 DEF Write, connVars, handleVars
<1>17. CASE WriteStale \/ Retry \/ UNCHANGED vars
  <2>1. UNCHANGED serverVars /\ UNCHANGED connVars /\ UNCHANGED handleVars
        /\ ownCut' = ownCut /\ foreignCut' = foreignCut
    BY <1>17 DEF WriteStale, Retry, vars, ghostVars
  <2> QED BY <1>15, <2>1 DEF connVars, handleVars
<1>18. CASE Drop
  BY <1>15, <1>18 DEF Drop, handleVars, ghostVars
<1>19. ASSUME NEW n \in Sizes, ForeignTruncate(n) \/ ForeignReplace(n) PROVE Goal
  BY <1>19 DEF ForeignTruncate, ForeignReplace
<1>20. CASE ForeignRemove
  BY <1>20 DEF ForeignRemove
<1>21. Callback => Goal
  BY <1>1, <1>5, <1>6, <1>7, <1>8, <1>9, <1>11, <1>16, <1>17 DEF Callback
<1>22. Recovery => Goal
  BY <1>12, <1>13, <1>14 DEF Recovery
<1>23. Environment => Goal
  BY <1>10, <1>18, <1>19, <1>20 DEF Environment
<1>24. Goal
  BY <1>17, <1>21, <1>22, <1>23 DEF Next
<1> QED BY <1>24

\* Until somebody cuts the file it holds what the handle has written.
THEOREM MarkSafe == Spec => []MarkInv
<1>1. Init => MarkInv
  BY DEF Init, MarkInv
<1> QED BY <1>1, MarkNext, TypeInvSafe, WalkSafe, PTL DEF Spec

\* A handle is refused at a reconnect for the size of its file only after
\* somebody truncated or replaced the file.
THEOREM RefusedSafe == Spec => RefusedOnlyIfCut
<1>1. TypeInv /\ WalkPlaced /\ MarkInv /\ [Next]_vars
        => [walk = "check" /\ walk' = "no" /\ stale' => ownCut \/ foreignCut]_vars
  <2> SUFFICES ASSUME TypeInv, WalkPlaced, MarkInv, [Next]_vars,
                      walk = "check", walk' = "no", stale', ~ownCut, ~foreignCut
               PROVE  FALSE
    OBVIOUS
  <2>1. tmp = file /\ written_end <= size[file] /\ tmp \in Nodes
    BY DEF WalkPlaced, MarkInv
  <2>2. Check
    BY DEF Next, Callback, Recovery, Environment, vars, Open, Write, WriteStale,
       WriteChunk, WriteDone, WriteRefused, WriteLost, WriteDead, Writing, Retry,
       Close, Ftruncate, Reconnect, ReconnectFailed, Reopen, ReopenFailed, Drop,
       ForeignStep, ForeignTruncate, ForeignWrite, ForeignReplace, ForeignRemove,
       connVars
  <2>3. reopen_is_safe(written_end, size[tmp])
    BY <2>1, Bounds DEF reopen_is_safe, TypeInv, TypeOK, ServerType, HandleType
  <2>4. node' = tmp /\ stale' = (node' = NoNode)
    BY <2>2, <2>3 DEF Check, Settle
  <2> QED BY <2>1, <2>4, Bounds
<1> QED
  BY <1>1, TypeInvSafe, WalkSafe, MarkSafe, PTL DEF Spec, RefusedOnlyIfCut

\* What a handle has written stays in the file it works on, through every step
\* that leaves it sized.
LEMMA ShrunkNext == TypeInv /\ WalkPlaced /\ Born /\ NoShrunkResume /\ [Next]_vars
                      => NoShrunkResume'
<1> SUFFICES ASSUME TypeInv, WalkPlaced, Born, NoShrunkResume, [Next]_vars,
                    live', node' # NoNode, sized'
             PROVE  size'[node'] >= written_end'
  BY DEF NoShrunkResume
<1> DEFINE Goal == size'[node'] >= written_end'
<1> USE DEF TypeInv, TypeOK
<1>a. ServerType' /\ HandleType'
  BY ServerNext, HandleNext
<1>b. size'[node'] \in Nat /\ written_end' \in Nat
  BY <1>a, Bounds DEF ServerType, HandleType
<1>c. ASSUME live, node # NoNode, sized
      PROVE  node \in Nodes /\ size[node] \in Nat /\ written_end \in Nat
             /\ size[node] >= written_end
  BY <1>c, Bounds DEF NoShrunkResume, ServerType, HandleType
<1>1. ASSUME NEW fl \in Modes, Open(fl) PROVE Goal
  BY <1>1, <1>b DEF Open
<1>2. ASSUME UNCHANGED <<live, node, written_end>>, sized' => sized,
             node # NoNode => size'[node] >= size[node]
      PROVE  Goal
  BY <1>2, <1>b, <1>c
<1>3. ASSUME UNCHANGED serverVars, UNCHANGED <<live, node, written_end, sized>>
      PROVE  Goal
  BY <1>c, <1>3 DEF serverVars
<1>4. ASSUME Writing, node # NoNode, WriteCell(node, req.off + total)
      PROVE  size'[node] >= size[node] /\ size'[node] > req.off + total
  <2>1. node \in Nodes /\ size[node] \in Nat
    BY <1>4, Bounds DEF ServerType, HandleType
  <2>2. req.off + total \in Nat
    BY <1>4, CellType, Bounds DEF Writing
  <2> QED BY <1>4, <2>1, <2>2 DEF WriteCell, ServerType
<1>5. HighWater(0) = written_end
  BY DEF HighWater
<1>6. CASE WriteChunk
  BY <1>2, <1>4, <1>6 DEF WriteChunk, handleVars, ghostVars
<1>7. CASE WriteDone
  <2>1. /\ Writing /\ node # NoNode /\ WriteCell(node, req.off + total)
        /\ total + 1 = req.len /\ UNCHANGED <<live, node, sized>>
        /\ written_end' = HighWater(req.len)
    BY <1>7 DEF WriteDone
  <2>2. size'[node] >= size[node] /\ size'[node] > req.off + total
    BY <1>4, <2>1
  <2>3. req.off \in Nat /\ total \in Nat /\ req.len \in Nat
    BY Bounds DEF WriteType
  <2>4. size'[node] >= req.off + req.len
    BY <1>b, <2>1, <2>2, <2>3
  <2>5. written_end' \in {written_end, req.off + req.len}
    BY <2>1 DEF HighWater
  <2> QED BY <1>b, <1>c, <2>1, <2>2, <2>3, <2>4, <2>5
<1>8. CASE WriteRefused
  BY <1>3, <1>5, <1>8 DEF WriteRefused, ghostVars
<1>9. CASE WriteDead
  BY <1>3, <1>5, <1>9 DEF WriteDead, Fail, ghostVars
<1>10. CASE WriteLost
  <2>1. /\ Writing /\ node # NoNode /\ UNCHANGED <<live, node, written_end, sized>>
        /\ WriteCell(node, req.off + total) \/ UNCHANGED size
    BY <1>5, <1>10 DEF WriteLost, Fail, ghostVars
  <2>2. size'[node] >= size[node]
    BY <1>4, <1>b, <1>c, <2>1
  <2> QED BY <1>2, <2>1, <2>2
<1>11. ASSUME NEW n \in Sizes, Resize(file, n), file # NoNode,
              UNCHANGED <<live, node, written_end>>,
              sized' = (sized /\ (file # node \/ n >= written_end))
       PROVE  Goal
  <2>1. live /\ sized /\ node # NoNode /\ (file # node \/ n >= written_end)
    BY <1>11
  <2>2. file \in Nodes
    BY <1>11 DEF ServerType
  <2>3. size'[node] = IF file = node THEN n ELSE size[node]
    BY <1>11, <1>c, <2>1, <2>2 DEF Resize, ServerType
  <2> QED BY <1>11, <1>c, <2>1, <2>3
<1>12. ASSUME NEW n \in Sizes, Ftruncate(n) PROVE Goal
  BY <1>11, <1>12 DEF Ftruncate, handleVars
<1>13. ASSUME NEW n \in Sizes, ForeignTruncate(n) PROVE Goal
  BY <1>11, <1>13 DEF ForeignTruncate, ForeignStep, handleVars
<1>14. ASSUME NEW p \in Cells, ForeignWrite(p) PROVE Goal
  <2>1. UNCHANGED <<live, node, written_end, sized>>
    BY <1>14 DEF ForeignWrite, ForeignStep, handleVars
  <2>2. node \in Nodes => size'[node] >= size[node]
    BY <1>14, Bounds DEF ForeignWrite, ServerType
  <2> QED BY <1>2, <2>1, <2>2 DEF HandleType
<1>15. ASSUME NEW n \in Sizes, ForeignReplace(n) PROVE Goal
  <2>1. UNCHANGED <<live, node, written_end, sized>>
        /\ size' = [size EXCEPT ![fresh + 1] = n]
    BY <1>15 DEF ForeignReplace, ForeignStep, handleVars
  <2>2. node # fresh + 1
    BY Bounds DEF Born, ServerType, HandleType
  <2>3. size'[node] = size[node]
    BY <1>c, <2>1, <2>2 DEF ServerType
  <2> QED BY <1>c, <2>1, <2>3
<1>16. CASE ForeignRemove
  BY <1>c, <1>16 DEF ForeignRemove, ForeignStep, handleVars
<1>17. CASE Close \/ Reconnect \/ ReconnectFailed \/ ReopenFailed
  BY <1>17 DEF Close, Reconnect, ReconnectFailed, ReopenFailed, Settle
<1>18. CASE Reopen
  <2>1. walk = "reopen" /\ written_end' = written_end
    BY <1>18 DEF Reopen
  <2>2. written_end = 0
    <3>1. node = NoNode /\ written_end \in Nat
      BY <2>1, Bounds DEF WalkPlaced, HandleType
    <3>2. written_end > 0 => node' = node
      BY <1>18 DEF Reopen
    <3> QED BY <3>1, <3>2
  <2> QED BY <1>b, <2>1, <2>2
<1>19. CASE Check
  <2>1. /\ UNCHANGED <<size, written_end>>
        /\ node' \in {NoNode, tmp}
        /\ node' # NoNode => reopen_is_safe(written_end, size[tmp])
    BY <1>19 DEF Check, Settle, serverVars
  <2> QED BY <2>1 DEF reopen_is_safe
<1>20. ASSUME NEW off \in Cells, NEW len \in 1 .. MaxSize, Write(off, len)
       PROVE  Goal
  BY <1>3, <1>20 DEF Write, handleVars
<1>21. CASE WriteStale \/ Retry \/ Drop \/ UNCHANGED vars
  <2>1. UNCHANGED serverVars /\ UNCHANGED <<live, node, written_end, sized>>
    BY <1>21 DEF WriteStale, Retry, Drop, vars, handleVars, ghostVars
  <2> QED BY <1>3, <2>1
<1>22. Callback => Goal
  BY <1>1, <1>6, <1>7, <1>8, <1>9, <1>10, <1>12, <1>17, <1>20, <1>21 DEF Callback
<1>23. Recovery => Goal
  BY <1>17, <1>18, <1>19 DEF Recovery
<1>24. Environment => Goal
  BY <1>13, <1>14, <1>15, <1>16, <1>21 DEF Environment
<1>25. Goal
  BY <1>21, <1>22, <1>23, <1>24 DEF Next
<1> QED BY <1>25

\* A handle works on a file shorter than what it wrote only if somebody cut it
\* while it was open, or if the last reopen got no size from the server.
THEOREM ShrunkRefused == Spec => []NoShrunkResume
<1>1. Init => NoShrunkResume
  BY DEF Init, NoShrunkResume
<1> QED BY <1>1, ShrunkNext, TypeInvSafe, WalkSafe, BornSafe, PTL DEF Spec

\* gd_reconnect neither empties nor creates a file on the server.
THEOREM ReopensInert == Spec => ReopenInert
<1>1. [Next]_vars => [walk # "no" /\ walk' # walk => UNCHANGED <<file, size, data>>]_vars
  <2> SUFFICES ASSUME [Next]_vars, walk # "no", walk' # walk
               PROVE  UNCHANGED <<file, size, data>>
    OBVIOUS
  <2>1. Reopen \/ ReopenFailed \/ Check
    BY DEF Next, Callback, Recovery, Environment, vars, Open, Write, WriteStale,
       WriteChunk, WriteDone, WriteRefused, WriteLost, WriteDead, Writing, Retry,
       Close, Ftruncate, Reconnect, ReconnectFailed, Drop, ForeignStep,
       ForeignTruncate, ForeignWrite, ForeignReplace, ForeignRemove, connVars
  <2> QED
    BY <2>1, ReopenMasked DEF Reopen, ReopenFailed, Check, serverVars
<1> QED BY <1>1, PTL DEF Spec, ReopenInert

=============================================================================
