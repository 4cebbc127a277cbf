----------------------------- MODULE GdPathProofs -----------------------------
(***************************************************************************)
(* What a path operation promises its caller, proved for every set of      *)
(* names and connections and every number of losses: success means done,   *)
(* a deletion never reports its own lost reply as an error, and rename     *)
(* keeps both files under some name at every request.                      *)
(***************************************************************************)
EXTENDS GdPath, TLAPS

\* Which control points belong to which callback.
CallInv ==
  /\ op.do = "none" => pc = "idle" /\ answer = "none"
  /\ op.do # "none" => op.a \in Names /\ op.b \in Names
  /\ op.do = "rename" => op.a # op.b /\ attempts = 0
  /\ pc = "lstat" => op.do = "mkdir"
  /\ pc \in Retried => pc = op.do
  /\ pc \in {"rename", "aside", "again", "cleanup", "restore"} => op.do = "rename"
  /\ pc = "heal" => op.do \in Retried /\ attempts = 0 /\ rc = "EIO" /\ g_ssh \in Conns

\* A deletion that took effect has been done when it is retried.
DeleteInv ==
  op.do \in DeleteOps /\ ~meddled /\ effect /\ pc # "idle" =>
    ns[op.a] = Gone /\ (pc = "heal" \/ attempts = 1)

\* A directory whose creation took effect is there when mkdir is retried.
MkdirInv ==
  op.do = "mkdir" /\ ~meddled /\ effect /\ pc # "idle" => MadeNow(op.a, "dir")

\* Where rename's three objects are: source, target, and the name aside.
At(a, b, t) == ns[op.a] = a /\ ns[op.b] = b /\ ns[Tmp] = t

RenameInv ==
  op.do = "rename" /\ ~meddled =>
    LET src == before[op.a]  dst == before[op.b]  aside == before[Tmp]
        Moved    == dst = Gone /\ At(Gone, src, aside)
        Aside    == dst # Gone /\ aside = Gone /\ At(src, Gone, dst)
        OldAside == dst = Gone /\ aside = Gone /\ At(Gone, Gone, src)
        Done     == dst # Gone /\ aside = Gone /\ At(Gone, src, dst)
    IN /\ pc = "rename" => At(src, dst, aside)
       /\ pc = "aside" => At(src, dst, aside) \/ Moved
       /\ pc = "again" => Aside \/ OldAside
       /\ pc = "cleanup" => Done
       /\ pc = "restore" => rc # "OK" /\ (Aside \/ OldAside \/ Done)

IInv ==
  /\ TypeOK /\ CallInv /\ MkdirInv /\ DeleteInv /\ RenameInv
  /\ SuccessHolds /\ NoBogusError /\ RenameSafe

\* What a request may be.
Wire == [do : {"lstat", "mkdir", "create", "unlink", "rmdir", "rename"}, a : Paths, b : Paths]

\* The sets of operations, element by element.
LEMMA OpSets ==
  /\ Retried = {"mkdir", "unlink", "rmdir", "create"}
  /\ Ops = {"mkdir", "unlink", "rmdir", "create", "rename"}
  /\ Requests = {"lstat", "rename", "again", "aside", "cleanup", "restore",
                 "mkdir", "unlink", "rmdir", "create"}
  BY DEF Retried, Ops, Requests, MkdirOps, DeleteOps, PlainOps

\* The request at each control point.
LEMMA SentWhat ==
  /\ pc = "lstat" => Sent = [do |-> "lstat", a |-> op.a, b |-> op.a]
  /\ pc \in {"rename", "again"} => Sent = [do |-> "rename", a |-> op.a, b |-> op.b]
  /\ pc = "aside" => Sent = [do |-> "rename", a |-> op.b, b |-> Tmp]
  /\ pc = "cleanup" => Sent = [do |-> "unlink", a |-> Tmp, b |-> Tmp]
  /\ pc = "restore" => Sent = [do |-> "rename", a |-> Tmp, b |-> op.b]
  /\ pc \in Retried => Sent = [do |-> pc, a |-> op.a, b |-> op.a]
<1>1. pc = "lstat" => Sent = [do |-> "lstat", a |-> op.a, b |-> op.a]
  BY DEF Sent
<1>2. pc \in {"rename", "again"} => Sent = [do |-> "rename", a |-> op.a, b |-> op.b]
  BY DEF Sent
<1>3. pc = "aside" => Sent = [do |-> "rename", a |-> op.b, b |-> Tmp]
  BY DEF Sent
<1>4. pc = "cleanup" => Sent = [do |-> "unlink", a |-> Tmp, b |-> Tmp]
  BY DEF Sent
<1>5. pc = "restore" => Sent = [do |-> "rename", a |-> Tmp, b |-> op.b]
  BY DEF Sent
<1>6. pc \in Retried => Sent = [do |-> pc, a |-> op.a, b |-> op.a]
  BY OpSets DEF Sent
<1> QED BY <1>1, <1>2, <1>3, <1>4, <1>5, <1>6

\* What is sent is a request the server knows.
LEMMA SentType == ASSUME TypeOK, Sending PROVE Sent \in Wire
<1>1. op.a \in Paths /\ op.b \in Paths /\ Tmp \in Paths
  BY DEF TypeOK, Paths
<1>2. pc \in {"lstat", "rename", "again", "aside", "cleanup", "restore"} \/ pc \in Retried
  BY OpSets DEF TypeOK, Sending
<1>3. CASE pc \in Retried
  BY <1>1, <1>3, SentWhat, OpSets DEF Wire
<1>4. CASE pc \in {"lstat", "rename", "again", "aside", "cleanup", "restore"}
  BY <1>1, <1>4, SentWhat DEF Wire
<1> QED BY <1>2, <1>3, <1>4

\* What the server may answer.
LEMMA ReplyType == ASSUME NEW r \in Wire PROVE Reply(r) \in {"OK", "EPERM", "ENOENT"}
  BY DEF Wire, Reply, Lookup

\* A request leaves a name space.
LEMMA ExecuteType ==
  ASSUME TypeOK, NEW r \in Wire, Execute(r), new' <= MaxNew
  PROVE  ns' \in [Paths -> Objects \cup {Gone}] /\ new' \in 0 .. MaxNew
<1>0. /\ ns \in [Paths -> Objects \cup {Gone}] /\ new \in Nat /\ new <= MaxNew /\ MaxNew \in Nat
      /\ r.a \in Paths /\ r.b \in Paths
  BY PathAssumption DEF TypeOK, Wire
<1>1. CASE Reply(r) # "OK"
  BY <1>0, <1>1 DEF Execute
<1>2. CASE Reply(r) = "OK"
  <2>0. ns' = Outcome(r) /\ new' = IF r.do \in {"mkdir", "create"} THEN new + 1 ELSE new
    BY <1>2 DEF Execute
  <2>1. CASE r.do \in {"mkdir", "create"}
    <3>1. new' = new + 1 /\ new + 1 \in 0 .. MaxNew
      BY <1>0, <2>0, <2>1
    <3>2. \A k \in {"dir", "file"} : Object(k, r.a) \in Objects
      BY <1>0, <3>1 DEF Object, Objects
    <3> QED BY <1>0, <2>0, <2>1, <3>1, <3>2 DEF Outcome
  <2>2. CASE r.do \in {"unlink", "rmdir"}
    BY <1>0, <2>0, <2>2 DEF Outcome
  <2>3. CASE r.do = "rename"
    BY <1>0, <2>0, <2>3 DEF Outcome
  <2>4. CASE r.do = "lstat"
    BY <1>0, <2>0, <2>4 DEF Outcome
  <2> QED BY <2>1, <2>2, <2>3, <2>4 DEF Wire
<1> QED BY <1>1, <1>2

\* A request as its callback sees it: r is what it learns of it.
Learns(r) ==
  \/ r = Reply(Sent) /\ Execute(Sent)
  \/ r = "EIO" /\ (Execute(Sent) \/ UNCHANGED <<ns, new>>)

\* A request on a connection, whether it is answered, lost or never sent.
LEMMA RequestSent ==
  ASSUME TypeOK, NEW c \in Conns, Served(c) \/ Lost(c) \/ Unsent(c)
  PROVE  /\ Sending /\ new' \in 0 .. MaxNew /\ ns' \in [Paths -> Objects \cup {Gone}]
         /\ \E r \in Errors \cup {"OK"} : Proceed(r) /\ Learns(r)
         /\ effect' = (effect \/ ns' # ns)
         /\ g_ssh' = c /\ UNCHANGED <<op, attempts, before, meddled, foreign>>
         /\ alive' \in SUBSET Conns /\ faults' \in 0 .. MaxFaults
<1>0. Sending /\ Sent \in Wire
  BY SentType DEF Served, Lost, Unsent
<1>1. CASE Served(c)
  BY <1>0, <1>1, ReplyType, ExecuteType DEF Served, Note, Picked, TypeOK, Errors, Learns
<1>2. CASE Lost(c)
  <2>1. Execute(Sent) \/ UNCHANGED <<ns, new>>
    BY <1>2 DEF Lost
  <2>2. new' \in 0 .. MaxNew /\ ns' \in [Paths -> Objects \cup {Gone}]
    BY <1>0, <1>2, <2>1, ExecuteType DEF Lost, TypeOK
  <2>3. faults' \in 0 .. MaxFaults
    BY <1>2, PathAssumption DEF Lost, TypeOK
  <2> QED BY <1>0, <1>2, <2>1, <2>2, <2>3 DEF Lost, Note, Picked, TypeOK, Errors, Learns
<1>3. CASE Unsent(c)
  BY <1>0, <1>3 DEF Unsent, Picked, TypeOK, Errors, Learns, ghostVars
<1> QED BY <1>1, <1>2, <1>3

\* Whatever the reply, the callback goes on to a state of its type.
LEMMA ProceedType ==
  ASSUME TypeOK, CallInv, NEW r \in Errors \cup {"OK"}, Proceed(r)
  PROVE  /\ pc' \in Requests \cup {"idle", "heal"} /\ rc' \in Errors \cup {"OK"}
         /\ answer' \in Errors \cup {"OK", "none"} /\ g_pin' \in Conns \cup {None}
<1> DEFINE Fine == /\ pc' \in Requests \cup {"idle", "heal"} /\ rc' \in Errors \cup {"OK"}
                   /\ answer' \in Errors \cup {"OK", "none"} /\ g_pin' \in Conns \cup {None}
<1>1. ASSUME NEW x \in Errors \cup {"OK"}, Return(x) PROVE Fine
  <2>1. retry_result(op.do, x) \in Errors \cup {"OK"}
    BY DEF retry_result
  <2> QED BY <1>1, <2>1 DEF Return, TypeOK
<1>2. ASSUME NEW l \in Requests, NEW x \in Errors \cup {"OK"}, Go(l, x) PROVE Fine
  BY <1>2 DEF Go, TypeOK
<1>3. "EEXIST" \in Errors /\ rc \in Errors \cup {"OK"}
  BY DEF Errors, TypeOK
<1>4. CASE pc = "lstat" /\ IF r = "OK" THEN Return("EEXIST") ELSE Go("mkdir", r)
  BY <1>1, <1>2, <1>3, <1>4, OpSets
<1>5. CASE pc \in Retried /\ Return(r)
  BY <1>1, <1>5
<1>6. CASE Fallback(r)
  BY <1>1, <1>2, <1>3, <1>6, OpSets DEF Fallback
<1> QED BY <1>4, <1>5, <1>6 DEF Proceed

\* Every step keeps the types.
LEMMA TypeStep == TypeOK /\ CallInv /\ [Next]_vars => TypeOK'
<1> SUFFICES ASSUME TypeOK, CallInv, [Next]_vars PROVE TypeOK' OBVIOUS
<1> USE DEF callVars, ghostVars
<1>1. ASSUME NEW o \in Ops, NEW n \in Names, NEW m \in Names, Call(o, n, m) PROVE TypeOK'
  <2>1. Start(o) \in Requests /\ n \in Paths /\ m \in Paths
    BY OpSets DEF Start, Paths
  <2>2. op' \in [do : Ops \cup {"none"}, a : Paths, b : Paths]
    BY <1>1, <2>1 DEF Call
  <2>3. None \in Conns \cup {None} /\ g_pin \in Conns \cup {None} /\ 0 \in 0 .. 1
    BY DEF TypeOK
  <2> QED BY <1>1, <2>1, <2>2, <2>3 DEF Call, TypeOK
<1>2. ASSUME NEW c \in Conns, Served(c) \/ Lost(c) \/ Unsent(c) PROVE TypeOK'
  <2>1. PICK r \in Errors \cup {"OK"} : Proceed(r) /\ Learns(r)
    BY <1>2, RequestSent
  <2>2. /\ pc' \in Requests \cup {"idle", "heal"} /\ rc' \in Errors \cup {"OK"}
        /\ answer' \in Errors \cup {"OK", "none"} /\ g_pin' \in Conns \cup {None}
    BY <2>1, ProceedType
  <2>3. effect' \in BOOLEAN
    BY <1>2, RequestSent DEF TypeOK
  <2> QED BY <1>2, <2>2, <2>3, RequestSent DEF TypeOK
<1>3. ASSUME Heal PROVE TypeOK'
  <2>1. Start(op.do) \in Requests /\ attempts + 1 \in 0 .. 1 /\ g_ssh \in Conns
    BY <1>3, OpSets DEF Heal, CallInv, Start
  <2> QED BY <1>3, <2>1 DEF Heal, TypeOK
<1>4. ASSUME HealFailed PROVE TypeOK'
  BY <1>4 DEF HealFailed, TypeOK
<1>5. ASSUME NEW c \in Conns, Drop(c) PROVE TypeOK'
  <2>1. faults' \in 0 .. MaxFaults
    BY <1>5, PathAssumption DEF Drop, TypeOK
  <2> QED BY <1>5, <2>1 DEF Drop, TypeOK
<1>6. ASSUME NEW c \in Conns, HealedByOther(c) PROVE TypeOK'
  BY <1>6 DEF HealedByOther, TypeOK
<1>7. ASSUME Meddle PROVE TypeOK'
  <2>1. foreign' \in 0 .. MaxForeign
    BY <1>7, PathAssumption DEF Meddle, TypeOK
  <2>2. PICK n \in Names :
          \/ ns[n] # Gone /\ ns' = [ns EXCEPT ![n] = Gone] /\ UNCHANGED new
          \/ /\ ns[n] = Gone /\ new < MaxNew /\ new' = new + 1
             /\ \E k \in {"dir", "file"} : ns' = [ns EXCEPT ![n] = Object(k, n)]
    BY <1>7 DEF Meddle
  <2>3. CASE ns' = [ns EXCEPT ![n] = Gone] /\ UNCHANGED new
    BY <1>7, <2>1, <2>3 DEF Meddle, TypeOK
  <2>4. CASE /\ new < MaxNew /\ new' = new + 1
             /\ \E k \in {"dir", "file"} : ns' = [ns EXCEPT ![n] = Object(k, n)]
    <3>1. new' \in 0 .. MaxNew /\ new + 1 \in 0 .. MaxNew
      BY <2>4, PathAssumption DEF TypeOK
    <3>2. \A k \in {"dir", "file"} : Object(k, n) \in Objects
      BY <3>1 DEF Object, Objects, Paths
    <3>3. ns' \in [Paths -> Objects \cup {Gone}]
      BY <2>4, <3>2 DEF TypeOK
    <3> QED BY <1>7, <2>1, <3>1, <3>3 DEF Meddle, TypeOK
  <2> QED BY <2>2, <2>3, <2>4
<1>8. ASSUME UNCHANGED vars PROVE TypeOK'
  BY <1>8 DEF vars, TypeOK
<1> QED BY <1>1, <1>2, <1>3, <1>4, <1>5, <1>6, <1>7, <1>8 DEF Next

\* Every step keeps control point and callback together.
LEMMA CallStep == TypeOK /\ CallInv /\ [Next]_vars => CallInv'
<1> SUFFICES ASSUME TypeOK, CallInv, [Next]_vars PROVE CallInv' OBVIOUS
<1> USE DEF callVars, ghostVars
<1>1. ASSUME NEW o \in Ops, NEW n \in Names, NEW m \in Names, Call(o, n, m) PROVE CallInv'
  <2>1. /\ op'.do = o /\ op'.a = n /\ op'.b = m /\ (o = "rename" => n # m)
        /\ pc' = Start(o) /\ attempts' = 0
    BY <1>1 DEF Call
  <2> QED BY <2>1, OpSets DEF CallInv, Start
<1>2. ASSUME NEW c \in Conns, Served(c) \/ Lost(c) \/ Unsent(c) PROVE CallInv'
  <2>0. /\ g_ssh' = c /\ UNCHANGED <<op, attempts>> /\ attempts \in 0 .. 1 /\ Sending
        /\ op.do \in Ops \cup {"none"}
    BY <1>2, RequestSent DEF TypeOK
  <2>1. PICK r \in Errors \cup {"OK"} : Proceed(r)
    BY <1>2, RequestSent
  <2>2. op.do # "none"
    BY <2>0 DEF CallInv, Sending
  <2>3. ASSUME NEW x, Return(x) PROVE CallInv'
    <3>1. CASE Recovers(x)
      BY <2>0, <2>2, <2>3, <3>1, OpSets DEF Return, Recovers, CallInv
    <3>2. CASE ~Recovers(x)
      BY <2>0, <2>2, <2>3, <3>2, OpSets DEF Return, CallInv
    <3> QED BY <3>1, <3>2
  <2>4. ASSUME pc = "lstat", Go("mkdir", r) PROVE CallInv'
    BY <2>0, <2>2, <2>4, OpSets DEF Go, CallInv
  <2>5. ASSUME NEW l \in {"aside", "again", "cleanup", "restore"}, NEW x, Go(l, x),
               pc \in {"rename", "aside", "again"}
        PROVE CallInv'
    BY <2>0, <2>2, <2>5, OpSets DEF Go, CallInv
  <2> QED BY <2>1, <2>3, <2>4, <2>5 DEF Proceed, Fallback
<1>3. ASSUME Heal PROVE CallInv'
  <2>1. /\ op' = op /\ pc' = Start(op.do) /\ op.do \in Retried /\ op.a \in Names /\ op.b \in Names
    BY <1>3, OpSets DEF Heal, CallInv
  <2> QED BY <2>1, OpSets DEF CallInv, Start
<1>4. ASSUME HealFailed PROVE CallInv'
  BY <1>4, OpSets DEF HealFailed, CallInv
<1>5. ASSUME UNCHANGED <<op, pc, answer, attempts, rc, g_ssh>> PROVE CallInv'
  BY <1>5 DEF CallInv
<1>6. ASSUME NEW c \in Conns, Drop(c) \/ HealedByOther(c) PROVE CallInv'
  BY <1>5, <1>6 DEF Drop, HealedByOther
<1>7. ASSUME Meddle \/ UNCHANGED vars PROVE CallInv'
  BY <1>5, <1>7 DEF Meddle, vars
<1> QED BY <1>1, <1>2, <1>3, <1>4, <1>6, <1>7 DEF Next

\* A new object is an object.
LEMMA ObjectThere ==
  ASSUME NEW k, NEW n
  PROVE  Object(k, n) # Gone /\ Object(k, n).nth = new + 1 /\ Object(k, n).kind = k
<1>1. DOMAIN Object(k, n) = {"kind", "born", "nth"} /\ DOMAIN Gone = {"kind"}
  BY DEF Object, Gone
<1> QED BY <1>1 DEF Object

\* The server renames x to y: both paths change, or nothing does.
LEMMA RenameRuns ==
  ASSUME TypeOK, NEW x \in Paths, NEW y \in Paths, x # y, NEW r,
         r = [do |-> "rename", a |-> x, b |-> y], Execute(r)
  PROVE  \/ /\ Reply(r) = "OK" /\ ns[x] # Gone /\ ns[y] = Gone
            /\ ns'[x] = Gone /\ ns'[y] = ns[x] /\ \A n \in Paths \ {x, y} : ns'[n] = ns[n]
         \/ Reply(r) \in {"EPERM", "ENOENT"} /\ ns' = ns
<1>1. Reply(r) = IF ns[x] = Gone THEN "ENOENT" ELSE IF ns[y] # Gone THEN "EPERM" ELSE "OK"
  BY DEF Reply
<1>2. Outcome(r) = [ns EXCEPT ![x] = Gone, ![y] = ns[x]]
  BY DEF Outcome
<1>3. ns \in [Paths -> Objects \cup {Gone}]
  BY DEF TypeOK
<1> QED BY <1>1, <1>2, <1>3 DEF Execute

\* The server deletes x: it is gone, or was not there, or is of the other kind.
LEMMA DeleteRuns ==
  ASSUME TypeOK, NEW x \in Paths, NEW r, NEW o \in DeleteOps,
         r.do = o /\ r.a = x, Execute(r)
  PROVE  \/ /\ Reply(r) = "OK" /\ ns[x] # Gone
            /\ ns'[x] = Gone /\ \A n \in Paths \ {x} : ns'[n] = ns[n]
         \/ /\ Reply(r) \in {"EPERM", "ENOENT"} /\ ns' = ns
            /\ ns[x] = Gone => Reply(r) = "ENOENT"
            /\ Reply(r) = "ENOENT" => ns[x] = Gone \/ (o = "rmdir" /\ ns[x].kind = "file")
<1>1. ns \in [Paths -> Objects \cup {Gone}] /\ (ns[x] # Gone => ns[x].kind \in {"dir", "file"})
  BY DEF TypeOK, Objects
<1>2. Outcome(r) = [ns EXCEPT ![x] = Gone]
  BY DEF Outcome, DeleteOps
<1>3. CASE o = "unlink"
  <2>1. Reply(r) = IF ns[x] # Gone /\ ns[x].kind = "dir" THEN "EPERM"
                   ELSE IF ns[x] = Gone THEN "ENOENT" ELSE "OK"
    BY <1>3 DEF Reply, Lookup
  <2> QED BY <1>1, <1>2, <2>1 DEF Execute
<1>4. CASE o = "rmdir"
  <2>1. Reply(r) = IF ns[x] # Gone /\ ns[x].kind = "dir" THEN "OK" ELSE "ENOENT"
    BY <1>4 DEF Reply
  <2> QED BY <1>1, <1>2, <1>4, <2>1 DEF Execute
<1> QED BY <1>3, <1>4 DEF DeleteOps

\* The server creates x: it is there and new, and of the kind asked for.
LEMMA CreateRuns ==
  ASSUME TypeOK, NEW x \in Paths, NEW r, r.do \in {"mkdir", "create"} /\ r.a = x,
         Execute(r), Reply(r) = "OK"
  PROVE  MadeNow(x, IF r.do = "mkdir" THEN "dir" ELSE "file")'
<1>1. ns' = [ns EXCEPT ![x] = Object(IF r.do = "mkdir" THEN "dir" ELSE "file", x)]
  BY DEF Execute, Outcome
<1>2. new + 1 > 0
  BY DEF TypeOK
<1> QED BY <1>1, <1>2, ObjectThere DEF TypeOK, MadeNow

\* The steps that send no request leave what they have to alone.
Others ==
  \/ \E o \in Ops, n \in Names, m \in Names : Call(o, n, m)
  \/ Heal \/ HealFailed
  \/ \E c \in Conns : Drop(c) \/ HealedByOther(c)
  \/ Meddle \/ UNCHANGED vars

\* The steps other than requests, by what they change.
LEMMA OtherSteps ==
  ASSUME TypeOK, CallInv, Others
  PROVE  \/ /\ pc' # "idle" /\ ~effect' /\ ns' = ns /\ before' = ns
            /\ pc' \in {"rename"} \cup Retried \cup {"lstat"}
         \/ /\ pc = "heal" /\ op.do \in Retried /\ pc' # "idle" /\ attempts' = 1
            /\ UNCHANGED <<ns, op, answer, effect, meddled, before>>
         \/ /\ pc = "heal" /\ op.do \in Retried /\ answer' = "EIO"
            /\ pc' = "idle" /\ UNCHANGED <<ns, op, effect, meddled, before>>
         \/ UNCHANGED <<ns, op, pc, rc, attempts, answer, before, effect, meddled>>
         \/ pc' # "idle" /\ meddled'
<1> USE DEF callVars, ghostVars
<1>1. ASSUME NEW o \in Ops, NEW n \in Names, NEW m \in Names, Call(o, n, m)
      PROVE  /\ pc' # "idle" /\ ~effect' /\ ns' = ns /\ before' = ns
             /\ pc' \in {"rename"} \cup Retried \cup {"lstat"}
  BY <1>1, OpSets DEF Call, Start
<1>2. CASE Heal
  BY <1>2, OpSets DEF Heal, CallInv, Start
<1>3. CASE HealFailed
  BY <1>3 DEF HealFailed, CallInv
<1>4. ASSUME NEW c \in Conns, Drop(c) \/ HealedByOther(c)
      PROVE  UNCHANGED <<ns, op, pc, rc, attempts, answer, before, effect, meddled>>
  BY <1>4 DEF Drop, HealedByOther
<1>5. CASE Meddle
  BY <1>5 DEF Meddle
<1>6. CASE UNCHANGED vars
  BY <1>6 DEF vars
<1> QED BY <1>1, <1>2, <1>3, <1>4, <1>5, <1>6 DEF Others

\* What the callback does when its gd_xxx function returns r.
LEMMA Returned ==
  ASSUME TypeOK, NEW r, Return(r)
  PROVE  \/ pc' = "heal" /\ r = "EIO" /\ op.do \in Retried /\ attempts = 0
         \/ /\ pc' = "idle" /\ rc' = r
            /\ answer' = IF attempts > 0 THEN retry_result(op.do, r) ELSE r
            /\ r = "EIO" /\ op.do \in Retried => attempts > 0
  BY DEF Return, Recovers, TypeOK

\* An operation that is retried is one request, but for the LSTAT of mkdir.
LEMMA OneRequest ==
  ASSUME TypeOK, CallInv, Sending, op.do \in Retried, NEW r, Proceed(r),
         pc # "lstat"
  PROVE  /\ pc = op.do /\ Return(r) /\ op.a \in Paths
         /\ Sent = [do |-> op.do, a |-> op.a, b |-> op.a]
<1>1. pc = op.do
  BY OpSets DEF CallInv, Sending, TypeOK
<1>2. Return(r)
  BY <1>1, OpSets DEF Proceed, Fallback
<1> QED BY <1>1, <1>2, SentWhat DEF TypeOK

\* Every step keeps what is known of a deletion that took effect.
LEMMA DeleteStep ==
  TypeOK /\ CallInv /\ DeleteInv /\ NoBogusError /\ [Next]_vars => DeleteInv' /\ NoBogusError'
<1> SUFFICES ASSUME TypeOK, CallInv, DeleteInv, NoBogusError, [Next]_vars
             PROVE  DeleteInv' /\ NoBogusError'
  OBVIOUS
<1>1. ASSUME Others PROVE DeleteInv' /\ NoBogusError'
  BY <1>1, OtherSteps DEF DeleteInv, NoBogusError, Answered
<1>2. ASSUME NEW c \in Conns, Served(c) \/ Lost(c) \/ Unsent(c) PROVE DeleteInv' /\ NoBogusError'
  <2>0. /\ Sending /\ effect' = (effect \/ ns' # ns) /\ effect \in BOOLEAN
        /\ UNCHANGED <<op, attempts, before, meddled>>
    BY <1>2, RequestSent DEF TypeOK
  <2>1. PICK r \in Errors \cup {"OK"} : Proceed(r) /\ Learns(r)
    BY <1>2, RequestSent
  <2> SUFFICES ASSUME op.do \in DeleteOps, ~meddled PROVE DeleteInv' /\ NoBogusError'
    BY <2>0 DEF DeleteInv, NoBogusError
  <2>2. op.do \in Retried /\ pc # "lstat"
    BY DEF Retried, DeleteOps, CallInv
  <2>3. pc = op.do /\ Return(r) /\ op.a \in Paths /\ Sent = [do |-> op.do, a |-> op.a, b |-> op.a]
    BY <2>0, <2>1, <2>2, OneRequest
  <2>4. \/ /\ Reply(Sent) = "OK" /\ ns[op.a] # Gone /\ ns'[op.a] = Gone
        \/ /\ Reply(Sent) \in {"EPERM", "ENOENT"} /\ ns' = ns
           /\ ns[op.a] = Gone => Reply(Sent) = "ENOENT"
        \/ ~Execute(Sent)
    BY <2>3, DeleteRuns
  <2>5. effect => ns[op.a] = Gone /\ attempts = 1
    BY <2>2, <2>3, OpSets DEF DeleteInv, Sending
  <2>6. effect' => ns'[op.a] = Gone
    BY <2>0, <2>1, <2>4, <2>5 DEF Learns
  <2>7. \/ pc' = "heal" /\ r = "EIO" /\ attempts = 0
        \/ /\ pc' = "idle"
           /\ answer' = IF attempts > 0 THEN retry_result(op.do, r) ELSE r
           /\ r = "EIO" => attempts > 0
    BY <2>2, <2>3, Returned
  <2>8. DeleteInv'
    BY <2>0, <2>6, <2>7 DEF DeleteInv
  <2>9. ASSUME pc' = "idle", effect', NEW e \in Errors \ {"EIO"}, answer' = e PROVE FALSE
    <3>1. CASE effect
      <4>1. attempts > 0 /\ ns[op.a] = Gone
        BY <2>5, <3>1
      <4>2. r \in {"ENOENT", "EIO"}
        BY <2>1, <2>4, <4>1 DEF Learns
      <4> QED BY <2>7, <2>9, <4>1, <4>2 DEF retry_result, MkdirOps, DeleteOps, Errors
    <3>2. CASE ~effect
      <4>1. ns' # ns
        BY <2>0, <2>9, <3>2
      <4>2. r \in {"OK", "EIO"}
        BY <2>1, <2>4, <4>1 DEF Learns
      <4> QED BY <2>7, <2>9, <4>2 DEF retry_result, MkdirOps, DeleteOps, Errors
    <3> QED BY <2>0, <3>1, <3>2
  <2>10. NoBogusError'
    BY <2>9 DEF NoBogusError, Answered, Errors
  <2> QED BY <2>8, <2>10
<1> QED BY <1>1, <1>2 DEF Next, Others

\* What it takes for a retried operation to be told success.
LEMMA ToldOK ==
  ASSUME TypeOK, NEW r, Return(r), pc' = "idle", answer' = "OK"
  PROVE  \/ r = "OK"
         \/ attempts > 0 /\ op.do \in MkdirOps /\ r = "EEXIST"
         \/ attempts > 0 /\ op.do \in DeleteOps /\ r = "ENOENT"
  BY Returned DEF retry_result

\* A request of gd_rename, from what RenameInv says of the three paths.
LEMMA RenameMoves ==
  ASSUME TypeOK, CallInv, RenameInv, Sending, op.do = "rename", ~meddled,
         NEW r, Proceed(r), Learns(r), UNCHANGED <<op, before, meddled>>
  PROVE  /\ RenameInv' /\ RenameSafe'
         /\ pc' = "idle" /\ answer' = "OK" => At(Gone, before[op.a], before[Tmp])'
<1> DEFINE src == before[op.a]
           dst == before[op.b]
           aside == before[Tmp]
           Moved    == dst = Gone /\ At(Gone, src, aside)
           Aside    == dst # Gone /\ aside = Gone /\ At(src, Gone, dst)
           OldAside == dst = Gone /\ aside = Gone /\ At(Gone, Gone, src)
           Done     == dst # Gone /\ aside = Gone /\ At(Gone, src, dst)
           Phase    == /\ pc = "rename" => At(src, dst, aside)
                       /\ pc = "aside" => At(src, dst, aside) \/ Moved
                       /\ pc = "again" => Aside \/ OldAside
                       /\ pc = "cleanup" => Done
                       /\ pc = "restore" => rc # "OK" /\ (Aside \/ OldAside \/ Done)
           Safe     == /\ \/ ns[op.a] = src \/ ns[op.b] = src \/ ns[Tmp] = src
                       /\ \/ ns[op.a] = dst \/ ns[op.b] = dst \/ ns[Tmp] = dst
                          \/ ns[op.b] = src
           Told     == pc' = "idle" /\ answer' = "OK" => At(Gone, src, aside)'
<1>1. /\ op.a \in Paths /\ op.b \in Paths /\ Tmp \in Paths
      /\ op.a # op.b /\ op.a # Tmp /\ op.b # Tmp /\ attempts = 0
  BY PathAssumption DEF CallInv, Paths
<1>2. pc \in {"rename", "aside", "again", "cleanup", "restore"}
  BY OpSets DEF CallInv, Sending, TypeOK
<1>3. Phase
  BY DEF RenameInv
<1>4. op' = op /\ before' = before
  OBVIOUS
<1>5. ASSUME NEW x, Return(x) PROVE pc' = "idle" /\ answer' = x
  BY <1>1, <1>5, OpSets DEF Return, Recovers
<1>6. ASSUME NEW x \in Paths, NEW y \in Paths, x # y,
             Sent = [do |-> "rename", a |-> x, b |-> y]
      PROVE  \/ /\ r \in {"OK", "EIO"} /\ ns[x] # Gone /\ ns[y] = Gone
                /\ ns'[x] = Gone /\ ns'[y] = ns[x] /\ \A n \in Paths \ {x, y} : ns'[n] = ns[n]
             \/ r # "OK" /\ ns' = ns
  BY <1>6, RenameRuns DEF Learns
<1>7. Phase' /\ Safe' /\ Told
  <2>1. CASE pc = "rename"
    <3>1. Sent = [do |-> "rename", a |-> op.a, b |-> op.b]
      BY <2>1, SentWhat
    <3>2. \/ r \in {"OK", "EIO"} /\ dst = Gone /\ At(Gone, src, aside)'
          \/ r # "OK" /\ At(src, dst, aside)'
      BY <1>1, <1>3, <1>4, <1>6, <2>1, <3>1 DEF At
    <3>3. IF r = "OK" THEN pc' = "idle" ELSE pc' = "aside"
      BY <1>5, <2>1, OpSets DEF Proceed, Fallback, Go
    <3> QED BY <1>4, <3>2, <3>3 DEF At
  <2>2. CASE pc = "aside"
    <3>1. Sent = [do |-> "rename", a |-> op.b, b |-> Tmp]
      BY <2>2, SentWhat
    <3>2. CASE At(src, dst, aside)
      <4>1. \/ r \in {"OK", "EIO"} /\ dst # Gone /\ aside = Gone /\ At(src, Gone, dst)'
            \/ r # "OK" /\ At(src, dst, aside)'
        BY <1>1, <1>4, <1>6, <3>1, <3>2 DEF At
      <4>2. IF r = "OK" THEN pc' = "again" ELSE pc' = "idle" /\ answer' = r
        BY <1>5, <2>2, OpSets DEF Proceed, Fallback, Go
      <4> QED BY <1>4, <4>1, <4>2 DEF At
    <3>3. CASE Moved
      <4>1. \/ r \in {"OK", "EIO"} /\ aside = Gone /\ At(Gone, Gone, src)'
            \/ r # "OK" /\ At(Gone, src, aside)'
        BY <1>1, <1>4, <1>6, <3>1, <3>3 DEF At
      <4>2. IF r = "OK" THEN pc' = "again" ELSE pc' = "idle" /\ answer' = r
        BY <1>5, <2>2, OpSets DEF Proceed, Fallback, Go
      <4> QED BY <1>4, <3>3, <4>1, <4>2 DEF At
    <3> QED BY <1>3, <2>2, <3>2, <3>3
  <2>3. CASE pc = "again"
    <3>1. Sent = [do |-> "rename", a |-> op.a, b |-> op.b]
      BY <2>3, SentWhat
    <3>2. IF r = "OK" THEN pc' = "cleanup" ELSE pc' = "restore" /\ rc' = r
      BY <2>3, OpSets DEF Proceed, Fallback, Go
    <3>3. CASE Aside
      <4>1. \/ r \in {"OK", "EIO"} /\ At(Gone, src, dst)'
            \/ r # "OK" /\ At(src, Gone, dst)'
        BY <1>1, <1>4, <1>6, <3>1, <3>3 DEF At
      <4> QED BY <1>4, <3>2, <3>3, <4>1 DEF At
    <3>4. CASE OldAside
      <4>1. r # "OK" /\ At(Gone, Gone, src)'
        BY <1>1, <1>4, <1>6, <3>1, <3>4 DEF At
      <4> QED BY <1>4, <3>2, <3>4, <4>1 DEF At
    <3> QED BY <1>3, <2>3, <3>3, <3>4
  <2>4. CASE pc = "cleanup"
    <3>1. Sent = [do |-> "unlink", a |-> Tmp, b |-> Tmp]
      BY <2>4, SentWhat
    <3>2. At(Gone, src, dst) /\ aside = Gone
      BY <1>3, <2>4
    <3>3. \/ Execute(Sent) /\ r \in {Reply(Sent), "EIO"}
          \/ r # "OK" /\ ns' = ns
      BY DEF Learns
    <3>4. \/ At(Gone, src, Gone)'
          \/ r # "OK" /\ At(Gone, src, dst)'
      <4>1. "unlink" \in DeleteOps
        BY DEF DeleteOps
      <4> QED BY <1>1, <1>4, <3>1, <3>2, <3>3, <4>1, DeleteRuns DEF At
    <3>5. pc' = "idle" /\ answer' = r
      BY <1>5, <2>4, OpSets DEF Proceed, Fallback
    <3> QED BY <1>4, <3>2, <3>4, <3>5 DEF At
  <2>5. CASE pc = "restore"
    <3>1. Sent = [do |-> "rename", a |-> Tmp, b |-> op.b]
      BY <2>5, SentWhat
    <3>2. rc # "OK" /\ (Aside \/ OldAside \/ Done)
      BY <1>3, <2>5
    <3>3. pc' = "idle" /\ answer' # "OK"
      BY <1>5, <2>5, <3>2, OpSets DEF Proceed, Fallback
    <3>4. CASE Aside
      <4>1. At(src, dst, Gone)' \/ At(src, Gone, dst)'
        BY <1>1, <1>4, <1>6, <3>1, <3>4 DEF At
      <4> QED BY <1>4, <3>3, <4>1 DEF At
    <3>5. CASE OldAside
      <4>1. At(Gone, src, Gone)' \/ At(Gone, Gone, src)'
        BY <1>1, <1>4, <1>6, <3>1, <3>5 DEF At
      <4> QED BY <1>4, <3>3, <3>5, <4>1 DEF At
    <3>6. CASE Done
      <4>1. At(Gone, src, dst)' \/ (src = Gone /\ At(Gone, dst, Gone)')
        BY <1>1, <1>4, <1>6, <3>1, <3>6 DEF At
      <4> QED BY <1>4, <3>3, <4>1 DEF At
    <3> QED BY <3>2, <3>4, <3>5, <3>6
  <2> QED BY <1>2, <2>1, <2>2, <2>3, <2>4, <2>5
<1>8. RenameInv'
  BY <1>7 DEF RenameInv
<1>9. RenameSafe'
  BY <1>1, <1>4, <1>7 DEF RenameSafe
<1> QED BY <1>7, <1>8, <1>9

\* Every step keeps what is known of a directory that was made.
LEMMA MkdirStep == TypeOK /\ CallInv /\ MkdirInv /\ [Next]_vars => MkdirInv'
<1> SUFFICES ASSUME TypeOK, CallInv, MkdirInv, [Next]_vars PROVE MkdirInv'
  OBVIOUS
<1>1. CASE Others
  BY <1>1, OtherSteps DEF MkdirInv, MadeNow
<1>2. ASSUME NEW c \in Conns, Served(c) \/ Lost(c) \/ Unsent(c) PROVE MkdirInv'
  <2>0. /\ Sending /\ effect' = (effect \/ ns' # ns) /\ effect \in BOOLEAN
        /\ UNCHANGED <<op, attempts, before, meddled>>
    BY <1>2, RequestSent DEF TypeOK
  <2>1. PICK r \in Errors \cup {"OK"} : Proceed(r) /\ Learns(r)
    BY <1>2, RequestSent
  <2> SUFFICES ASSUME op.do = "mkdir", ~meddled, effect' PROVE MadeNow(op.a, "dir")'
    BY <2>0 DEF MkdirInv, MadeNow
  <2>2. effect => MadeNow(op.a, "dir")
    BY <2>0 DEF MkdirInv, Sending
  <2>3. CASE ns' = ns
    BY <2>0, <2>2, <2>3 DEF MadeNow
  <2>4. CASE ns' # ns
    <3>1. Execute(Sent) /\ Reply(Sent) = "OK"
      BY <2>1, <2>4 DEF Learns, Execute
    <3>2. pc # "lstat"
      BY <2>4, <3>1, SentWhat DEF Execute, Outcome
    <3>3. op.do \in Retried
      BY OpSets
    <3>4. op.a \in Paths /\ Sent = [do |-> "mkdir", a |-> op.a, b |-> op.a]
      BY <2>0, <2>1, <3>2, <3>3, OneRequest
    <3>5. ns'[op.a] # Gone /\ ns'[op.a].kind = "dir" /\ ns'[op.a].nth > 0
      BY <3>1, <3>4, CreateRuns DEF MadeNow
    <3> QED BY <2>0, <3>5 DEF MadeNow
  <2> QED BY <2>3, <2>4
<1> QED BY <1>1, <1>2 DEF Next, Others

\* A callback is told success only when what it asked for is so, or when the
\* error of its retry was translated although the first attempt did not land.
LEMMA SuccessStep ==
  TypeOK /\ CallInv /\ MkdirInv /\ DeleteInv /\ RenameInv /\ SuccessHolds /\ [Next]_vars
    => SuccessHolds'
<1> SUFFICES ASSUME TypeOK, CallInv, MkdirInv, DeleteInv, RenameInv, SuccessHolds, [Next]_vars
             PROVE  SuccessHolds'
  OBVIOUS
<1>1. ASSUME Others PROVE SuccessHolds'
  <2>1. CASE pc' # "idle" \/ answer' = "EIO"
    BY <2>1 DEF SuccessHolds, Answered
  <2>2. CASE UNCHANGED <<ns, op, pc, rc, attempts, answer, before, effect, meddled>>
    <3>1. Achieved' = Achieved
      BY <2>2 DEF Achieved, MadeNow
    <3>2. Translated' = Translated /\ Landed' = Landed
      BY <2>2 DEF Translated, Landed
    <3> QED BY <2>2, <3>1, <3>2 DEF SuccessHolds, Answered
  <2> QED BY <1>1, <2>1, <2>2, OtherSteps
<1>2. ASSUME NEW c \in Conns, Served(c) \/ Lost(c) \/ Unsent(c) PROVE SuccessHolds'
  <2>0. /\ Sending /\ effect' = (effect \/ ns' # ns) /\ effect \in BOOLEAN
        /\ UNCHANGED <<op, attempts, before, meddled>>
    BY <1>2, RequestSent DEF TypeOK
  <2>1. PICK r \in Errors \cup {"OK"} : Proceed(r) /\ Learns(r)
    BY <1>2, RequestSent
  <2> SUFFICES ASSUME pc' = "idle", answer' = "OK"
               PROVE  Achieved' \/ (op.do \in {"mkdir", "rmdir"} /\ Translated' /\ ~Landed')
    BY <2>0 DEF SuccessHolds, Answered
  <2>2. CASE op.do \in DeleteOps
    <3>1. op.do \in Retried /\ pc # "lstat" /\ op.do \notin MkdirOps
      BY <2>2 DEF Retried, DeleteOps, MkdirOps, CallInv
    <3>2. Return(r) /\ op.a \in Paths /\ Sent = [do |-> op.do, a |-> op.a, b |-> op.a]
      BY <2>0, <2>1, <3>1, OneRequest
    <3>3. r \in {"OK", "ENOENT"}
      BY <3>1, <3>2, ToldOK
    <3>4. Execute(Sent) /\ r = Reply(Sent)
      BY <2>1, <3>3 DEF Learns
    <3>5. CASE ns'[op.a] = Gone
      BY <2>0, <2>2, <3>5 DEF Achieved, DeleteOps
    <3>6. CASE ns'[op.a] # Gone
      <4>1. r = "ENOENT" /\ ns' = ns /\ op.do = "rmdir"
        BY <2>2, <3>2, <3>3, <3>4, <3>6, DeleteRuns
      <4>2. Translated'
        BY <3>2, <4>1 DEF Translated, Return
      <4>3. ~(effect /\ ~meddled)
        BY <2>0, <2>2, <3>6, <4>1 DEF DeleteInv, Sending
      <4> QED BY <2>0, <4>1, <4>2, <4>3 DEF Landed
    <3> QED BY <3>5, <3>6
  <2>3. CASE op.do = "create"
    <3>1. op.do \in Retried /\ pc # "lstat" /\ op.do \notin MkdirOps /\ op.do \notin DeleteOps
      BY <2>3 DEF Retried, DeleteOps, MkdirOps, PlainOps, CallInv
    <3>2. Return(r) /\ op.a \in Paths /\ Sent = [do |-> op.do, a |-> op.a, b |-> op.a]
      BY <2>0, <2>1, <3>1, OneRequest
    <3>3. r = "OK"
      BY <3>1, <3>2, ToldOK
    <3>4. Execute(Sent) /\ Reply(Sent) = "OK"
      BY <2>1, <3>3 DEF Learns
    <3>5. ns'[op.a] # Gone /\ ns'[op.a].kind = "file" /\ ns'[op.a].nth > 0
      BY <2>3, <3>2, <3>4, CreateRuns DEF MadeNow
    <3> QED BY <2>0, <2>3, <3>5 DEF Achieved, MadeNow, DeleteOps
  <2>4. CASE op.do = "mkdir" /\ pc # "lstat"
    <3>1. op.do \in Retried /\ op.do \notin DeleteOps
      BY <2>4 DEF Retried, DeleteOps, MkdirOps
    <3>2. Return(r) /\ op.a \in Paths /\ Sent = [do |-> op.do, a |-> op.a, b |-> op.a]
      BY <2>0, <2>1, <2>4, <3>1, OneRequest
    <3>3. r \in {"OK", "EEXIST"}
      BY <3>1, <3>2, ToldOK
    <3>4. Execute(Sent) /\ Reply(Sent) = r
      BY <2>1, <3>3 DEF Learns
    <3>5. r = "OK"
      BY <2>0, <3>3, <3>4, SentType, ReplyType
    <3>6. ns'[op.a] # Gone /\ ns'[op.a].kind = "dir" /\ ns'[op.a].nth > 0
      BY <2>4, <3>2, <3>4, <3>5, CreateRuns DEF MadeNow
    <3> QED BY <2>0, <2>4, <3>6 DEF Achieved, MadeNow, DeleteOps
  <2>5. CASE op.do = "mkdir" /\ pc = "lstat"
    <3>1. r = "OK" /\ Return("EEXIST") /\ Sent = [do |-> "lstat", a |-> op.a, b |-> op.a]
      BY <2>1, <2>5, SentWhat, OpSets DEF Proceed, Fallback, Go
    <3>2. Execute(Sent) /\ Reply(Sent) = "OK"
      BY <2>1, <3>1 DEF Learns
    <3>3. ns' = ns
      BY <3>1, <3>2 DEF Execute, Outcome
    <3>4. Translated'
      BY <3>1 DEF Translated, Return
    <3>5. effect /\ ~meddled => MadeNow(op.a, "dir")
      BY <2>0, <2>5 DEF MkdirInv, Sending
    <3>6. CASE effect /\ ~meddled
      BY <2>0, <2>5, <3>3, <3>5, <3>6 DEF Achieved, MadeNow, DeleteOps
    <3>7. CASE ~(effect /\ ~meddled)
      BY <2>0, <2>5, <3>3, <3>4, <3>7 DEF Landed
    <3> QED BY <3>6, <3>7
  <2>6. CASE op.do = "rename"
    <3>1. ASSUME ~meddled
          PROVE  ns'[op.a] = Gone /\ ns'[op.b] = before[op.a] /\ ns'[Tmp] = before[Tmp]
      BY <2>0, <2>1, <2>6, <3>1, RenameMoves DEF At
    <3>2. Achieved'
      BY <2>0, <2>6, <3>1 DEF Achieved, DeleteOps
    <3> QED BY <3>2
  <2>7. op.do \in {"mkdir", "create", "rename"} \cup DeleteOps
    BY <2>0, OpSets DEF TypeOK, CallInv, Sending, DeleteOps
  <2> QED BY <2>2, <2>3, <2>4, <2>5, <2>6, <2>7
<1> QED BY <1>1, <1>2 DEF Next, Others

\* Every step keeps the three objects of a rename where RenameInv has them.
LEMMA RenameStep ==
  TypeOK /\ CallInv /\ RenameInv /\ RenameSafe /\ [Next]_vars => RenameInv' /\ RenameSafe'
<1> SUFFICES ASSUME TypeOK, CallInv, RenameInv, RenameSafe, [Next]_vars
             PROVE  RenameInv' /\ RenameSafe'
  OBVIOUS
<1>1. ASSUME NEW o \in Ops, NEW n \in Names, NEW m \in Names, Call(o, n, m)
      PROVE  RenameInv' /\ RenameSafe'
  <2>1. ns' = ns /\ before' = ns /\ op' = [do |-> o, a |-> n, b |-> m] /\ pc' = Start(o)
    BY <1>1 DEF Call
  <2>2. ASSUME o = "rename" PROVE pc' = "rename"
    BY <2>1, <2>2 DEF Start
  <2>3. n \in Paths /\ m \in Paths
    BY DEF Paths
  <2>4. RenameInv'
    BY <2>1, <2>2 DEF RenameInv, At
  <2>5. RenameSafe'
    BY <2>1, <2>3 DEF RenameSafe
  <2> QED BY <2>4, <2>5
<1>2. ASSUME NEW c \in Conns, Served(c) \/ Lost(c) \/ Unsent(c) PROVE RenameInv' /\ RenameSafe'
  <2>1. Sending /\ UNCHANGED <<op, before, meddled>>
    BY <1>2, RequestSent
  <2>2. PICK r \in Errors \cup {"OK"} : Proceed(r) /\ Learns(r)
    BY <1>2, RequestSent
  <2>3. CASE op.do = "rename" /\ ~meddled
    BY <2>1, <2>2, <2>3, RenameMoves
  <2>4. CASE ~(op.do = "rename" /\ ~meddled)
    BY <2>1, <2>4 DEF RenameInv, RenameSafe
  <2> QED BY <2>3, <2>4
<1>3. CASE Heal \/ HealFailed
  BY <1>3, OpSets DEF Heal, HealFailed, CallInv, RenameInv, RenameSafe, ghostVars
<1>4. ASSUME UNCHANGED <<ns, op, pc, rc, before, meddled>> PROVE RenameInv' /\ RenameSafe'
  <2>1. RenameInv'
    BY <1>4 DEF RenameInv, At
  <2>2. RenameSafe'
    BY <1>4 DEF RenameSafe
  <2> QED BY <2>1, <2>2
<1>5. ASSUME NEW c \in Conns, Drop(c) \/ HealedByOther(c) PROVE RenameInv' /\ RenameSafe'
  BY <1>4, <1>5 DEF Drop, HealedByOther, callVars, ghostVars
<1>6. CASE Meddle
  BY <1>6 DEF Meddle, RenameInv, RenameSafe
<1>7. CASE UNCHANGED vars
  BY <1>4, <1>7 DEF vars, callVars, ghostVars
<1> QED BY <1>1, <1>2, <1>3, <1>5, <1>6, <1>7 DEF Next

\* A process without a callback satisfies the invariant.
LEMMA InitHolds == Init => IInv
<1> SUFFICES ASSUME Init PROVE IInv OBVIOUS
<1>1. TypeOK
  <2>1. \A k \in {"dir", "file"}, n \in Names : [kind |-> k, born |-> n, nth |-> 0] \in Objects
    BY PathAssumption DEF Objects, Paths
  <2>2. ns \in [Paths -> Objects \cup {Gone}]
    <3>1. ns \in [Paths -> {Gone} \cup {[kind |-> k, born |-> n, nth |-> 0] :
                                     k \in {"dir", "file"}, n \in Names}]
      BY DEF Init
    <3> QED BY <2>1, <3>1
  <2>3. op \in [do : Ops \cup {"none"}, a : Paths, b : Paths]
    BY DEF Init, Paths
  <2>4. before \in [Paths -> Objects \cup {Gone}]
    BY <2>2 DEF Init
  <2>5. /\ new = 0 /\ alive = Conns /\ pc = "idle" /\ rc = "OK" /\ answer = "none"
        /\ g_ssh = None /\ g_pin = None /\ attempts = 0 /\ effect = FALSE /\ meddled = FALSE
        /\ faults = 0 /\ foreign = 0
    BY DEF Init
  <2>6. 0 \in 0 .. MaxNew /\ 0 \in 0 .. MaxFaults /\ 0 \in 0 .. MaxForeign /\ 0 \in 0 .. 1
    BY PathAssumption
  <2> QED BY <2>2, <2>3, <2>4, <2>5, <2>6 DEF TypeOK
<1>2. CallInv
  BY OpSets DEF Init, CallInv
<1>3. MkdirInv /\ DeleteInv /\ RenameInv /\ RenameSafe
  BY DEF Init, MkdirInv, DeleteInv, RenameInv, RenameSafe, DeleteOps
<1>4. SuccessHolds /\ NoBogusError
  BY DEF Init, SuccessHolds, NoBogusError, Answered, DeleteOps
<1> QED BY <1>1, <1>2, <1>3, <1>4 DEF IInv

\* The invariant is inductive.
LEMMA Keeps == IInv /\ [Next]_vars => IInv'
  BY TypeStep, CallStep, MkdirStep, DeleteStep, RenameStep, SuccessStep DEF IInv

\* The invariant holds at all times.
LEMMA Invariant == Spec => []IInv
  BY InitHolds, Keeps, PTL DEF Spec

\* Every variable keeps its type, and no callback is retried twice.
THEOREM TypeCorrect == Spec => []TypeOK
<1>1. IInv => TypeOK
  BY DEF IInv
<1> QED BY <1>1, Invariant, PTL

\* gd_mkdir, gd_unlink, gd_rmdir, gd_open and gd_rename report success only for
\* what is so, however many replies were lost; mkdir and rmdir, also when their
\* retry's error is translated although the first attempt did not land.
THEOREM Successes == Spec => []SuccessHolds
<1>1. IInv => SuccessHolds
  BY DEF IInv
<1> QED BY <1>1, Invariant, PTL

\* retry_result: unlink and rmdir never report as an error what their own first
\* attempt did.
THEOREM NoBogus == Spec => []NoBogusError
<1>1. IInv => NoBogusError
  BY DEF IInv
<1> QED BY <1>1, Invariant, PTL

\* gd_rename keeps source and target under some name at every request, until
\* the source has taken the place of the target.
THEOREM RenameKeeps == Spec => []RenameSafe
<1>1. IInv => RenameSafe
  BY DEF IInv
<1> QED BY <1>1, Invariant, PTL

===============================================================================
