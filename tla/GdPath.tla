------------------------------- MODULE GdPath -------------------------------
(***************************************************************************)
(* What a path operation tells its caller and what it did to the remote    *)
(* name space, when connections of the pool die under its requests:        *)
(* gd_mkdir, gd_unlink, gd_rmdir, gd_open of f_create and gd_rename of     *)
(* gd.c, RETRY_PATH_OP of main.c and retry_result of parse.c.              *)
(*                                                                         *)
(* One callback at a time; other threads of the process appear as          *)
(* connections that die and heal, other users of the server as changes of  *)
(* the name space while the callback runs.  A call is a series of SFTP     *)
(* requests, one per locked section, each on a connection of its own.      *)
(***************************************************************************)
EXTENDS Naturals

CONSTANTS
  Names,       \* the paths in use
  Tmp,         \* the path with a random suffix that gd_rename moves aside to
  Conns,       \* the connection pool
  MaxNew,      \* bounds the objects created
  MaxFaults,   \* bounds the times a connection dies
  MaxForeign,  \* bounds the changes by other users
  None

ASSUME PathAssumption ==
  /\ Tmp \notin Names /\ None \notin Conns
  /\ MaxNew \in Nat /\ MaxFaults \in Nat /\ MaxForeign \in Nat

VARIABLES
  ns,          \* the object at each path, or None
  new,         \* objects created so far
  alive,       \* the connections that work
  op,          \* the callback: what it does, its path, a rename's target
  pc,          \* the request it sends next
  rc,          \* what the gd_xxx function will return
  g_ssh,       \* thread-local g_ssh, the connection of the last request
  g_pin,       \* thread-local g_pin
  attempts,    \* retries made
  answer,      \* what the caller was told
  \* what happened, for the properties
  before,      \* the name space when the callback began
  effect,      \* a request of the first attempt changed the name space
  meddled,     \* somebody else changed it since
  faults, foreign

callVars  == <<op, g_ssh, g_pin, attempts, answer>>
ghostVars == <<before, effect, meddled>>
vars == <<ns, new, alive, callVars, pc, rc, ghostVars, faults, foreign>>

Paths   == Names \cup {Tmp}
Objects == [kind : {"dir", "file"}, born : Paths, nth : 0 .. MaxNew]
Gone    == [kind |-> "none"]

\* retry_result's classes: the operations f_xxx wraps in RETRY_PATH_OP.
MkdirOps  == {"mkdir"}
DeleteOps == {"unlink", "rmdir"}
PlainOps  == {"create"}
Retried   == MkdirOps \cup DeleteOps \cup PlainOps
Ops       == Retried \cup {"rename"}
Errors    == {"EEXIST", "ENOENT", "EPERM", "EIO"}

\* The first request of a gd_xxx.
Start(o) == IF o = "mkdir" THEN "lstat" ELSE o

Init ==
  /\ ns \in [Paths -> {Gone} \cup {[kind |-> k, born |-> n, nth |-> 0] :
                                     k \in {"dir", "file"}, n \in Names}]
  /\ ns[Tmp] = Gone /\ \A n \in Names : ns[n] # Gone => ns[n].born = n
  /\ new = 0 /\ alive = Conns
  /\ op = [do |-> "none", a |-> Tmp, b |-> Tmp]
  /\ pc = "idle" /\ rc = "OK" /\ g_ssh = None /\ g_pin = None
  /\ attempts = 0 /\ answer = "none"
  /\ before = ns /\ effect = FALSE /\ meddled = FALSE
  /\ faults = 0 /\ foreign = 0

-----------------------------------------------------------------------------
(***************************************************************************)
(* The server (external: OpenSSH's sftp-server, SFTP version 3, after      *)
(* map_error): a rename never overwrites, and a request on an existing     *)
(* name fails with FX_FAILURE, which is EPERM.                             *)
(***************************************************************************)

Lookup(n)  == IF ns[n] = Gone THEN "ENOENT" ELSE "OK"
Object(k, n) == [kind |-> k, born |-> n, nth |-> new + 1]

\* r: the request; s: its reply; m: the name space once it ran.
Reply(r) ==
  CASE r.do = "lstat" -> Lookup(r.a)
    [] r.do \in {"mkdir", "create"} -> IF ns[r.a] # Gone THEN "EPERM" ELSE "OK"
    [] r.do = "unlink" -> IF ns[r.a] # Gone /\ ns[r.a].kind = "dir" THEN "EPERM"
                          ELSE Lookup(r.a)
    [] r.do = "rmdir" -> IF ns[r.a] # Gone /\ ns[r.a].kind = "dir" THEN "OK"
                         ELSE "ENOENT"
    [] r.do = "rename" -> IF ns[r.a] = Gone THEN "ENOENT"
                          ELSE IF ns[r.b] # Gone THEN "EPERM" ELSE "OK"

Outcome(r) ==
  CASE r.do = "mkdir" -> [ns EXCEPT ![r.a] = Object("dir", r.a)]
    [] r.do = "create" -> [ns EXCEPT ![r.a] = Object("file", r.a)]
    [] r.do \in {"unlink", "rmdir"} -> [ns EXCEPT ![r.a] = Gone]
    [] r.do = "rename" -> [ns EXCEPT ![r.a] = Gone, ![r.b] = ns[r.a]]
    [] r.do = "lstat" -> ns

\* The server runs request r.
Execute(r) ==
  IF Reply(r) = "OK"
  THEN /\ ns' = Outcome(r)
       /\ new' = IF r.do \in {"mkdir", "create"} THEN new + 1 ELSE new
  ELSE UNCHANGED <<ns, new>>

-----------------------------------------------------------------------------
(***************************************************************************)
(* The callbacks                                                           *)
(***************************************************************************)

\* Seeded fault: the retry's result is reported as it is.
retry_plain(o, r) == r

\* parse.c: errors of a retry that mean the first attempt landed.
retry_result(o, r) ==
  IF \/ o \in MkdirOps /\ r = "EEXIST"
     \/ o \in DeleteOps /\ r = "ENOENT"
  THEN "OK" ELSE r

\* Seeded fault: a retry that fails is retried.
RecoversAgain(r) == r = "EIO" /\ op.do \in Retried

\* Of the errors here only EIO is one of is_connection_error's.
Recovers(r) == r = "EIO" /\ op.do \in Retried /\ attempts = 0

\* The gd_xxx function returns r: the callback recovers or answers.
Return(r) ==
  /\ rc' = r
  /\ IF Recovers(r)
     THEN pc' = "heal" /\ UNCHANGED <<g_pin, answer>>
     ELSE /\ pc' = "idle"
          /\ answer' = IF attempts > 0 THEN retry_result(op.do, r) ELSE r
          /\ g_pin' = None

Go(l, r) == pc' = l /\ rc' = r /\ UNCHANGED <<g_pin, answer>>

\* The request sent at each control point.
Sent ==
  CASE pc = "lstat"   -> [do |-> "lstat", a |-> op.a, b |-> op.a]
    [] pc \in {"rename", "again"} -> [do |-> "rename", a |-> op.a, b |-> op.b]
    [] pc = "aside"   -> [do |-> "rename", a |-> op.b, b |-> Tmp]
    [] pc = "cleanup" -> [do |-> "unlink", a |-> Tmp, b |-> Tmp]
    [] pc = "restore" -> [do |-> "rename", a |-> Tmp, b |-> op.b]
    [] OTHER          -> [do |-> pc, a |-> op.a, b |-> op.a]

\* Seeded faults: the result of the restore is returned; the file moved
\* aside is deleted although its replacement did not arrive.
FallbackRestored(r) ==
  \/ pc = "rename" /\ IF r = "OK" THEN Return(r) ELSE Go("aside", r)
  \/ pc = "aside"  /\ IF r = "OK" THEN Go("again", r) ELSE Return(r)
  \/ pc = "again"  /\ Go(IF r = "OK" THEN "cleanup" ELSE "restore", r)
  \/ pc \in {"cleanup", "restore"} /\ Return(r)

FallbackDeletes(r) ==
  \/ pc = "rename" /\ IF r = "OK" THEN Return(r) ELSE Go("aside", r)
  \/ pc = "aside"  /\ IF r = "OK" THEN Go("again", r) ELSE Return(r)
  \/ pc = "again"  /\ Go("cleanup", r)
  \/ pc = "cleanup" /\ Return(r)

\* gd_rename: after any failure move the target aside and try again.  The
\* result of putting it back is dropped, but not the errno it leaves.
Fallback(r) ==
  \/ pc = "rename" /\ IF r = "OK" THEN Return(r) ELSE Go("aside", r)
  \/ pc = "aside"  /\ IF r = "OK" THEN Go("again", r) ELSE Return(r)
  \/ pc = "again"  /\ Go(IF r = "OK" THEN "cleanup" ELSE "restore", r)
  \/ pc = "cleanup" /\ Return(r)
  \/ pc = "restore" /\ Return(IF r = "OK" THEN rc ELSE r)

\* gd_xxx goes on after reply r.  gd_mkdir stats the path first; any failure
\* of that, a lost connection too, counts as "not there", and only the
\* connection of the second request is recovered.
Proceed(r) ==
  \/ pc = "lstat" /\ IF r = "OK" THEN Return("EEXIST") ELSE Go("mkdir", r)
  \/ pc \in Retried /\ Return(r)
  \/ Fallback(r)

Call(o, n, m) ==
  /\ pc = "idle"
  /\ o = "rename" => n # m
  /\ op' = [do |-> o, a |-> n, b |-> m]
  /\ pc' = Start(o) /\ rc' = "OK" /\ answer' = "none" /\ attempts' = 0
  /\ g_ssh' = None
  /\ before' = ns /\ effect' = FALSE /\ meddled' = FALSE
  /\ UNCHANGED <<ns, new, alive, g_pin, faults, foreign>>

\* The connection of the next request: the pin, else any (round robin, with
\* other threads drawing from it too).
Picked(c) == c \in Conns /\ g_pin \in {None, c} /\ g_ssh' = c

Sending == pc \notin {"idle", "heal"}

\* Our own change of the name space.
Note == effect' = (effect \/ ns' # ns) /\ UNCHANGED <<before, meddled>>

Served(c) ==
  /\ Sending /\ Picked(c) /\ c \in alive
  /\ Execute(Sent) /\ new' <= MaxNew
  /\ Proceed(Reply(Sent))
  /\ Note
  /\ UNCHANGED <<alive, op, attempts, faults, foreign>>

\* The connection dies under the request: the server ran it or not.
Lost(c) ==
  /\ Sending /\ Picked(c) /\ c \in alive /\ faults < MaxFaults
  /\ alive' = alive \ {c} /\ faults' = faults + 1
  /\ Execute(Sent) \/ UNCHANGED <<ns, new>>
  /\ new' <= MaxNew
  /\ Proceed("EIO")
  /\ Note
  /\ UNCHANGED <<op, attempts, foreign>>

\* It was dead before.
Unsent(c) ==
  /\ Sending /\ Picked(c) /\ c \notin alive
  /\ Proceed("EIO")
  /\ UNCHANGED <<ns, new, alive, op, attempts, ghostVars, faults, foreign>>

\* gd_heal got a session for the connection that failed: pin it, call again.
Heal ==
  /\ pc = "heal"
  /\ alive' = alive \cup {g_ssh}
  /\ g_pin' = g_ssh /\ attempts' = attempts + 1
  /\ pc' = Start(op.do)
  /\ UNCHANGED <<ns, new, op, rc, g_ssh, answer, ghostVars, faults, foreign>>

HealFailed ==
  /\ pc = "heal" /\ g_ssh \notin alive
  /\ pc' = "idle" /\ answer' = rc
  /\ UNCHANGED <<ns, new, alive, op, rc, g_ssh, g_pin, attempts, ghostVars,
                 faults, foreign>>

-----------------------------------------------------------------------------
(***************************************************************************)
(* The rest of the process, and the other users                            *)
(***************************************************************************)

Drop(c) ==
  /\ c \in alive /\ faults < MaxFaults
  /\ alive' = alive \ {c} /\ faults' = faults + 1
  /\ UNCHANGED <<ns, new, callVars, pc, rc, ghostVars, foreign>>

HealedByOther(c) ==
  /\ c \in Conns \ alive /\ alive' = alive \cup {c}
  /\ UNCHANGED <<ns, new, callVars, pc, rc, ghostVars, faults, foreign>>

\* Changes between two callbacks are in the choice of the initial state.
Meddle ==
  /\ pc # "idle" /\ foreign < MaxForeign /\ foreign' = foreign + 1
  /\ \E n \in Names :
       \/ ns[n] # Gone /\ ns' = [ns EXCEPT ![n] = Gone] /\ UNCHANGED new
       \/ /\ ns[n] = Gone /\ new < MaxNew /\ new' = new + 1
          /\ \E k \in {"dir", "file"} : ns' = [ns EXCEPT ![n] = Object(k, n)]
  /\ meddled' = TRUE
  /\ UNCHANGED <<alive, callVars, pc, rc, before, effect, faults>>

Next ==
  \/ \E o \in Ops, n \in Names, m \in Names : Call(o, n, m)
  \/ \E c \in Conns : Served(c) \/ Lost(c) \/ Unsent(c)
  \/ Heal \/ HealFailed
  \/ \E c \in Conns : Drop(c) \/ HealedByOther(c)
  \/ Meddle

Spec == Init /\ [][Next]_vars

-----------------------------------------------------------------------------
(***************************************************************************)
(* Properties                                                              *)
(***************************************************************************)

Requests == {"lstat", "rename", "again", "aside", "cleanup", "restore"} \cup Retried

\* Every variable has its type, and a callback is retried at most once.
TypeOK ==
  /\ ns \in [Paths -> Objects \cup {Gone}] /\ new \in 0 .. MaxNew
  /\ alive \in SUBSET Conns
  /\ op \in [do : Ops \cup {"none"}, a : Paths, b : Paths]
  /\ pc \in Requests \cup {"idle", "heal"}
  /\ rc \in Errors \cup {"OK"} /\ answer \in Errors \cup {"OK", "none"}
  /\ g_ssh \in Conns \cup {None} /\ g_pin \in Conns \cup {None}
  /\ attempts \in 0 .. 1
  /\ before \in [Paths -> Objects \cup {Gone}]
  /\ effect \in BOOLEAN /\ meddled \in BOOLEAN
  /\ faults \in 0 .. MaxFaults /\ foreign \in 0 .. MaxForeign

Answered(r) == pc = "idle" /\ answer = r

\* The error of a retry was reported as success (retry_result), and rightly:
\* the first attempt changed the name space and nobody else did.
Translated == answer = "OK" /\ rc # "OK"
Landed     == effect /\ ~meddled

\* The name holds an object of kind k that was created during the run.
MadeNow(n, k) == ns[n] # Gone /\ ns[n].kind = k /\ ns[n].nth > 0

\* What a callback that answered success promises of the name space.
Achieved ==
  CASE op.do = "mkdir"     -> MadeNow(op.a, "dir")
    [] op.do = "create"    -> MadeNow(op.a, "file")
    [] op.do \in DeleteOps -> ns[op.a] = Gone
    [] op.do = "rename"    -> ~meddled => /\ ns[op.a] = Gone
                                          /\ ns[op.b] = before[op.a]
                                          /\ ns[Tmp] = before[Tmp]

\* Success means done, however many replies were lost and whatever the
\* fallback of rename did on the way: the directory or file was made, the name
\* removed is gone, the file renamed is under its new name.  The one exception
\* is the retry of a mkdir or rmdir whose error is translated although the
\* first attempt did nothing, or somebody else interfered (RetryMaskTrue).
SuccessHolds ==
  Answered("OK") => Achieved \/ (op.do \in {"mkdir", "rmdir"} /\ Translated /\ ~Landed)

\* unlink and rmdir never blame the caller for their own lost reply: a
\* definite error means that the call changed nothing (parse.h: an error that
\* "really means your first attempt already landed" is translated).  mkdir
\* can: a retry whose LSTAT is lost in turn gets EPERM from the directory
\* the first attempt made.
NoBogusError ==
  op.do \in DeleteOps /\ ~meddled =>
    \A e \in Errors \ {"EIO"} : Answered(e) => ~effect

\* Rename loses no data while it runs or when it fails: the source is always
\* under some name, and the target is until the source has taken its place.
RenameSafe ==
  op.do = "rename" /\ ~meddled =>
    LET kept == {ns[n] : n \in Paths} IN
    /\ before[op.a] \in kept
    /\ before[op.b] \in kept \/ ns[op.b] = before[op.a]

\* PLAN.md, on gd_rename across a drop: "the data always remains under one
\* of the two names".
RenameUnderName ==
  op.do = "rename" /\ pc = "idle" /\ ~meddled =>
    before[op.a] \in {ns[op.a], ns[op.b]}

\* PLAN.md, R4: "open/create/[...] are safe to retry as-is".
CreateHonest ==
  op.do = "create" /\ ~meddled =>
    \A e \in Errors \ {"EIO"} : Answered(e) => ~effect

\* parse.h: "EEXIST on retry means the first attempt created it", "ENOENT on
\* retry means the first attempt removed it".
RetryMaskTrue ==
  Answered("OK") /\ Translated /\ ~meddled => effect

===========================================================================
