----------------------------- MODULE GdSession -----------------------------
(***************************************************************************)
(* The life of the sessions behind the pool: gd_init_ssh builds one out of *)
(* five resources and frees what it got when a stage fails; gd_pool_init,  *)
(* gd_reconnect and gd_pool_free (gd.c, pool.c, net.c) are its callers.    *)
(* Callbacks and handles are GdConn's subject: here a connection is busy   *)
(* while somebody holds its lock to rebuild it.                            *)
(***************************************************************************)
EXTENDS Integers

CONSTANTS
  Requested,      \* -o connections=N
  PoolMin,        \* GD_POOL_MIN
  PoolMax,        \* GD_POOL_MAX
  Addresses,      \* addresses getaddrinfo returns
  ReconnectMax,   \* GD_RECONNECT_MAX
  BaseMs,         \* GD_RECONNECT_BASE_MS
  CapMs,          \* GD_RECONNECT_CAP_MS
  Ticks,          \* values GetTickCount may have
  KeyTypes,       \* host keys the server may present, by type: a set of sets
  NoKey,          \* no session yet
  MaxReconnects,  \* bounds the reconnects of a connection
  MaxRekeys       \* bounds the times the server's key changes

ASSUME SessionAssumption ==
  /\ Requested \in Int /\ PoolMin \in Nat \ {0} /\ PoolMax \in Nat /\ PoolMin <= PoolMax
  /\ Addresses \in Nat \ {0} /\ ReconnectMax \in Nat \ {0}
  /\ BaseMs \in Nat /\ CapMs \in Nat /\ Ticks \subseteq Nat
  /\ NoKey \notin UNION KeyTypes /\ MaxReconnects \in Nat /\ MaxRekeys \in Nat

\* clamp_int
Clamp(v, lo, hi) == IF v < lo THEN lo ELSE IF v > hi THEN hi ELSE v

Conns == 1 .. Clamp(Requested, PoolMin, PoolMax)

Keys      == UNION KeyTypes
OfType(k) == {j \in Keys : \E t \in KeyTypes : {j, k} \subseteq t}

\* What a connection is made of, in the order everything is given back.
FreeOrder == <<"channel", "sftp", "ssh", "sock", "block">>
Kinds     == {"channel", "sftp", "ssh", "sock", "block"}

\* The stages of gd_init_ssh, and what the ones that acquire something acquire.
After == [session   |-> "tcp",       tcp  |-> "handshake", handshake |-> "hostkey",
          hostkey   |-> "auth",      pin  |-> "auth",      auth      |-> "sftp",
          sftp      |-> "channel",   channel |-> "shell",  shell     |-> "block",
          block     |-> "publish"]
Stages   == DOMAIN After
Acquired == [session |-> "ssh", tcp |-> "sock", sftp |-> "sftp", channel |-> "channel",
             block |-> "block"]

VARIABLES
  phase,   \* of main: "init", "run", "stop", "exit"
  size,    \* connections gd_pool_init established
  pc,      \* connection |-> where the code working on it stands
  job,     \* connection |-> who called: "init", "reconnect", "free"
  own,     \* connection |-> kind |-> serial in the GDSSH of the pool (0: none)
  tmp,     \* connection |-> kind |-> serial in gd_init_ssh's variables (0: none)
  serial,  \* connection |-> builds begun
  live,    \* what is allocated: <<connection, kind, serial>>
  tries,   \* connection |-> addresses gd_tcp_connect went through
  attempt, \* connection |-> attempt of gd_reconnect's loop
  slept,   \* connection |-> time slept between the attempts of this reconnect
  rebuilds,\* connection |-> reconnects so far
  srvKey,  \* the key the server presents
  rekeys,  \* how often it changed
  known,   \* the host's keys in known_hosts
  saves,   \* known_hosts can be written
  key,     \* connection |-> the key its session was built with
  nh,      \* connection |-> the keys it read, while it adds one to them
  \* what happened, for the properties
  pinned,  \* the keys known_hosts had when the pool got its first session
  skipped  \* some session's key was not looked up, or not in the whole file

buildVars == <<own, tmp, serial, live, tries>>
retryVars == <<attempt, slept, rebuilds>>
trustVars == <<srvKey, rekeys, known, saves, key, nh, pinned, skipped>>
vars == <<phase, size, pc, job, buildVars, retryVars, trustVars>>

Nothing == [k \in Kinds |-> 0]

Init ==
  /\ phase = "init" /\ size = 0
  /\ pc = [c \in Conns |-> IF c = 1 THEN "session" ELSE "none"]
  /\ job = [c \in Conns |-> "init"]
  /\ own = [c \in Conns |-> Nothing] /\ tmp = [c \in Conns |-> Nothing]
  /\ serial = [c \in Conns |-> 1] /\ live = {}
  /\ tries = [c \in Conns |-> 0]
  /\ attempt = [c \in Conns |-> 0] /\ slept = [c \in Conns |-> 0]
  /\ rebuilds = [c \in Conns |-> 0]
  /\ srvKey \in Keys /\ rekeys = 0
  /\ known \in SUBSET Keys /\ saves \in BOOLEAN
  /\ key = [c \in Conns |-> NoKey] /\ nh = [c \in Conns |-> {}]
  /\ pinned = known /\ skipped = FALSE

-----------------------------------------------------------------------------
(***************************************************************************)
(* gd_init_ssh                                                             *)
(***************************************************************************)

Goto(c, where) == pc' = [pc EXCEPT ![c] = where]

\* The resource of the stage is in gd_init_ssh's variable.
Take(c) ==
  LET k == Acquired[pc[c]] IN
  /\ tmp' = [tmp EXCEPT ![c][k] = serial[c]]
  /\ live' = live \cup {<<c, k, serial[c]>>}

\* A stage that acquires its resource.
Acquire(c) ==
  /\ pc[c] \in DOMAIN Acquired
  /\ Take(c)
  /\ Goto(c, After[pc[c]])
  /\ UNCHANGED <<phase, size, job, own, serial, tries, retryVars, trustVars>>

\* gd_tcp_connect: an address refuses, its socket is closed, the next is tried.
Refused(c) ==
  /\ pc[c] = "tcp" /\ tries[c] < Addresses - 1
  /\ tries' = [tries EXCEPT ![c] = @ + 1]
  /\ UNCHANGED <<phase, size, pc, job, own, tmp, serial, live, retryVars, trustVars>>

\* Key exchange: from now on the session speaks to whoever has this key.
Handshake(c) ==
  /\ pc[c] = "handshake"
  /\ key' = [key EXCEPT ![c] = srvKey]
  /\ Goto(c, "hostkey")
  /\ UNCHANGED <<phase, size, job, buildVars, retryVars, srvKey, rekeys, known, saves, nh,
                 pinned, skipped>>

\* What libssh2_knownhost_checkp finds among the keys that were read.
Matches(k, read)  == k \in read
NotFound(k, read) == OfType(k) \cap read = {}

\* c goes on with a key that the keys it read do not speak against.
GoesOn(c, read) ==
  /\ IF NotFound(key[c], read)
     THEN Goto(c, "pin") /\ nh' = [nh EXCEPT ![c] = read]
     ELSE Goto(c, "auth") /\ UNCHANGED nh
  /\ skipped' = (skipped \/ read # known)
  /\ UNCHANGED <<phase, size, job, buildVars, retryVars, srvKey, rekeys, known, saves, key,
                 pinned>>

\* Seeded fault: a key that differs from the recorded ones is accepted.
HostkeyAnyway(c) ==
  pc[c] = "hostkey" /\ \E read \in SUBSET known : GoesOn(c, read)

\* known_hosts is read, in part if the read fails or meets another thread's
\* write, and asked for a key of this type; a mismatch ends the build
\* (BuildFails).
Hostkey(c) ==
  /\ pc[c] = "hostkey"
  /\ \E read \in SUBSET known :
       (Matches(key[c], read) \/ NotFound(key[c], read)) /\ GoesOn(c, read)

\* No table (knownhost_init failed), no key, or no USERPROFILE to find the file
\* by: the session goes unchecked.
HostkeySkipped(c) ==
  /\ pc[c] = "hostkey"
  /\ skipped' = TRUE
  /\ Goto(c, "auth")
  /\ UNCHANGED <<phase, size, job, buildVars, retryVars, srvKey, rekeys, known, saves, key,
                 nh, pinned>>

\* No key of this type: it is added to what was read, and the file is written
\* anew with that, if it can be.
Pin(c) ==
  /\ pc[c] = "pin"
  /\ known' = IF saves THEN nh[c] \cup {key[c]} ELSE known
  /\ nh' = [nh EXCEPT ![c] = {}]
  /\ Goto(c, "auth")
  /\ UNCHANGED <<phase, size, job, buildVars, retryVars, srvKey, rekeys, saves, key, pinned,
                 skipped>>

\* Public key accepted; shell requested on the channel.
Pass(c) ==
  /\ pc[c] \in {"auth", "shell"}
  /\ Goto(c, After[pc[c]])
  /\ UNCHANGED <<phase, size, job, buildVars, retryVars, trustVars>>

\* Any stage may fail, the tries of sftp and channel be used up: goto fail.
BuildFails(c) ==
  /\ pc[c] \in Stages \ {"pin"}
  /\ Goto(c, "undo")
  /\ UNCHANGED <<phase, size, job, buildVars, retryVars, trustVars>>

-----------------------------------------------------------------------------
(***************************************************************************)
(* Giving resources back                                                   *)
(***************************************************************************)

\* "undo": the fail label; "teardown": gd_reconnect; "free": gd_conn_free.
\* Only gd_conn_free gives the block back.
Held(c) == IF pc[c] = "undo" THEN tmp[c] ELSE own[c]

\* Seeded fault: the session goes before what lives in it.
ToFreeSession(c) ==
  {k \in Kinds : /\ Held(c)[k] # 0 /\ (k = "block" => pc[c] = "free")
                 /\ k # "ssh" => Held(c)["ssh"] = 0}

\* What comes next, in the order of FreeOrder; empty when all is given back.
ToFree(c) ==
  LET left == {i \in 1 .. 5 : /\ Held(c)[FreeOrder[i]] # 0
                              /\ FreeOrder[i] = "block" => pc[c] = "free"}
  IN {FreeOrder[i] : i \in {j \in left : \A h \in left : j <= h}}

\* Each resource is freed if it was acquired, and its variable cleared.
Release(c) ==
  /\ pc[c] \in {"undo", "teardown", "free"}
  /\ \E k \in ToFree(c) :
       /\ live' = live \ {<<c, k, Held(c)[k]>>}
       /\ IF pc[c] = "undo"
          THEN tmp' = [tmp EXCEPT ![c][k] = 0] /\ UNCHANGED own
          ELSE own' = [own EXCEPT ![c][k] = 0] /\ UNCHANGED tmp
  /\ UNCHANGED <<phase, size, pc, job, serial, tries, retryVars, trustVars>>

-----------------------------------------------------------------------------
(***************************************************************************)
(* The callers                                                             *)
(***************************************************************************)

\* A build starts over: fresh variables, the first address.
Start(c) ==
  /\ serial' = [serial EXCEPT ![c] = @ + 1]
  /\ tries' = [tries EXCEPT ![c] = 0]
  /\ Goto(c, "session")

\* gd_pool_init keeps the connection and goes on to the next, or is done.
PoolAdd(c) ==
  /\ pc[c] = "publish" /\ job[c] = "init"
  /\ own' = [own EXCEPT ![c] = tmp[c]] /\ tmp' = [tmp EXCEPT ![c] = Nothing]
  /\ size' = c
  /\ IF c + 1 \in Conns
     THEN pc' = [pc EXCEPT ![c] = "up", ![c + 1] = "session"] /\ UNCHANGED phase
     ELSE pc' = [pc EXCEPT ![c] = "up"] /\ phase' = "run"
  /\ pinned' = IF c = 1 THEN known ELSE pinned
  /\ UNCHANGED <<job, serial, live, tries, retryVars, srvKey, rekeys, known, saves, key, nh,
                 skipped>>

\* gd_pool_init stops at the first failure; main leaves when it has none.
PoolStop(c) ==
  /\ pc[c] = "undo" /\ job[c] = "init" /\ ToFree(c) = {}
  /\ Goto(c, "none")
  /\ phase' = IF size = 0 THEN "exit" ELSE "run"
  /\ UNCHANGED <<size, job, buildVars, retryVars, trustVars>>

\* A callback failed: gd_reconnect, also on a connection an earlier one lost.
Reconnect(c) ==
  /\ phase = "run" /\ pc[c] \in {"up", "down"}
  /\ rebuilds[c] < MaxReconnects    \* bound
  /\ rebuilds' = [rebuilds EXCEPT ![c] = @ + 1]
  /\ attempt' = [attempt EXCEPT ![c] = 0] /\ slept' = [slept EXCEPT ![c] = 0]
  /\ job' = [job EXCEPT ![c] = "reconnect"]
  /\ Goto(c, "teardown")
  /\ UNCHANGED <<phase, size, buildVars, trustVars>>

\* The old session is gone: the first attempt to build another.
Rebuild(c) ==
  /\ pc[c] = "teardown" /\ ToFree(c) = {}
  /\ Start(c)
  /\ UNCHANGED <<phase, size, job, own, tmp, live, retryVars, trustVars>>

\* Seeded fault: the delay doubles without a cap.
backoff_ms_uncapped(n, base, cap, rnd) == rnd % (base * 2 ^ n + 1)

\* The jittered delay before attempt n + 2: the ceiling doubles up to the cap.
backoff_ms(n, base, cap, rnd) ==
  LET ceil[i \in 0 .. n] ==
        IF i = 0 THEN base ELSE IF 2 * ceil[i - 1] >= cap THEN cap ELSE 2 * ceil[i - 1]
      top == IF ceil[n] > cap THEN cap ELSE ceil[n]
  IN IF top <= 0 THEN 0 ELSE rnd % (top + 1)

\* Seeded fault: the attempts are not counted.
AttemptForever(c) ==
  /\ pc[c] = "undo" /\ job[c] = "reconnect" /\ ToFree(c) = {}
  /\ Goto(c, "session") /\ tries' = [tries EXCEPT ![c] = 0]
  /\ UNCHANGED <<phase, size, job, own, tmp, serial, live, retryVars, trustVars>>

\* An attempt failed: sleep and try again, or give up; the handles are lost.
AttemptFailed(c) ==
  /\ pc[c] = "undo" /\ job[c] = "reconnect" /\ ToFree(c) = {}
  /\ IF attempt[c] + 1 < ReconnectMax
     THEN /\ \E rnd \in Ticks :
               slept' = [slept EXCEPT ![c] = @ + backoff_ms(attempt[c], BaseMs, CapMs, rnd)]
          /\ attempt' = [attempt EXCEPT ![c] = @ + 1]
          /\ Start(c)
     ELSE Goto(c, "down") /\ UNCHANGED <<slept, attempt, serial, tries>>
  /\ UNCHANGED <<phase, size, job, own, tmp, live, rebuilds, trustVars>>

\* Seeded fault: the block of the new GDSSH is not freed.
AdoptLeak(c) ==
  /\ pc[c] = "publish" /\ job[c] = "reconnect"
  /\ own' = [own EXCEPT ![c] = [tmp[c] EXCEPT !["block"] = own[c]["block"]]]
  /\ tmp' = [tmp EXCEPT ![c] = Nothing]
  /\ Goto(c, "up")
  /\ UNCHANGED <<phase, size, job, serial, live, tries, retryVars, trustVars>>

\* Seeded fault: the new channel is not taken over.
AdoptNoChannel(c) ==
  /\ pc[c] = "publish" /\ job[c] = "reconnect"
  /\ own' = [own EXCEPT ![c] = [tmp[c] EXCEPT !["block"] = own[c]["block"], !["channel"] = 0]]
  /\ live' = live \ {<<c, "block", tmp[c]["block"]>>}
  /\ tmp' = [tmp EXCEPT ![c] = Nothing]
  /\ Goto(c, "up")
  /\ UNCHANGED <<phase, size, job, serial, tries, retryVars, trustVars>>

\* The connection takes over the new session and frees the block it came in.
Adopt(c) ==
  /\ pc[c] = "publish" /\ job[c] = "reconnect"
  /\ own' = [own EXCEPT ![c] = [tmp[c] EXCEPT !["block"] = own[c]["block"]]]
  /\ live' = live \ {<<c, "block", tmp[c]["block"]>>}
  /\ tmp' = [tmp EXCEPT ![c] = Nothing]
  /\ Goto(c, "up")
  /\ UNCHANGED <<phase, size, job, serial, tries, retryVars, trustVars>>

\* fuse_main returned: its dispatcher threads are gone, and with them every
\* callback.  gd_pool_free then frees connection after connection.
Finalize ==
  /\ phase = "run" /\ \A c \in 1 .. size : pc[c] \in {"up", "down"}
  /\ phase' = "stop"
  /\ pc' = [pc EXCEPT ![1] = "free"] /\ job' = [job EXCEPT ![1] = "free"]
  /\ UNCHANGED <<size, buildVars, retryVars, trustVars>>

\* Seeded fault: the loop over the pool stops one early.
FreedEarly(c) ==
  /\ pc[c] = "free" /\ ToFree(c) = {}
  /\ IF c + 1 < size
     THEN /\ pc' = [pc EXCEPT ![c] = "none", ![c + 1] = "free"]
          /\ job' = [job EXCEPT ![c + 1] = "free"] /\ UNCHANGED <<phase, size>>
     ELSE Goto(c, "none") /\ phase' = "exit" /\ size' = 0 /\ UNCHANGED job
  /\ UNCHANGED <<buildVars, retryVars, trustVars>>

\* Seeded fault: the loop over the pool does not advance.
FreedAgain(c) ==
  /\ pc[c] = "free" /\ ToFree(c) = {} /\ c = size
  /\ Goto(c, "none") /\ phase' = "exit" /\ size' = 0 /\ UNCHANGED job
  /\ UNCHANGED <<buildVars, retryVars, trustVars>>

\* The connection is given back: on to the next one, or the pool is empty.
Freed(c) ==
  /\ pc[c] = "free" /\ ToFree(c) = {}
  /\ IF c < size
     THEN /\ pc' = [pc EXCEPT ![c] = "none", ![c + 1] = "free"]
          /\ job' = [job EXCEPT ![c + 1] = "free"] /\ UNCHANGED <<phase, size>>
     ELSE Goto(c, "none") /\ phase' = "exit" /\ size' = 0 /\ UNCHANGED job
  /\ UNCHANGED <<buildVars, retryVars, trustVars>>

\* The server is reinstalled, or somebody else answers.
Rekey ==
  /\ rekeys < MaxRekeys   \* bound
  /\ srvKey' \in Keys \ {srvKey} /\ rekeys' = rekeys + 1
  /\ UNCHANGED <<phase, size, pc, job, buildVars, retryVars, known, saves, key, nh, pinned,
                 skipped>>

Build(c) ==
  \/ Acquire(c) \/ Refused(c) \/ Handshake(c) \/ Hostkey(c) \/ HostkeySkipped(c)
  \/ Pin(c) \/ Pass(c) \/ BuildFails(c)

Work(c) ==
  \/ Build(c) \/ Release(c) \/ PoolAdd(c) \/ PoolStop(c) \/ Rebuild(c)
  \/ AttemptFailed(c) \/ Adopt(c) \/ Freed(c)

Next == (\E c \in Conns : Work(c) \/ Reconnect(c)) \/ Finalize \/ Rekey

\* Every stage is bounded by the session timeout, every loop by a counter.
Spec == Init /\ [][Next]_vars /\ \A c \in Conns : WF_vars(Work(c))

-----------------------------------------------------------------------------
(***************************************************************************)
(* Properties                                                              *)
(***************************************************************************)

Referenced ==
  {<<c, k, own[c][k]>> : c \in Conns, k \in Kinds} \cup
  {<<c, k, tmp[c][k]>> : c \in Conns, k \in Kinds}

\* Whatever stage fails, in the first build or in a reconnect: nothing that is
\* allocated is forgotten and nothing that is referenced has been freed.
Ledger == live = {r \in Referenced : r[3] # 0}

\* A connection others may lock is whole, all of it from one build but the
\* block, or has no session at all; it never keeps parts of a dead one.
WholeOrDown ==
  \A c \in Conns :
    /\ pc[c] = "up" => /\ \A k \in Kinds : own[c][k] # 0
                       /\ \A k \in Kinds \ {"block"} : own[c][k] = serial[c]
    /\ pc[c] = "down" => \A k \in Kinds : own[c][k] # 0 <=> k = "block"

\* After main left the pool nothing is allocated, however many builds failed.
NothingLeft == phase = "exit" => live = {}

\* No session is freed under its channels and no socket under its session
\* (libssh2_session_free and _disconnect still use what they are given).
FreedInOrder ==
  [][\A r \in live \ live' :
       /\ r[2] = "ssh" => \A k \in {"channel", "sftp"} : <<r[1], k, r[3]>> \notin live
       /\ r[2] = "sock" => <<r[1], "ssh", r[3]>> \notin live]_vars

\* Where the host key of c's session has passed the check.
Checked == {"auth", "sftp", "channel", "shell", "block", "publish", "up"}

\* The key types known_hosts had when the pool got its first session stay
\* enforced: whatever other threads add to the file and overwrite in it, while
\* the server's key changes or not, a session runs with a recorded key of its
\* type or with a key of a type that had none.
PinnedKey ==
  ~skipped =>
    /\ pinned \subseteq known
    /\ \A c \in Conns :
         pc[c] \in Checked => key[c] \in pinned \/ OfType(key[c]) \cap pinned = {}

\* The three that follow are false, though each is what one would expect of
\* trust on first use (gd.c:137: "TOFU: add host key on first connection").  A
\* key of a type known_hosts has no entry for is added on any connection.
FirstOnly == [][known' # known => size = 0]_vars

\* The sessions of the pool all run with one key.
OneKey ==
  ~skipped => \A c, d \in Conns : pc[c] = "up" /\ pc[d] = "up" => key[c] = key[d]

\* What one thread adds to known_hosts no other removes again.
PinsKept == [][~skipped' => known \subseteq known']_vars

\* The doubling of parse.h (base * 2^attempt), and the sum of the capped ones.
doubled[n \in 0 .. ReconnectMax] == IF n = 0 THEN BaseMs ELSE 2 * doubled[n - 1]
asleep[n \in 0 .. ReconnectMax] ==
  IF n = 0 THEN 0
  ELSE asleep[n - 1] + (IF doubled[n - 1] > CapMs THEN CapMs ELSE doubled[n - 1])

\* A reconnect sleeps with the connection locked: all its sleeps together
\* stay under the sum of the doubling, capped ceilings (parse.h: backoff_ms).
SleepBounded == \A c \in Conns : slept[c] <= asleep[attempt[c]]

\* A reconnect ends, with a session or without, and so does shutdown.
ReconnectEnds ==
  \A c \in Conns : (pc[c] = "teardown") ~> (pc[c] \in {"up", "down", "none"})
ShutdownEnds == (phase = "stop") ~> (phase = "exit")

=============================================================================
