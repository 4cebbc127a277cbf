# golddrive in TLA+

golddrive mounts a remote host as a Windows drive over SSH/SFTP.  The program has two parts: a
file system process in C, one per mounted drive (`src/src/cli`), and a WPF application in C# that
starts, watches and stops these processes (`src/src/app`).  This directory holds models of the
parts whose correctness depends on the order of events (threads that share a connection, sessions
that die, stages that fail, replies that get lost, two programs that meet in files), model-checking
runs on small instances, and proofs that hold for instances of every size.

Run `tlc -config X.cfg M` for a run of the table below and `tlapm M.tla` for a proof module.

## 1. Inventory

Paths are relative to `src/src/`.

### The CLI process

| Component | Source | State | Operations | What makes it correct |
|---|---|---|---|---|
| Connection pool | `cli/pool.c` | `g_pool` (connections, round-robin counter), per connection an SRW lock; thread-local `g_ssh`, `g_gen`, `g_pin` | `gd_pool_init/free/pick`, `gd_lock`, `gd_lock_conn`, `gd_unlock`, `gd_pin/unpin` | one owner per lock, every lock given back, a retry runs where the heal happened |
| Reconnect | `cli/gd.c:311-559` | `GDSSH`: session, sftp, socket, `generation`, registry of open handles; the `<letter>.degraded` marker | `gd_heal`, `gd_reconnect`, `gd_handle_reopen`, `gd_handle_register/unregister` | no pointer into a freed session, no fresh session torn down, every lost handle flagged and reported |
| Callbacks | `cli/main.c:24-311` | locals of a dispatcher thread | `f_*` with `RETRY_PATH_OP`, `RETRY_HANDLE_OP`; `gd_keepalive_thread` | one retry, on the healed connection; nothing works on a freed `GDHANDLE` |
| File handles | `cli/gd.c:863-1160` | `GDHANDLE`: remote handle, flags, path, `written_end`, `stale` | `gd_open/read/write/ftruncate/fsync/flush/close`, `opendir/readdir/closedir` | acknowledged data stays; a reopen changes nothing on the server |
| Path operations | `cli/gd.c:561-860`, `cli/parse.c:105-147` | none of their own | `gd_stat/mkdir/unlink/rmdir/rename/truncate/...`, `retry_result` | success means done, an error means not done, no data lost by rename |
| Sessions | `cli/gd.c:31-294`, `cli/net.c`, `cli/pool.c` | session, socket, sftp, channel and block of a connection; `known_hosts` | `gd_init_ssh`, `gd_tcp_connect`, `gd_conn_free`, `gd_pool_init/free` | whatever stage fails nothing is forgotten, nothing freed twice or too early, a recorded host key type stays enforced |
| Commands, hard links | `cli/gd.c:1328-1600` | a shell channel per connection | `run_command_channel_exec`, `gd_check_hlink`, `gd_create_file` | output and return code belong to the command that was sent; writing leaves a file's other names alone |
| Inode cache | `cli/cache.c`, `cli/gd.c:600-613` | a hash table under its own lock | find, add, expiry | no duplicate, no leak |
| Pure helpers | `cli/parse.c` | none | clamps, backoff, round-robin index, link list, parsers | in range for all inputs |
| Start and stop | `cli/main.c:313-812`, `cli/net.c` | process globals | option parsing, `gd_pool_init`, keepalive start and join, `gd_pool_free` | nothing is freed while a thread uses it |

Threads: WinFsp runs callbacks on several dispatcher threads at once; one keepalive thread sweeps the
pool.  All of them share the pool and meet at the connection locks.  A path operation takes the next
connection of the round robin; an operation on an open handle always takes the connection the handle was
opened on.  When a call fails with a connection error, the callback locks the connection it used and
`gd_heal` rebuilds its session unless another thread did so meanwhile (the generation tells).  The
rebuild walks the registry and reopens every open handle of that connection.

### The application

| Component | Source | State | What makes it correct |
|---|---|---|---|
| Drive status and mount workflow | `app/Service/MountService.cs`, `app/ViewModel/MainWindowViewModel.cs` | list of drives with a status each, `IsWorking` | the status shown agrees with what is mounted, the workflow ends |
| Settings file | `app/Common/Settings.cs`, `app/Common/Drive.cs`; read by `cli/parse.c` | `config.json` | the CLI reads its own drive's entry, and both programs mean the same target by a mount point |
| SSH key setup | `app/Service/SshService.cs` | keys on disk | (drives external tools) |
| Views, controls, converters | `app/Controls`, `app/Common` | presentation | - |

The application starts `golddrive.exe` per drive and polls the drive, the process list and the degraded
marker that `gd_reconnect` leaves.  The two programs
share `config.json` (written by the application, read by each process as it starts), the network path
`\\golddrive\user@host!port\path` that goes through `net use`, and the marker.  `runapp`,
`installer`, `tools`, `vendor`, `uthash.h` and `jsmn` are launchers, packaging or third-party code.

### Where it is hard

PROJECT.json lists the hazards with their lines.  They fall into these groups: threads that fail on the same
session and recover it concurrently; state read before a lock and used after it (`stale`, `c->ssh` in
the keepalive, the inode cache between its two locks); replies lost after the server ran the request,
followed by a retry; partial failure (a build that stops after some of its resources, a reconnect that
gets no session or loses some handles, a move-aside without its second half); changes to the file by
others while the session was down; a shell whose output outlives the command; counters and ceilings at
their limits; and two programs that read what the other one wrote.

## 2. Modules

| Module | Models | Checked by | Proved in |
|---|---|---|---|
| `GdConn` | pool locks, heal, reconnect, callbacks, keepalive | TLC | `GdConnProofs` |
| `GdFile` | one file open for writing, its retries and reopens | TLC | `GdFileProofs` |
| `GdPath` | operations on names, and what the caller is told | TLC | `GdPathProofs` |
| `GdSession` | the resources of a session, pool start and stop, back-off, host key | TLC | `GdSessionProofs` |
| `GdShell` | the shared shell channel and the hard link check | TLC | `GdShellProofs` |
| `GdShared` | round-robin counter, inode cache | TLC | `GdSharedProofs` |
| `GdLink` | the intrusive list of open handles | TLC | `GdLinkProofs` |
| `HandleRegistry` | the set that list promises to be | refined by `GdLink` | `GdLinkProofs` |
| `GdDrives` | application and CLI around `config.json`, `net use` and the marker | TLC | `GdDrivesProofs` |
| `MCGdConn`, `MCGdPath`, `MCGdSession`, `MCGdShared`, `MCGdDrives` | instances: operation sets, symmetry, forms and files | | |

The definitions headed "seeded fault" are plausible mistakes; each property is checked to fail when one of
them replaces the real definition.  Definitions with "bound" in a comment of a guard are limits of the
model, not of the program.

### GdConn: connections, heal, handle registry

Composes `pool.c`, `gd_heal`/`gd_reconnect` and the retry macros with any number of dispatcher threads
and the keepalive thread.

* A session is the serial it was built under (`ssh`), NULL if there is none.  A remote handle
  (`ptr`) is the serial of the session that opened it, so "points into a freed session" is a comparison.
* Each thread has a `pc`: `idle`, `acquire` (blocked in `gd_lock`), `run` (in the locked section of a
  `gd_xxx`), `healwait`, `heal`, `build`, `reopen` (in `gd_heal`), `decide` (back in the macro, without the
  lock).  `g_ssh`, `g_gen`, `g_pin` are the thread-locals of the same name.
* A locked section that calls libssh2 is one step: nobody else can use the connection during it.
  `gd_reconnect` is not: `Teardown`, `Adopt`/`BuildFail`, one `Reopen` per registered handle,
  `ReopenDone`; other threads read `sh->stale` and `c->ssh` in between, as the code lets them.
* `Served`, `RunStale`, `RunProbe`, `RunNoSession` and `RunFailed` are the outcomes of one locked
  section.  `RunNoSession` is what the code does on a connection whose rebuild failed (finding 1).
* `Unallocated` and `MayCall` say what WinFsp and `malloc` guarantee (external).

### GdFile: contents of a file open for writing

One `GDHANDLE` on one path, with the session dying and other users truncating, overwriting, replacing or
removing the file.  The server keeps inodes with a size and cells; a cell is what one SFTP write request
carries.  `gd_write` is a request per step with its `total`; `f_write`'s retry starts again from the
beginning.  `Reopen`, `ReopenFailed`, `Check` are `gd_handle_reopen` (open with the masked flags, then
fstat against `written_end`, which accepts the handle when fstat fails or tells no size).  `sized` is whether the
handle's last check got a size; it, `acked`, `disturbed`, `ownCut`, `foreignCut` record what happened, for the
properties; no guard reads them.

Left out: `O_APPEND`, reads, attributes; an EIO on a healthy session (GdConn has it); requests of the old session that the server executes after the new one was
opened.

### GdPath: path operations and what the caller is told

mkdir, unlink, rmdir, create and rename, one callback at a time; the rest of the process is present as
connections that die and heal, other users as changes of the name space.  `pc` is the SFTP request that is
sent next; `Served`, `Lost` and `Unsent` are its three fates (a lost one was executed or not).
`Proceed` is the control flow of the `gd_xxx`, `Fallback` that of `gd_rename`, `Return` and `Heal`
are `RETRY_PATH_OP`, `retry_result` is translated from `parse.c`.  `Execute` is OpenSSH's sftp-server
(external): a rename never overwrites, and a name that exists gives FX_FAILURE, which `map_error` turns
into EPERM.  The NULL-session crash of GdConn is an EIO here.  `Achieved` is what a success claims of the name
space (a directory that was made, and not a file of that name; nothing left of what was removed); `Translated` and `Landed` tell
a success that `retry_result` made of an error, and whether the first attempt had done it.

### GdSession: what a connection is made of

`gd_init_ssh` is a `pc` per connection that goes through the stages of `After`: session block, TCP
(one address after the other), handshake, host key, pin, authentication, SFTP, channel, shell, `GDSSH`
block.  A stage that acquires something puts the serial of the build in `tmp` and the resource into
`live`; `BuildFails` is a `goto fail` from any stage but the one that cannot fail.  `Release` gives one
resource back per step, in the order of the code, for the three places that do (`fail:`, `gd_reconnect`,
`gd_conn_free`).  The callers are `PoolAdd`/`PoolStop` (`gd_pool_init`), `Reconnect`, `Rebuild`,
`AttemptFailed`, `Adopt` (`gd_reconnect`), `Finalize` and `Freed` (`gd_pool_free`).  Several connections
rebuild at once, as they do under different locks; `Rekey` lets the server present another key, of the same type or
not.  `known` is what `known_hosts` has for the host, `nh` a thread's own table between its read and its write.  The file is read
whole or, if the read fails or meets another thread's write, in part; `libssh2_knownhost_checkp` refuses a key only if
another one of its type was read, and takes a type without an entry for a new host, whose key is added and the file written from the
thread's table, over what others added meanwhile.  `skipped` is set by a read in part, a missing `USERPROFILE` or a missing table.
Left out: key types libssh2 has no name for, the entries of other hosts, a write that stops halfway.
`live` against `own` and `tmp` is the ledger: GdConn says who may use a session, GdSession what becomes of its parts.

### GdShell: commands on one channel

The shell answers the commands it was sent one after the other (`todo`), its output is on the wire
(`wire`), in libssh2's packet queue (`inbox`) and finally in `out`.  Output is a sequence of tokens, cut where
a read may end; `Send`, `Read`, `Stop`, `extract_rcode` and `atoi` are `run_command_channel_exec` and its
caller.  `Decide`, `Rename`, `Create`, `SftpOpen` and their failures are `gd_check_hlink`,
`gd_create_file` and `gd_open`.  One path, which starts with a second name; SFTP requests are atomic (GdPath
has their retries).  A file is named by who made it and at which of its opens (`Made`; `Shared` is the one
both names show at the start), so no two creations are confused.  `quiet`, `whole`, `truth`, `unsure`, `broken`, `clash` are history; no guard reads them.

### GdShared, GdLink, HandleRegistry: data structures threads share

`GdShared` has the counter of `gd_pool_pick` as a C long from `LongMin` to `LongMax` with C's remainder, and the inode
cache as `gd_stat` uses it: one locked section to find, another to add.  `GdLink` has `next`, `prev` and
`head` as pointers, blocks that are freed and keep what the allocator leaves in them, and
`gd_link_remove` on blocks that are not linked.  `HandleRegistry` is a set; `RegistryRefined` says that the list,
read through `Registered`, implements it.  GdConn uses the set.  `MCGdShared` runs GdShared and GdLink
side by side.

### GdDrives: the application and the CLI around their files

The application's background tasks are `task`, a record each: what it is at (`op`, `step`), the settings it is about to
save, the drive object it works on and what `TestSsh` reached.  Only the commands that the code or the view disables while
`IsWorking` wait for `~ working`; `OnSettingsSave`, `OnSettingsDelete`, the check after a choice and the closing window overlap
whatever else runs, and the user may edit the bound fields at any time.  So a save can be lost under another's, or dropped because the
file is open (`NotSaved`), the service's one list of drives is `Found` in part while another task fills it, and a task keeps the
object that `UpdateObservableDrives` replaces (`Keeping`).  `Kill` is the process being ended, also by an exception that nobody
catches.  `file` is `config.json`; saving it is `Truncate` and then `Write`, so that a CLI which starts in between reads half a file.
`Tokens` prints it as
`jsmn` would cut it, and `Root`, `DrivesWalk`, `Members` are the index arithmetic of `parse_json_buffer`, each
loop a function of the number of its rounds; `copy_token` takes the text with its JSON escapes and cuts it at the buffer.  `MountPoint`,
`SetMountPoint`, `parse_remote`, `Target` (what `main` makes of it: the user in lower case, a port as `atoi` reads it, 22 and the
Windows user by default), `Current` and `Trim` are the places that print, read or change a target.  `os` is
Windows' table of network drives, `Serve`/`StartFails`/`Exit`/`Die` the life of the processes, and
`gd_set_degraded` the marker, also from a process that is about to end.  `tested`, `lost`, `ending` and `late` are
history or stand for the old process.  Windows, WinFsp's launcher and `net use` are external.
Left out: a cancelled edit (`OnSettingsCancel` copies the object as it was, its letter too), blanks around values, the page the
window shows.

## 3. Runs

| Run | Shows | Instance |
|---|---|---|
| `conn_safety` | types, exact registry, no dangling pointer, no callback on a freed handle, flags agree with pointers, no fresh session torn down, the inductive invariant of the proofs | 2 dispatcher threads, keepalive, 1 connection, 2 handles, 2 faults; 650 000 states |
| `conn_pool` | the retry runs on the healed connection and never on the failed session, the pin never outlives it, losses stay reported | 2 connections, 1 handle, the stat probe of `gd_open`, 2 faults; 1.7 million states |
| `conn_live` | every lock is given back | 2 threads, 1 connection, 1 fault, fairness; 5 000 states |
| `conn_ops_return` | finding 1 | violation |
| `file_content` | acknowledged data stays; a reopen is inert; a file known to have shrunk is refused and nothing else is | 2 cells, 2 inodes, 3 creation modes, 2 session losses, 1 foreign change; 3.2 million states |
| `path_names` | success means done but for a translated error, deletes never report their own lost reply, rename loses no data | 2 names, 2 connections, 3 losses, 1 foreign change, 2 new objects; 1.7 million states |
| `shared_structures` | picks stay even across an overflow of the counter; the inode cache holds a key once and loses a block only to a race or an expiry; the walk over the handle list is exact; the list implements a set | pools of 1, 3, 5, a 3-bit counter, 18 picks, 2 threads on 1 path, 2 expiries, 3 blocks; 605 000 states |
| `session_life` | no resource forgotten, freed twice, or freed under another; a connection is whole or has no session; recorded key types stay enforced | 2 connections, 2 attempts, 1 reconnect each, 2 keys of one type and 1 of another, 2 changes of key; 2.8 million states |
| `session_live` | a reconnect and a shutdown end; the sleeps of a reconnect stay under their ceilings | 2 connections, 2 addresses, 3 attempts, 1 key, fairness; 124 000 states |
| `shell_links` | the answer belongs to the command; writing leaves other names alone; data keeps a name; the path comes back | 2 opening threads, start-up commands, 2 names, 2 backup names, buffer of 3 tokens, 1 token of noise, 1 loss; 4.1 million states |
| `drives_config` | the CLI connects where the app tested; it reads its own settings; markers belong to the process that lost handles | 2 letters, 2 tasks, 3 forms (a user with capitals, a port out of range, a path with backslashes, arguments too long), 3 files, 1 path mounted outside, 4 steps of the user; 926 000 states |
| `drives_degraded` | finding 2 | violation |

Why the bounds are enough.  Two threads are the least that race for a heal, with the keepalive as the third
contender for the lock; two handles let a walk lose one and keep the other; two faults let a rebuilt session
die again during its walk; two connections tell a pinned retry from a round-robin one.  Two cells give
partial writes and writes past the end, two inodes a replaced file.  Three losses let a rename lose the
first reply, and the connections of both following requests.  18 picks take a 3-bit counter through
its overflow twice, with pool sizes that divide the range (1) and that do not (3, 5).  Three blocks have
a first, a middle and a last.  Two connections let one rebuild between another's handshake and its look
into `known_hosts`, and both write it; two keys of one type and one of another give every answer of the check, two changes a key that comes
back; three attempts reach the cap of the back-off (2, 3, 3).  A buffer of 3 tokens is
one short of noise, number, sentinel and digits.  Two tasks overlap a connect with a save or delete, or two saves; four steps of the
user reach an edit and a save under a connect, or a drive mounted and one deleted; the two files have the drives in both orders,
and one label reads `AppKey`.

Symmetry: threads and handle blocks of GdConn, names and connections of GdPath, keys of one type of GdSession and tasks of
GdDrives are compared only with each other and with the value for none; no run with symmetry checks liveness.  `CHECK_DEADLOCK FALSE` where the
system, or the bounds on what the environment and the user do, may run out with nothing left to do: GdFile,
GdPath, GdShell, GdDrives, and GdSession after its exit.  GdConn is checked for deadlock.

Fairness.  `conn_live`: each thread inside a callback, and the keepalive inside its locked section, keeps
running.  `session_live`: the code that works on a connection keeps running.  The code justifies both: every blocking
libssh2 call is bounded by the session timeout and every connect by its own, every
retry loop by a counter (`GD_RECONNECT_MAX`, the tries of sftp and channel, one retry per callback), and
no thread waits for anything but a connection lock.  Weak fairness only: SRW locks are unfair, and nothing is assumed
about which waiter wins.  New calls, faults, reconnects, the end of `fuse_main` and the start of a keepalive
sweep have no fairness.

## 4. Findings

1. *code bug*, `conn_ops_return`: after a failed reconnect `c->ssh` stays NULL; the next path operation
   on that connection (or the keepalive, which tests `c->ssh` before it takes the lock) reads through the
   NULL session.  `RETRY_PATH_OP` promises the original error.
2. *documentation*, `drives_degraded`: PLAN.md R7 promises that the status poll shows a degraded drive as
   degraded; `CheckDriveStatus` ends in CONNECTED for every drive that answers, marker or not, and
   `WorkDone` shows that status.

### Properties TLC refutes that have no run of their own

They stay in the modules because a reader of the code would expect them.  To reproduce one, put it in the place of
the properties of a copy of the configuration named here.

| Property | Configuration | What happens |
|---|---|---|
| `GdConn.LossMarked` (PLAN.md:321) | `conn_safety`, INVARIANT | a reconnect that gets no session at all marks its handles stale and returns (`gd.c:428`) before it would leave the degraded marker |
| `GdFile.SmallerIsForeign` (`parse.h:118`) | `file_content`, PROPERTY | `reopen_is_safe` takes a smaller file for somebody else's doing, but `gd_ftruncate` does not lower `written_end` |
| `GdFile.ResumedWhole` (`gd.c:341`) | `file_content`, PROPERTY | the handle is taken on a shorter file when fstat fails or its answer has no size |
| `GdPath.RenameUnderName` (PLAN.md:391) | `path_names`, INVARIANT | a rename whose first reply is lost can leave the data under the random name of the fallback (`RenameSafe`: it is never lost) |
| `GdPath.CreateHonest` (PLAN.md:262) | `path_names`, INVARIANT | O_EXCL of a retried create fails on the file of the first attempt |
| `GdPath.RetryMaskTrue` (`parse.h:103`) | `path_names`, INVARIANT | a first attempt can be lost on its way to the server; then the retry's EEXIST is about whatever had the name before, a file too, and its ENOENT about a name that never was, and both are reported as success |
| `GdShell.LinksRemoved` (`main.c:457`) | `shell_links`, INVARIANT | a check that fails, or whose answer is cut off or late, lets the write through to the other name |
| `GdSession.FirstOnly` (`gd.c:137`) | `session_life`, PROPERTY | a key of a type without an entry is added to `known_hosts` on any connection |
| `GdSession.OneKey` (`gd.c:137`) | `session_life`, INVARIANT | so two connections of the pool can run with different keys |
| `GdSession.PinsKept` (`gd.c:137`) | `session_life`, PROPERTY | a thread writes `known_hosts` from what it read before another added a key |
| `GdDrives.SameAsTyped` (`main.c:633`) | `drives_config`, INVARIANT | `TestSsh` logs in as `Bob`, the CLI as `bob`; for a port out of range the test uses 22 and the CLI the number |
| `GdDrives.ReadsMeant` (`parse.c:272`) | `drives_config`, PROPERTY | a key file `c:\key` is `c:\\key` in the JSON text and stays so in the CLI; a long value is cut |

### Met while modelling, stated by no property

* The window closed before the drives are loaded writes an empty `Drives` (`MainWindowViewModel.cs:503`);
  `Close` has the step.  Closing also loses the `AppKey` of drives that are not selected: `UpdateDrives` makes
  new objects without it.
* `Drive.MountPoint`'s setter splits the path off at a backslash only: after a reload `host!2222/path` has neither
  port nor path, and `host/path` stays in `Host`, with which nothing can be reconnected.  `SetMountPoint` says so; `SameTarget`
  holds because such a host does not resolve and is refused before it is mounted.
* Saving and deleting a drive do not look at `IsWorking`: two tasks that load, change and save `config.json` lose one of the changes,
  or one save finds the file open and is dropped with a line in the log.
* `Mount` runs `net use` before it saves, so the process reads the `Args` and `AppKey` from before the edit; `ReadsOwn`
  compares with the file, not with the form.
* Deleting a drive unmounts it only if its status is CONNECTED; a degraded or broken one disappears from the
  settings and stays mounted (`MainWindowViewModel.cs:482`).
* The name of `gd_check_hlink`'s backup is made of the clock; two threads in the same tick get one name, and the first
  backup is replaced (`clash` in `DataNamed`).
* A keepalive thread that is blocked for longer than its second at shutdown uses connections that
  `gd_pool_free` frees (`main.c:796`).

## 5. Proofs

Every safety property that a run checks is a theorem for all values of the constants (any number of threads,
connections, handles, names, cells, blocks, letters, faults and changes by others, any width of a counter, any
cap of a back-off), but for one (`ReadsOwn`, below).  Each proof module has the name of the module it is about, with `Proofs`
behind it.  The only assumptions are the named ones on the constants (`ConnAssumption`, `FileAssumption` and so
on), which TLC evaluates too: sets are finite where something is counted, values that mark
"none" are outside their set, bounds are numbers.  The inductive invariants of the proofs were checked with TLC on the
configurations of section 3 before they were proved.

**GdConn.**  The inductive invariant `IInv` is proved in layers, each from the ones above it:

| Layer | Says | Needed because |
|---|---|---|
| `TypeOK` | types | - |
| `LockHeld` | `lock` names the thread inside its section, and that thread's `g_ssh` is the connection | steps inside a section must not disturb another thread's |
| `CallsServed` | a callback's handle is open and on the connection it uses; open and close own their block | `gd_close` frees a block; nobody else may hold it |
| `Registry` | the registry is exact, no handle dangles, the walk is on the registry | `Teardown` can only NULL what it finds |
| `SerialsMatch` | a session's serial is its generation plus one | ties the generation `gd_heal` compares to the session it stands for |
| `FailureKnown` | a failed thread remembers its session; when it calls again that session was replaced | makes the generation check sufficient |
| `FlagsKept` | flag and pointer agree except for what a walk has still to do; a stale handle on a live connection is marked or counted | gives `StaleExact` and `LostReported` outside the walk |

From these follow `HandlesAlive`, `RegistryIsExact`, `NothingDangles`, `RetriesHealed`, `PinsHeld`,
`StaleFlagsExact`, `LossesReported` and, as an action property, `FreshSessionsKept`: at a teardown the
generation is the one the thread failed under, so by `SerialsMatch` the session is the one that failed.

**GdFile.**  `TypeInv` (types; the request under way fits), `WalkPlaced` (a walk is at an open handle without
a file, before any byte of a waiting write), `Born` (handle and acknowledgements know existing inodes only).
`AckedInv` strengthens `AckedKept` by the cells of the current request that were confirmed: they become
acknowledged when the request ends.  `MarkInv` says that until somebody cuts the file, the file at the path
is the handle's and at least `written_end` long; `RefusedOnlyIfCut` follows, since only a shorter file is
refused.  `NoShrunkResume` is inductive with the types (`ShrunkNext`).  `ReopenInert` rests on the lemma `ReopenMasked`: without CREAT and TRUNC an open succeeds only
on a file that is there, and changes nothing.

**GdLink.**  `LinkInv` is `LinkTypeOK` and `ListShape`: `next` and `prev` of linked blocks are each other's
inverse, stay among live blocks, and only the head has no predecessor; a live block that is not linked
points nowhere.  It is inductive for `gd_link_add`, `gd_link_remove` and the allocator's writes.  `LinkImplements` then shows
the refinement: under `LinkInv` an add makes exactly its block linked, a remove unlinks exactly its block or, if it
was not linked, changes nothing, and what `free` leaves behind is outside `Registered`.  `ListShape` would allow a
ring that the head does not reach; `ListChain` does not: some sequence lists the registered blocks, each once, in
the order of `next` from the head.  An add puts its block in front of it (`ChainAdd`), a remove closes the gap
(`ChainRemove`).  The walk follows the sequence (`WalkFollows`: a least step at which it did not would have a step
before it), and the sequence is as long as the set, which gives `WalkIsExact`.

**GdPath.**  `CallInv` says which control point belongs to which callback, `DeleteInv` that a deletion that took effect has
removed the name before it is retried, `MkdirInv` that a directory whose making took effect is there when mkdir is retried, `RenameInv` where source, target and the name aside are at each request
of the fallback: five arrangements, two of which only a lost reply leads to.  With the three properties themselves they
are inductive.  `meddled` excludes the callbacks during which somebody else changed one of the names; the theorems are about the
others.

**GdSession.**  `PhaseInv` says who works when: one connection after the other while the pool is filled and while it is
emptied, any of them between.  `ShapeInv` says for each stage of `gd_init_ssh` what the build holds (all of this build) and
what the connection holds besides (its block, of an earlier build, or everything).  `Ledger` is inductive relative to these:
`FreesInOrder` and `AllFreed` show that the order of `Release` meets everything a connection can hold.
`PinnedKey` needs `PinInv`: the first connection builds alone, and what `known_hosts` has when it is done (`pinned`) stays in the
file and in every table a thread reads whole, so a key of a pinned type passes the check only if it is pinned itself.  What threads add
beyond that may go again (`PinsKept` is false).
`SleepsBounded` compares the sleeps with two recursive functions, the
doubled delay and the sum of the capped ones; `Recursion` (such a function exists) and `BackoffBounded` are proved by
induction over sets of numbers, from the least number principle of the library.

**GdShell.**  `ControlInv`: the lock is held by who waits for an answer.  `AnswerInv` is the heart: while a thread that
wrote on a quiet channel reads, its command has not run and everything is empty, or its answer is cut into three consecutive
pieces (what was read, what was queued, what is on the wire), or the buffer ended the reading without a
sentinel.  So a reading that ended at a sentinel has the whole number in front of it (`CountRead`), and
the number is the link count at the moment the shell ran (`truth`).  `Settled` adds what that count says of the names: one
link means the other name shows another file, and no step takes that back.  `SureInv` carries it from the decision to
the writing.  `DataNamed` rests on `OpenNamed` (an open file has a name unless two backups clashed).

**GdShared.**  `LapsEven`: between two overflows the counter picks consecutive slots (`SlotsTurn`, which needs the
remainders of neighbours, also below zero), so since the lap began the slots in `Extra` were picked once more than the
rest; an overflow begins a lap anywhere and costs one.  `LeaksCounted` pays for leaks in advance:
`Debts` are the pairs of a thread and a path where that thread may still lose a block; a new entry adds one for every
other thread, an expiry one for every thread, a leak uses one up.

**GdDrives.**  `TestedNow`: from `TestSsh` to `net use` a task's tested target is alike (up to the user's capitals) what the object
it works on says.  An edit of that object forgets the test; `Trim` of an overlapping save changes only what both sides fill in or fold
(`TrimAlike`); new lists leave the task its object (`Replaced`).  `RoundTrip`: what `MountPoint` leaves out `main` fills in, folds and
reads as `CurrentUser` and `CurrentPort` do, for a port in range or none.  `MarkerOwn` is inductive by itself.

Only model-checked: `LockReleased`, `ReconnectEnds` and `ShutdownEnds` (liveness under fairness is out of the prover's
reach, as is ENABLED); `ReadsOwn`, which is an induction over the tokens of `config.json`; the violations.

## 6. Not modelled, and what could come next

Not modelled: option parsing of `main` (WinFsp-FUSE's argument handling), `timeout_ms`, path
joins and escaping in `parse.c`, the one-second join of the keepalive thread, `gd_usage` and logging (no state);
of the application the labels and icons in the registry, `CleanMounts`, key generation and upload
(external tools), and the views; launchers,
installer and third-party code.  GdFile leaves out append, reads and attributes, GdPath the operations that change
no name.

Next: `ReadsOwn` for configurations of any length; open files across a rename (`sh->path` is not updated by
`gd_rename`), GdFile and GdPath composed; the abstract connection ("a session or none, each handle usable or
lost") implemented by GdConn.
