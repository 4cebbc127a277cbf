------------------------------ MODULE GdShell ------------------------------
(***************************************************************************)
(* The remote shell of a connection and what gd_open asks it: how many     *)
(* names does this file have?  run_command_channel_exec (gd.c) writes a    *)
(* command to a shell that all commands of the connection share, and reads *)
(* until it sees the sentinel RCODE=; gd_check_hlink acts on the answer.   *)
(* One connection and one path that is opened for writing; the SFTP calls  *)
(* of an open run on any connection of the pool and are atomic here (their *)
(* retries are GdPath's subject).                                          *)
(***************************************************************************)
EXTENDS Integers, Sequences, FiniteSetsExt, SequencesExt

CONSTANTS
  Threads,   \* dispatcher threads that open the path
  Main,      \* the thread of main, before fuse_main
  Nobody,    \* the connection lock is free
  Path,      \* the path they open, a name of the file Shared
  Other,     \* another name, outside the mount's view or not
  Backups,   \* names gd_check_hlink may make up (.._<time>.hlink)
  Linked,    \* Other is a name of that file too
  OutMax,    \* tokens the output buffer holds (COMMAND_SIZE)
  MaxNoise,  \* tokens a login script prints before the first answer
  MaxOpens,  \* bounds the opens of a thread
  MaxDrops   \* bounds the connection losses

ASSUME ShellAssumption ==
  /\ Main \notin Threads /\ Nobody \notin Threads \cup {Main}
  /\ Path # Other /\ {Path, Other} \cap Backups = {} /\ IsFiniteSet(Backups)
  /\ Linked \in BOOLEAN /\ OutMax \in Nat \ {0}
  /\ MaxNoise \in Nat /\ MaxOpens \in Nat /\ MaxDrops \in Nat

Names  == {Path, Other} \cup Backups
Actors == Threads \cup {Main}

\* A file is known by the thread and the open that made it.
NoFile == <<Nobody, 0>>
Shared == <<Main, 0>>
Made   == Threads \X (1 .. MaxOpens)
Files  == {Shared} \cup Made

\* What the shell prints, cut where a read may end: a line that starts with a
\* number, a line that does not, the sentinel, the digits behind it.
Token == [kind : {"num", "text", "key", "code"}, val : Nat]
Tok(kind, val) == [kind |-> kind, val |-> val]

VARIABLES
  pc,      \* actor |-> where it stands
  holder,  \* who holds the connection lock for a command
  up,      \* "up", "lost" (socket dead), "down" (channel = NULL)
  todo,    \* commands the shell has not run yet
  wire,    \* output libssh2 has not received yet
  inbox,   \* output in the session's packet queue
  out,     \* the buffer of the command that is being read
  links,   \* thread |-> hlinks
  file,    \* name |-> the file it names
  data,    \* file |-> threads whose write it holds
  handle,  \* thread |-> the file it has open
  opens,   \* thread |-> opens so far
  asked,   \* main's commands so far
  drops,
  \* History for the properties
  quiet,   \* actor |-> nothing was outstanding when it wrote its command
  whole,   \* actor |-> its reading ended at the sentinel
  truth,   \* actor |-> names the file had when the shell looked
  unsure,  \* threads that once decided on a disturbed or failed check
  broken,  \* a rename or create of gd_check_hlink failed
  clash    \* two backups got the same name

shellVars == <<todo, wire, inbox, out>>
fileVars  == <<file, data>>
linkVars  == <<up, drops>>
ghostVars == <<quiet, whole, truth, unsure, broken, clash>>
vars == <<pc, holder, linkVars, shellVars, links, fileVars, handle, opens, asked, ghostVars>>

LinkCount(f) == Cardinality({n \in Names : file[n] = f})

\* What a login script prints arrives like any other output.
Noise == {[i \in 1 .. n |-> Tok("text", 0)] : n \in 0 .. MaxNoise}

Init ==
  /\ pc = [a \in Actors |-> IF a = Main THEN "ask" ELSE "wait"]
  /\ holder = Nobody /\ up = "up" /\ drops = 0
  /\ todo = <<>> /\ wire \in Noise /\ inbox = <<>> /\ out = <<>>
  /\ links = [t \in Threads |-> 0]
  /\ file = [n \in Names |-> IF n = Path \/ (n = Other /\ Linked) THEN Shared ELSE NoFile]
  /\ data = [f \in Files |-> {}]
  /\ handle = [t \in Threads |-> NoFile] /\ opens = [t \in Threads |-> 0]
  /\ asked = 0
  /\ quiet = [a \in Actors |-> FALSE] /\ whole = [a \in Actors |-> FALSE]
  /\ truth = [a \in Actors |-> 0]
  /\ unsure = {} /\ broken = FALSE /\ clash = FALSE

Goto(a, where) == pc' = [pc EXCEPT ![a] = where]

-----------------------------------------------------------------------------
(***************************************************************************)
(* run_command_channel_exec, under the connection lock                     *)
(***************************************************************************)

\* Seeded fault: what the last command left is not thrown away.
FlushNothing == inbox

\* libssh2_channel_flush_ex empties the packet queue, not the socket.
Flush == <<>>

\* id -u, then echo $HOME, then the stat of gd_check_hlink.
Command(a) ==
  [from |-> a, cmd |-> IF a # Main THEN "stat" ELSE IF asked = 0 THEN "id" ELSE "home"]

\* gd_lock; flush; the command goes out.
Send(a) ==
  /\ pc[a] = "ask" /\ holder = Nobody /\ up = "up"
  /\ holder' = a
  /\ inbox' = Flush
  /\ todo' = Append(todo, Command(a))
  /\ out' = <<>>
  /\ quiet' = [quiet EXCEPT ![a] = (todo = <<>> /\ wire = <<>>)]
  /\ whole' = [whole EXCEPT ![a] = FALSE]
  /\ Goto(a, "read")
  /\ UNCHANGED <<linkVars, wire, links, fileVars, handle, opens, asked,
                 truth, unsure, broken, clash>>

\* No channel to write to, or the write fails: the output stays empty.
Unsent(a) ==
  /\ pc[a] = "ask" /\ holder = Nobody /\ up # "up"
  /\ holder' = a
  /\ out' = <<>>
  /\ whole' = [whole EXCEPT ![a] = FALSE]
  /\ Goto(a, "got")
  /\ UNCHANGED <<linkVars, todo, wire, inbox, links, fileVars, handle, opens, asked,
                 quiet, truth, unsure, broken, clash>>

Uid == 1000
Sentinel(code) == <<Tok("key", 0), Tok("code", code)>>

\* The server's shell runs the oldest command: id, echo $HOME or stat.
ShellRuns ==
  /\ up = "up" /\ todo # <<>>
  /\ LET n == IF file[Path] = NoFile THEN 0 ELSE LinkCount(file[Path]) IN
     /\ wire' = wire \o CASE Head(todo).cmd = "id"   -> <<Tok("num", Uid)>> \o Sentinel(0)
                          [] Head(todo).cmd = "home" -> <<Tok("text", 0)>> \o Sentinel(0)
                          [] n = 0 -> Sentinel(1)
                          [] OTHER -> <<Tok("num", n)>> \o Sentinel(0)
     /\ truth' = [truth EXCEPT ![Head(todo).from] = n]
  /\ todo' = Tail(todo)
  /\ UNCHANGED <<pc, holder, linkVars, inbox, out, links, fileVars, handle, opens, asked,
                 quiet, whole, unsure, broken, clash>>

\* Whoever reads the socket, an SFTP call too, queues the channel's packets.
Arrive ==
  /\ up = "up" /\ wire # <<>>
  /\ inbox' = Append(inbox, Head(wire)) /\ wire' = Tail(wire)
  /\ UNCHANGED <<pc, holder, linkVars, todo, out, links, fileVars, handle, opens, asked, ghostVars>>

HasKey(s) == \E i \in DOMAIN s : s[i].kind = "key"

\* Seeded fault: the buffer's end is not looked at.
FitsAll(n) == n

\* As many of n tokens as the buffer still holds.
Fits(n) == Min({n, OutMax - Len(out)})

\* A read returns some of what has arrived.  Bytes that do not fit the buffer
\* are cut off; it ends at the sentinel, or when nothing more fits.
Read(a) ==
  /\ pc[a] = "read" /\ inbox # <<>>
  /\ \E n \in 1 .. Len(inbox) :
       LET kept == SubSeq(inbox, 1, Fits(n))
           got  == out \o kept
           done == kept = <<>> \/ HasKey(got)
       IN /\ inbox' = SubSeq(inbox, n + 1, Len(inbox))
          /\ out' = got
          /\ whole' = [whole EXCEPT ![a] = HasKey(got)]
          /\ Goto(a, IF done THEN "got" ELSE "read")
  /\ UNCHANGED <<holder, linkVars, todo, wire, links, fileVars, handle, opens, asked,
                 quiet, truth, unsure, broken, clash>>

\* The session timeout passes, or the socket is dead: the loop ends.
Stop(a) ==
  /\ pc[a] = "read" /\ inbox = <<>>
  /\ Goto(a, "got")
  /\ UNCHANGED <<holder, linkVars, shellVars, links, fileVars, handle, opens, asked, ghostVars>>

\* extract_rcode: the digits behind the last sentinel; 0 without one.
extract_rcode(s) ==
  LET k == SelectLastInSeq(s, LAMBDA x : x.kind = "key") IN
  IF k # 0 /\ k < Len(s) /\ s[k + 1].kind = "code" THEN s[k + 1].val ELSE 0

\* atoi of the output in front of the last sentinel.
atoi(s) ==
  LET k == SelectLastInSeq(s, LAMBDA x : x.kind = "key") IN
  IF s = <<>> \/ k = 1 \/ s[1].kind \notin {"num", "code"} THEN 0 ELSE s[1].val

-----------------------------------------------------------------------------
(***************************************************************************)
(* main, before the drive is there                                         *)
(***************************************************************************)

\* The user's number and the home directory: only logged.
MainGot ==
  /\ pc[Main] = "got"
  /\ holder' = Nobody /\ asked' = asked + 1
  /\ pc' = IF asked = 0 THEN [pc EXCEPT ![Main] = "ask"]
           ELSE [a \in Actors |-> IF a = Main THEN "done" ELSE "idle"]
  /\ UNCHANGED <<linkVars, shellVars, links, fileVars, handle, opens, ghostVars>>

-----------------------------------------------------------------------------
(***************************************************************************)
(* gd_open for writing, without -o keeplink                                *)
(***************************************************************************)

\* gd_stat answers that the path exists, or the check is skipped.
Open(t) ==
  /\ pc[t] = "idle" /\ opens[t] < MaxOpens    \* bound
  /\ opens' = [opens EXCEPT ![t] = @ + 1]
  /\ Goto(t, IF file[Path] = NoFile THEN "open" ELSE "ask")
  /\ UNCHANGED <<holder, linkVars, shellVars, links, fileVars, handle, asked, ghostVars>>

\* gd_stat fails, on a connection that was lost: no check either.
StatFails(t) ==
  /\ pc[t] = "idle" /\ opens[t] < MaxOpens    \* bound
  /\ opens' = [opens EXCEPT ![t] = @ + 1]
  /\ unsure' = unsure \cup {t}
  /\ Goto(t, "open")
  /\ UNCHANGED <<holder, linkVars, shellVars, links, fileVars, handle, asked,
                 quiet, whole, truth, broken, clash>>

\* Seeded fault: one name too many.
NeededLate(n) == n > 2

\* Another name would see the write.
Needed(n) == n > 1

\* gd_unlock; more than one name: the file is moved aside.
Decide(t) ==
  /\ pc[t] = "got"
  /\ LET n == IF extract_rcode(out) = 0 THEN atoi(out) ELSE 0 IN
     /\ links' = [links EXCEPT ![t] = n]
     /\ Goto(t, IF Needed(n) THEN "rename" ELSE "open")
  /\ holder' = Nobody
  /\ unsure' = IF quiet[t] /\ whole[t] THEN unsure ELSE unsure \cup {t}
  /\ UNCHANGED <<linkVars, shellVars, fileVars, handle, opens, asked,
                 quiet, whole, truth, broken, clash>>

\* Seeded fault: the name is given up instead of moved.
Unlinked(b) == [file EXCEPT ![Path] = NoFile]

\* The name moves; a backup of that very name is replaced.
Moved(b) == [file EXCEPT ![b] = file[Path], ![Path] = NoFile]

\* gd_rename(path, backup); the backup's name is made of the time, which may
\* not have advanced since another thread read it.
Rename(t) ==
  /\ pc[t] = "rename"
  /\ IF file[Path] = NoFile
     THEN Goto(t, "open") /\ UNCHANGED <<file, clash>>
     ELSE \E b \in Backups :
            /\ file' = Moved(b)
            /\ clash' = (clash \/ file[b] # NoFile)
            /\ Goto(t, "create")
  /\ UNCHANGED <<holder, linkVars, shellVars, links, data, handle, opens, asked,
                 quiet, whole, truth, unsure, broken>>

\* It fails, or its answer is lost after the server moved the name: gd_open
\* goes on as if there had been no check.
RenameFails(t) ==
  /\ pc[t] = "rename"
  /\ \/ UNCHANGED file
     \/ \E b \in Backups : file[Path] # NoFile /\ file[b] = NoFile /\ file' = Moved(b)
  /\ broken' = TRUE /\ unsure' = unsure \cup {t}
  /\ Goto(t, "open")
  /\ UNCHANGED <<holder, linkVars, shellVars, links, data, handle, opens, asked,
                 quiet, whole, truth, clash>>

\* Seeded fault: the open does not create.
CreateWithoutCreat(t) ==
  /\ pc[t] = "create"
  /\ Goto(t, "open")
  /\ UNCHANGED <<holder, linkVars, shellVars, links, fileVars, handle, opens, asked, ghostVars>>

\* An empty file under the old name, unless somebody created one (O_EXCL).
Create(t) ==
  /\ pc[t] = "create"
  /\ IF file[Path] = NoFile
     THEN file' = [file EXCEPT ![Path] = <<t, opens[t]>>]
     ELSE UNCHANGED file
  /\ Goto(t, "open")
  /\ UNCHANGED <<holder, linkVars, shellVars, links, data, handle, opens, asked, ghostVars>>

CreateFails(t) ==
  /\ pc[t] = "create"
  /\ broken' = TRUE
  /\ Goto(t, "open")
  /\ UNCHANGED <<holder, linkVars, shellVars, links, fileVars, handle, opens, asked,
                 quiet, whole, truth, unsure, clash>>

\* The open proper, without O_CREAT; ENOENT if the name is gone.
SftpOpen(t) ==
  /\ pc[t] = "open"
  /\ handle' = [handle EXCEPT ![t] = file[Path]]
  /\ Goto(t, IF file[Path] = NoFile THEN "idle" ELSE "write")
  /\ UNCHANGED <<holder, linkVars, shellVars, links, fileVars, opens, asked, ghostVars>>

\* The application writes and closes the file.
Write(t) ==
  /\ pc[t] = "write"
  /\ data' = [data EXCEPT ![handle[t]] = @ \cup {t}]
  /\ handle' = [handle EXCEPT ![t] = NoFile]
  /\ Goto(t, "idle")
  /\ UNCHANGED <<holder, linkVars, shellVars, links, file, opens, asked, ghostVars>>

-----------------------------------------------------------------------------
(***************************************************************************)
(* The connection                                                          *)
(***************************************************************************)

\* The network drops the connection, and with it what is on the way.
Drop ==
  /\ up = "up" /\ drops < MaxDrops    \* bound
  /\ up' = "lost" /\ drops' = drops + 1
  /\ todo' = <<>> /\ wire' = <<>>
  /\ UNCHANGED <<pc, holder, inbox, out, links, fileVars, handle, opens, asked, ghostVars>>

\* gd_reconnect, with the lock held: a new session and a new shell, or none.
Reconnect ==
  /\ up # "up" /\ holder = Nobody
  /\ \/ up' = "up" /\ wire' \in Noise
     \/ up' = "down" /\ wire' = <<>>
  /\ inbox' = <<>> /\ todo' = <<>>
  /\ UNCHANGED <<pc, holder, drops, out, links, fileVars, handle, opens, asked, ghostVars>>

Check(t) == Open(t) \/ StatFails(t) \/ Decide(t) \/ Rename(t) \/ RenameFails(t)
Take(t)  == Create(t) \/ CreateFails(t) \/ SftpOpen(t) \/ Write(t)

Next ==
  \/ \E a \in Actors : Send(a) \/ Unsent(a) \/ Read(a) \/ Stop(a)
  \/ MainGot
  \/ \E t \in Threads : Check(t) \/ Take(t)
  \/ ShellRuns \/ Arrive
  \/ Drop \/ Reconnect

Spec == Init /\ [][Next]_vars

-----------------------------------------------------------------------------
(***************************************************************************)
(* Properties                                                              *)
(***************************************************************************)

\* Every variable has its type.
TypeOK ==
  /\ pc \in [Actors -> {"wait", "ask", "read", "got", "idle", "rename", "create",
                        "open", "write", "done"}]
  /\ holder \in Actors \cup {Nobody} /\ up \in {"up", "lost", "down"}
  /\ todo \in Seq([from : Actors, cmd : {"id", "home", "stat"}])
  /\ wire \in Seq(Token) /\ inbox \in Seq(Token)
  /\ out \in Seq(Token) /\ Len(out) <= OutMax
  /\ links \in [Threads -> Nat]
  /\ file \in [Names -> Files \cup {NoFile}]
  /\ data \in [Files -> SUBSET Threads]
  /\ handle \in [Threads -> Files \cup {NoFile}]
  /\ opens \in [Threads -> 0 .. MaxOpens] /\ asked \in 0 .. 2 /\ drops \in 0 .. MaxDrops
  /\ quiet \in [Actors -> BOOLEAN] /\ whole \in [Actors -> BOOLEAN]
  /\ truth \in [Actors -> Nat] /\ unsure \subseteq Threads
  /\ broken \in BOOLEAN /\ clash \in BOOLEAN

\* One shell serves all commands of a connection, one after the other.  A
\* command that was written when no output was outstanding, and whose reading
\* ended at a sentinel, got its own answer, whatever was left in the queue.
OwnAnswer ==
  \A t \in Threads :
    pc[t] \notin {"read", "got"} /\ quiet[t] /\ whole[t] => links[t] = truth[t]

\* Writing to a file leaves its other names' content alone (main.c:457,
\* help.md:154) for every thread whose checks were all quiet and whole and
\* whose renames did not fail, in any interleaving of the opens.
OthersKept ==
  file[Other] # NoFile => data[file[Other]] \subseteq unsure

\* What was written has a name as long as no two backups got the same one.
DataNamed ==
  ~clash => \A f \in Files : data[f] # {} => \E n \in Names : file[n] = f

\* The path is gone only between the rename and the create, or after one of
\* them failed.
PathBack ==
  file[Path] # NoFile \/ broken \/ \E t \in Threads : pc[t] = "create"

\* Documented (main.c:457): only with keeplink are hard links not removed
\* before data is overwritten, so without it no write reaches another name.
LinksRemoved == file[Other] # NoFile => data[file[Other]] = {}

=============================================================================
