------------------------------ MODULE GdDrives ------------------------------
(***************************************************************************)
(* The drives of one user across two programs: the WPF app, which keeps    *)
(* config.json and mounts drives with `net use`, and the CLI process of    *)
(* each mounted drive, which reads that file and its network path, and     *)
(* leaves a <letter>.degraded marker beside the file.  WinFsp's launcher,  *)
(* Windows' table of network drives and the user act in between.           *)
(***************************************************************************)
EXTENDS Naturals, Sequences, SequencesExt

CONSTANTS
  Letters,   \* drive letters
  Rank,      \* letter |-> its place in the alphabet
  Forms,     \* what the user may type: Host, User, Port, Args, AppKey
  Outside,   \* network paths mounted without the app
  Labels,    \* letter |-> Label
  Files,     \* configurations a first start may find
  Env,       \* EnvironmentUser: the Windows user, in lower case
  Folds,     \* names with capitals |-> the same in lower case
  Number,    \* port texts that begin with a number |-> that number
  Ports,     \* port texts that are a number from 1 to 65535
  Escapes,   \* values with a backslash or a quote |-> their JSON text
  Cuts,      \* texts too long for the CLI's buffers |-> what fits
  Tasks,     \* the app's background tasks
  MaxOps,    \* bounds what the user does
  NoLetter

ASSUME DrivesAssumption ==
  /\ NoLetter \notin Letters /\ Rank \in [Letters -> Nat] /\ MaxOps \in Nat
  /\ Labels \in [Letters -> STRING]
  /\ {Env, ""} \cap DOMAIN Folds = {}
  /\ \A u \in DOMAIN Folds : Folds[u] \notin DOMAIN Folds \cup {""}
  /\ "" \notin Ports /\ "22" \in Ports /\ Ports \subseteq DOMAIN Number /\ Number["22"] = 22

VARIABLES
  file,      \* config.json: whole, Selected, Drives in their order
  open,      \* the app's window is
  working,   \* IsWorking
  task,      \* task |-> what it is at
  list,      \* letter |-> the Drive object of GoldDriveList or FreeDriveList
  sel,       \* SelectedDrive
  shown,     \* MainWindowViewModel.DriveStatus
  os,        \* letter |-> none, other, starting, serving, stale
  remote,    \* letter |-> the network path it is mounted from
  tested,    \* letter |-> what the app reached before it mounted it
  conf,      \* letter |-> what load_json took from config.json
  marker,    \* letters with a <letter>.degraded file
  lost,      \* letters whose CLI lost handles at a reconnect
  ending,    \* letters whose last CLI process has not exited yet
  late,      \* letters whose marker an ending process set after the new CLI started
  ops

appVars == <<open, working, task, list, sel, shown>>
cliVars == <<remote, tested, conf, marker, lost, ending, late>>
vars == <<file, appVars, os, cliVars, ops>>

NotRead == [read |-> FALSE]
NoTest  == [host |-> ""]

\* pending is the Settings object about to be written.  The task works on the
\* object of the letter at, or on held once that object has left the lists.
\* auth is what TestSsh reached, until the mount or an edit.
Idle == [op |-> "idle", step |-> "", pending |-> [Selected |-> "", Drives |-> <<>>],
         at |-> NoLetter, held |-> <<>>, auth |-> NoTest]

-----------------------------------------------------------------------------
(***************************************************************************)
(* Drive.MountPoint, user@host!port/path, and its two readers              *)
(***************************************************************************)

Blank == [Host |-> "", Raw |-> <<>>, User |-> "", Port |-> "", Path |-> <<>>,
          Args |-> "", AppKey |-> "", Status |-> "FREE", gold |-> FALSE]
Unlisted == [Blank EXCEPT !.Status = "UNKNOWN"]

Lower(u) == IF u \in DOMAIN Folds THEN Folds[u] ELSE u
atoi(p)  == IF p \in DOMAIN Number THEN Number[p] ELSE 0

\* Seeded fault: the user is taken for the environment's.
MountPointNoUser(d) ==
  [user |-> "", host |-> d.Host,
   port |-> IF d.Port = "22" THEN "" ELSE d.Port, path |-> d.Raw \o d.Path]

\* The getter.  Raw is what the setter left in Host behind a slash.
MountPoint(d) ==
  [user |-> IF d.User = Env THEN "" ELSE d.User,
   host |-> d.Host,
   port |-> IF d.Port = "22" THEN "" ELSE d.Port,
   path |-> d.Raw \o d.Path]

\* The setter splits the path off at a backslash only; a port with a path
\* behind it is no number, and both are gone.
SetMountPoint(d, m, sep) ==
  LET plain == sep = "\\" \/ m.path = <<>> IN
  [d EXCEPT !.Host = m.host, !.User = m.user,
            !.Port = IF plain THEN m.port ELSE "",
            !.Path = IF plain THEN m.path ELSE <<>>,
            !.Raw  = IF plain \/ m.port # "" THEN <<>> ELSE m.path]

parse_remote(m) ==
  [host |-> m.host, has_user |-> m.user # "", user |-> m.user,
   has_port |-> m.port # "", port |-> atoi(m.port)]

\* What main makes of it: the host, user and port the CLI connects to.
Target(m) ==
  LET r == parse_remote(m) IN
  [host |-> r.host,
   user |-> Lower(IF r.has_user THEN r.user ELSE Env),
   port |-> IF r.has_port THEN r.port ELSE 22]

\* CurrentPort, CurrentUser: what TestHost and TestSsh connect to.
Current(d) ==
  [host |-> d.Host,
   user |-> IF d.User = "" THEN Env ELSE d.User,
   port |-> IF d.Port \in Ports THEN Number[d.Port] ELSE 22]

\* Drive.Trim; blanks around a value are left out.
Trim(d) ==
  [d EXCEPT !.User = IF Lower(@) = Env THEN "" ELSE Lower(@),
            !.Port = IF @ = "22" THEN "" ELSE @]

-----------------------------------------------------------------------------
(***************************************************************************)
(* config.json: the text as jsmn's tokens, and parse_json_buffer's walk    *)
(***************************************************************************)

Str(v)    == [type |-> "string", v |-> v, size |-> 0]
Object(n) == [type |-> "object", v |-> "", size |-> n]

\* The text of a value between its quotes.
JsonText(v) == IF v \in DOMAIN Escapes THEN Escapes[v] ELSE v

Pair(name, v) == IF v = "" THEN <<>> ELSE <<Str(name), Str(JsonText(v))>>

\* SerializeObject with NullValueHandling.Ignore.
DriveTokens(d) ==
  LET text  == d.mount.host   \* the MountPoint string, never read by the CLI
      pairs == Pair("Args", d.Args) \o Pair("Label", Labels[d.letter])
                 \o Pair("MountPoint", text) \o Pair("AppKey", d.AppKey)
  IN <<Str(d.letter), Object(Len(pairs) \div 2)>> \o pairs

Tokens(f) ==
  <<Object(3)>> \o Pair("Selected", f.Selected)
    \o <<Str("Drives"), Object(Len(f.Drives))>>
    \o FlattenSeq([i \in 1 .. Len(f.Drives) |-> DriveTokens(f.Drives[i])])

Nothing == [Args |-> "", AppKey |-> ""]

\* The text as it stands in the file, cut at the end of the buffer.
copy_token(text) == IF text \in DOMAIN Cuts THEN Cuts[text] ELSE text

\* Tokens are numbered from 0, as in the code; <<i, out>> is where a loop is and
\* what it copied.  A loop that breaks stays where it is.
Members(t, i, n, mine, out) ==
  LET walk[k \in 0 .. n] ==
        IF k = 0 THEN <<i, out>>
        ELSE LET at  == walk[k - 1]
                 key == t[at[1] + 2].v
             IN IF at[1] + (IF mine THEN 2 ELSE 1) >= Len(t) THEN at
                ELSE <<at[1] + 2,
                       IF mine /\ key \in DOMAIN out
                       THEN [at[2] EXCEPT ![key] = copy_token(t[at[1] + 3].v)] ELSE at[2]>>
  IN walk[n]

\* Seeded fault: the walk before its off-by-one was repaired.
DrivesWalkLegacy(t, i, n, drive, out) ==
  LET walk[j \in 0 .. n] ==
        IF j = 0 THEN <<i, out>>
        ELSE LET at   == walk[j - 1]
                 mine == t[at[1] + 2].v = drive
             IN IF at[1] + 2 >= Len(t) THEN at
                ELSE Members(t, at[1] + (IF mine THEN 2 ELSE 3), t[at[1] + 3].size, mine, at[2])
  IN walk[n]

DrivesWalk(t, i, n, drive, out) ==
  LET walk[j \in 0 .. n] ==
        IF j = 0 THEN <<i, out>>
        ELSE LET at == walk[j - 1]
             IN IF at[1] + 2 >= Len(t) THEN at
                ELSE Members(t, at[1] + 2, t[at[1] + 3].size, t[at[1] + 2].v = drive, at[2])
  IN walk[n]

Root(t, drive) ==
  LET walk[k \in 0 .. Len(t)] ==
        IF k = 0 THEN <<1, Nothing>>
        ELSE LET at   == walk[k - 1]
                 past == DrivesWalk(t, at[1] + 1, t[at[1] + 2].size, drive, at[2])
             IN IF at[1] + 1 >= Len(t) THEN at
                ELSE IF t[at[1] + 1].v = "Drives" THEN <<past[1] + 1, past[2]>>
                ELSE <<at[1] + 2, at[2]>>
  IN walk[Len(t)][2]

\* load_json: a text that stops halfway does not parse and nothing is taken.
load_json(f, drive) == IF f.whole THEN Root(Tokens(f), drive) ELSE Nothing

-----------------------------------------------------------------------------
(***************************************************************************)
(* The app's view of config.json and of the drives                         *)
(***************************************************************************)

\* Settings.Load: a file that cannot be parsed counts as an empty one.
Load ==
  IF ~file.whole THEN [Selected |-> "", Drives |-> <<>>]
  ELSE [Selected |-> file.Selected,
        Drives |-> [i \in 1 .. Len(file.Drives) |->
          LET e == file.Drives[i] IN
          [letter |-> e.letter,
           obj |-> [SetMountPoint(Blank, e.mount, "/") EXCEPT
                      !.Args = e.Args, !.AppKey = e.AppKey]]]]

\* What SaveSettings writes of a Settings object.
Text(s) ==
  [whole |-> TRUE, Selected |-> s.Selected,
   Drives |-> [i \in 1 .. Len(s.Drives) |->
     LET d == s.Drives[i] IN
     [letter |-> d.letter, mount |-> MountPoint(d.obj),
      Args |-> d.obj.Args, AppKey |-> d.obj.AppKey]]]

Torn == [whole |-> FALSE, Selected |-> "", Drives |-> <<>>]

Known(s, l) == {i \in 1 .. Len(s.Drives) : s.Drives[i].letter = l}
Saved(s, l) == s.Drives[CHOOSE i \in Known(s, l) : TRUE].obj

\* Settings.AddDrive: an object that is there takes the values over.
AddDrive(s, l, d) ==
  IF Known(s, l) = {}
  THEN [s EXCEPT !.Drives = Append(@, [letter |-> l, obj |-> d])]
  ELSE [s EXCEPT !.Drives[CHOOSE i \in Known(s, l) : TRUE].obj =
          [SetMountPoint(@, MountPoint(d), "/") EXCEPT
             !.Args = d.Args, !.AppKey = d.AppKey]]

GoldDrives(ds) == {l \in Letters : ds[l].gold /\ ds[l].Status # "FREE"}

\* Settings.AddDrives(GoldDriveList).
AddDrives(s, ds) ==
  [s EXCEPT !.Drives =
     [i \in 1 .. Len(SetToSortSeq(GoldDrives(ds), LAMBDA a, b : Rank[a] < Rank[b])) |->
        LET l == SetToSortSeq(GoldDrives(ds), LAMBDA a, b : Rank[a] < Rank[b])[i]
        IN [letter |-> l, obj |-> ds[l]]]]

\* MountService.UpdateDrives: new objects from the volume label, from
\* `net use`, or from the settings; none of them carries an AppKey.
UpdateDrives(s) ==
  [l \in Letters |->
     LET known == Known(s, l) # {}
         args  == IF known THEN Saved(s, l).Args ELSE ""
         At(m, status) == [SetMountPoint(Blank, m, "\\") EXCEPT
                             !.Args = args, !.Status = status, !.gold = TRUE]
     IN
     IF os[l] = "serving"
     THEN At(remote[l], IF l \in marker THEN "DEGRADED" ELSE "CONNECTED")
     ELSE IF os[l] = "stale" THEN At(remote[l], "BROKEN")
     ELSE IF os[l] = "other" THEN [Blank EXCEPT !.Status = "UNKNOWN"]
     ELSE IF known
     THEN [SetMountPoint(Blank, MountPoint(Saved(s, l)), "/") EXCEPT
             !.Args = args, !.Status = "DISCONNECTED", !.gold = TRUE]
     ELSE Blank]

\* Drive.Clone onto the object of the list: the path is not among its fields.
Clone(d, from) ==
  [d EXCEPT !.Host = from.Host, !.Raw = from.Raw, !.Port = from.Port,
            !.User = from.User, !.Args = from.Args, !.AppKey = from.AppKey]

\* FreeDriveList is in reverse order.
FirstOf(ds) ==
  LET free == {l \in Letters : ds[l].Status = "FREE"}
      gold == GoldDrives(ds)
  IN IF gold # {} THEN CHOOSE l \in gold : \A k \in gold : Rank[l] <= Rank[k]
     ELSE IF free # {} THEN CHOOSE l \in free : \A k \in free : Rank[k] <= Rank[l]
     ELSE NoLetter

\* The letters UpdateObservableDrives finds in the service's lists.
Listed(ds, l) == l \in GoldDrives(ds) \/ ds[l].Status = "FREE"

\* UpdateObservableDrives with l selected through the object from.
UpdateObservableDrives(ds, l, from) ==
  IF l = NoLetter
  THEN list' = ds /\ sel' = FirstOf(ds)
  ELSE /\ sel' = l
       /\ list' = [ds EXCEPT ![l] =
            IF Listed(ds, l) THEN Clone(@, from)
            ELSE [Clone(Unlisted, from) EXCEPT !.Path = from.Path]]   \* from itself

\* The object a task works on.
DriveOf(k) == IF k.held = <<>> THEN list[k.at] ELSE k.held[1]

\* UpdateObservableDrives puts new objects into the lists, except for the one of
\* the letter l if it finds no other; tasks keep the objects they work on.
Keeping(ds, l, k) ==
  IF k.at = NoLetter \/ k.held # <<>> \/ (k.at = l /\ ~ Listed(ds, l)) THEN k
  ELSE [k EXCEPT !.held = <<list[k.at]>>]

\* The task t goes on as k.
Relist(t, k, ds, l) ==
  task' = [u \in Tasks |-> IF u = t THEN k ELSE Keeping(ds, l, task[u])]

\* MountService.Drives is one list that every task empties and fills again: a
\* task may find it in part while another is at work.
Found(t, ds) ==
  IF \A u \in Tasks \ {t} : task[u] = Idle THEN {ds}
  ELSE {[l \in Letters |-> IF l \in seen THEN ds[l] ELSE Unlisted] : seen \in SUBSET Letters}

\* CheckDriveStatus of the selected drive; the file system may not answer.
CheckDriveStatus(ds, l, works) ==
  LET used == \E x \in GoldDrives(ds) \ {l} :
                /\ MountPoint(ds[x]) = MountPoint(list[l])
                /\ ds[x].Status # "DISCONNECTED"
  IN
  IF used THEN "MOUNTPOINT_IN_USE"
  ELSE IF ds[l].Status \in {"DISCONNECTED", "FREE"} THEN "DISCONNECTED"
  ELSE IF l \notin GoldDrives(ds) THEN "IN_USE"
  ELSE IF works /\ os[l] = "serving" THEN "CONNECTED" ELSE "BROKEN"

-----------------------------------------------------------------------------
(***************************************************************************)
(* The app                                                                 *)
(***************************************************************************)

Init ==
  /\ file \in Files
  /\ open = FALSE /\ working = FALSE /\ task = [t \in Tasks |-> Idle]
  /\ list = [l \in Letters |-> Unlisted] /\ sel = NoLetter /\ shown = "FREE"
  /\ os \in [Letters -> {"none", "other"}]
  /\ remote = [l \in Letters |-> MountPoint(Blank)]
  /\ tested = [l \in Letters |-> NoTest] /\ conf = [l \in Letters |-> NotRead]
  /\ marker \in SUBSET Letters /\ lost = {} /\ ending = {} /\ late = {}
  /\ ops = 0

Count == ops < MaxOps /\ ops' = ops + 1   \* bound

\* The window can be used, and t is free to be begun.
Ready(t) == open /\ (\A u \in Tasks : task[u].op # "close") /\ task[t] = Idle

\* WorkStart, and WorkDone with a status to show.
Begin(t, k)     == task' = [task EXCEPT ![t] = k] /\ working' = TRUE
Done(t, status) == task' = [task EXCEPT ![t] = Idle] /\ working' = FALSE /\ shown' = status

\* A Settings object on its way to the disk.
Saving(k, op, s) == [k EXCEPT !.op = op, !.step = "truncate", !.pending = s]

\* The window opens; LoadDrivesAsync runs.
Start(t) ==
  /\ ~ open /\ open' = TRUE /\ Count
  /\ Begin(t, [Idle EXCEPT !.op = "loading"])
  /\ UNCHANGED <<file, list, sel, shown, os, cliVars>>

LoadDrives(t) ==
  LET s    == Load
      mine == {l \in Letters : l = s.Selected /\ Known(s, l) # {}}
  IN
  /\ task[t].op = "loading"
  /\ \E ds \in Found(t, UpdateDrives(s)) :
       /\ IF mine = {} \/ GoldDrives(ds) = {} THEN UpdateObservableDrives(ds, NoLetter, Blank)
          ELSE \E l \in mine : UpdateObservableDrives(ds, l, Saved(s, l))
       /\ Relist(t, IF GoldDrives(ds) = {} THEN Idle ELSE [Idle EXCEPT !.op = "check"],
                 ds, NoLetter)
       /\ working' = (GoldDrives(ds) # {})
  /\ UNCHANGED <<file, open, shown, os, cliVars, ops>>

\* Another drive in a combo, or the same and back to the main page: there
\* CheckDriveStatusAsync runs, whatever else does.
Choose(t, l) ==
  /\ Ready(t) /\ Listed(list, l) /\ Count
  /\ sel' = l
  /\ Begin(t, [Idle EXCEPT !.op = "check"]) \/ UNCHANGED <<task, working>>
  /\ UNCHANGED <<file, open, list, shown, os, cliVars>>

Check(t) ==
  /\ task[t].op = "check"
  /\ IF sel = NoLetter THEN Done(t, "NOT_SUPPORTED")
     ELSE \E works \in BOOLEAN : \E ds \in Found(t, UpdateDrives(Load)) :
            Done(t, CheckDriveStatus(ds, sel, works))
  /\ UNCHANGED <<file, open, list, sel, os, cliVars, ops>>

\* The fields are bound to the object, whatever a task is doing with it.
Edit(form) ==
  /\ open /\ (\A u \in Tasks : task[u].op # "close") /\ sel \in Letters /\ Count
  /\ list' = [list EXCEPT ![sel].Host = form.Host, ![sel].Raw = <<>>,
                          ![sel].User = form.User, ![sel].Port = form.Port,
                          ![sel].Args = form.Args, ![sel].AppKey = form.AppKey]
  /\ task' = [t \in Tasks |->
       [task[t] EXCEPT !.auth = IF task[t].at = sel /\ task[t].held = <<>> THEN NoTest ELSE @]]
  /\ UNCHANGED <<file, open, working, sel, shown, os, cliVars>>

\* OnConnect, OnConnectHost: Connect begins with CheckDriveStatus.
Connect(t) ==
  /\ Ready(t) /\ ~ working /\ sel \in Letters /\ list[sel].Host # "" /\ Count
  /\ \E works \in BOOLEAN : \E ds \in Found(t, UpdateDrives(Load)) :
       LET status == CheckDriveStatus(ds, sel, works) IN
       IF status = "DISCONNECTED"
       THEN /\ Begin(t, [Idle EXCEPT !.op = "connect", !.step = "test", !.at = sel])
            /\ UNCHANGED shown
       ELSE Done(t, status)
  /\ UNCHANGED <<file, open, list, sel, os, cliVars>>

\* OnConnectPassword does not look at the drive.
ConnectPassword(t) ==
  /\ Ready(t) /\ ~ working /\ sel \in Letters /\ Count
  /\ Begin(t, [Idle EXCEPT !.op = "connect", !.step = "test", !.at = sel])
  /\ UNCHANGED <<file, open, list, sel, shown, os, cliVars>>

\* TestHost and TestSsh succeed, or SetupSsh.  A host name with a slash in it
\* does not resolve.
Authenticate(t) ==
  LET d == DriveOf(task[t]) IN
  /\ task[t].op = "connect" /\ task[t].step = "test"
  /\ d.Host # "" /\ d.Raw = <<>>
  /\ task' = [task EXCEPT ![t].auth = Current(d), ![t].step = "use"]
  /\ UNCHANGED <<file, open, working, list, sel, shown, os, cliVars, ops>>

Refused(t) ==
  /\ task[t].op = "connect" /\ task[t].step = "test"
  /\ Done(t, "FREE")
  /\ UNCHANGED <<file, open, list, sel, os, cliVars, ops>>

\* `net use <letter>: \\golddrive\<MountPoint>`: the launcher starts a CLI.
Launch(l, m, by) ==
  /\ os' = [os EXCEPT ![l] = "starting"]
  /\ remote' = [remote EXCEPT ![l] = m]
  /\ tested' = [tested EXCEPT ![l] = by]
  /\ UNCHANGED <<conf, marker, lost, ending, late>>

Use(t) ==
  LET k == task[t] IN
  /\ k.op = "connect" /\ k.step = "use"
  /\ IF os[k.at] = "none"
     THEN /\ Launch(k.at, MountPoint(DriveOf(k)), k.auth)
          /\ task' = [task EXCEPT ![t].step = "mount", ![t].auth = NoTest]
          /\ UNCHANGED <<working, shown>>
     ELSE Done(t, "FREE") /\ UNCHANGED <<os, cliVars>>
  /\ UNCHANGED <<file, open, list, sel, ops>>

\* `net use` has returned.
Mounted(t) ==
  LET k == task[t] IN
  /\ k.op = "connect" /\ k.step = "mount" /\ os[k.at] # "starting"
  /\ IF os[k.at] \in {"serving", "stale"}
     THEN /\ task' = [task EXCEPT ![t] = Saving(k, "connect", AddDrive(Load, k.at, DriveOf(k)))]
          /\ UNCHANGED <<working, shown>>
     ELSE Done(t, "FREE")
  /\ UNCHANGED <<file, open, list, sel, os, cliVars, ops>>

\* `net use /d`: the entry goes, and the process is told to stop.
Unuse(l) ==
  /\ os' = [os EXCEPT ![l] = "none"]
  /\ ending' = IF os[l] = "serving" THEN ending \cup {l} ELSE ending
  /\ tested' = [tested EXCEPT ![l] = NoTest] /\ conf' = [conf EXCEPT ![l] = NotRead]
  /\ lost' = lost \ {l} /\ late' = late \ {l}
  /\ UNCHANGED <<remote, marker>>

Unmount(t) ==
  /\ Ready(t) /\ ~ working /\ sel \in Letters /\ Count
  /\ shown \in {"CONNECTED", "DEGRADED", "BROKEN"}
  /\ IF os[sel] \in {"serving", "stale"}
     THEN /\ Unuse(sel)
          /\ Begin(t, Saving([Idle EXCEPT !.at = sel], "unmount", Load)) /\ UNCHANGED shown
     ELSE Done(t, "FREE") /\ UNCHANGED <<os, cliVars>>
  /\ UNCHANGED <<file, open, list, sel>>

\* OnSettingsSave trims the object, and saves it if its host is a host's name.
\* Neither it nor OnSettingsDelete looks at IsWorking or sets it.
SettingsSave(t) ==
  LET d == Trim(list[sel]) IN
  /\ Ready(t) /\ sel \in Letters /\ Count
  /\ list' = [list EXCEPT ![sel] = d]
  /\ IF d.Host = "" \/ d.Raw # <<>> THEN UNCHANGED task
     ELSE task' = [task EXCEPT ![t] = Saving(Idle, "save", AddDrive(Load, sel, d))]
  /\ UNCHANGED <<file, open, working, sel, shown, os, cliVars>>

\* OnSettingsDelete: a combo loses its selection with the drive; a mounted
\* drive is unmounted first if its Status says CONNECTED.
SettingsDelete(t) ==
  LET rest == [list EXCEPT ![sel].gold = FALSE] IN
  /\ Ready(t) /\ sel \in Letters /\ Count
  /\ list' = rest /\ sel' = IF sel \in GoldDrives(list) THEN NoLetter ELSE sel
  /\ IF list[sel].Status = "CONNECTED" /\ os[sel] \in {"serving", "stale"}
     THEN /\ Unuse(sel)
          /\ task' = [task EXCEPT ![t] = Saving(Idle, "unmountDeleted", Load)]
     ELSE /\ task' = [task EXCEPT ![t] = Saving(Idle, "delete", AddDrives(Load, rest))]
          /\ UNCHANGED <<os, cliVars>>
  /\ UNCHANGED <<file, open, working, shown>>

\* Window_Closing writes the drives of the list; other tasks go on meanwhile.
Close(t) ==
  LET selected == IF sel = NoLetter THEN "" ELSE sel IN
  /\ Ready(t) /\ Count
  /\ task' = [task EXCEPT ![t] =
       Saving(Idle, "close", AddDrives([Load EXCEPT !.Selected = selected], list))]
  /\ UNCHANGED <<file, open, working, list, sel, shown, os, cliVars>>

\* The process of the app ends, and its tasks with it.
End ==
  /\ open' = FALSE /\ working' = FALSE /\ task' = [t \in Tasks |-> Idle]
  /\ list' = [l \in Letters |-> Unlisted] /\ sel' = NoLetter /\ shown' = "FREE"

\* It is killed, or an exception nobody catches ends it.
Kill ==
  /\ open /\ Count /\ End
  /\ UNCHANGED <<file, os, cliVars>>

\* A task goes on after SaveSettings.
Resume(t) ==
  LET k     == task[t]
      Refresh(ds) ==
        /\ UpdateObservableDrives(ds, sel, IF sel = NoLetter THEN Blank ELSE list[sel])
        /\ Relist(t, Idle, ds, sel)
  IN
  \/ /\ k.op = "connect"
     /\ \E ds \in Found(t, UpdateDrives(k.pending)) : Refresh(ds)
     /\ working' = FALSE /\ shown' = "CONNECTED" /\ UNCHANGED open
  \/ /\ k.op \in {"save", "delete"}
     /\ \E ds \in Found(t, UpdateDrives(k.pending)) : Refresh(ds)
     /\ UNCHANGED <<open, working, shown>>
  \/ /\ k.op = "unmount"
     /\ list' = [list EXCEPT ![k.at].Status = IF k.held = <<>> THEN "DISCONNECTED" ELSE @]
     /\ Done(t, "DISCONNECTED") /\ UNCHANGED <<open, sel>>
  \/ /\ k.op = "unmountDeleted"
     /\ task' = [task EXCEPT ![t] = Saving(k, "delete", AddDrives(Load, list))]
     /\ UNCHANGED <<open, working, list, sel, shown>>
  \/ k.op = "close" /\ End

\* SaveSettings: CreateText empties the file, unless another task has it open.
Truncate(t) ==
  /\ task[t].step = "truncate" /\ \A u \in Tasks : task[u].step # "write"
  /\ file' = Torn /\ task' = [task EXCEPT ![t].step = "write"]
  /\ UNCHANGED <<open, working, list, sel, shown, os, cliVars, ops>>

\* Another task has it open: nothing is saved, and nobody is told.
NotSaved(t) ==
  /\ task[t].step = "truncate" /\ \E u \in Tasks : task[u].step = "write"
  /\ Resume(t)
  /\ UNCHANGED <<file, os, cliVars, ops>>

Write(t) ==
  /\ task[t].step = "write"
  /\ file' = Text(task[t].pending)
  /\ Resume(t)
  /\ UNCHANGED <<os, cliVars, ops>>

-----------------------------------------------------------------------------
(***************************************************************************)
(* The CLI of a drive, and what happens outside both programs              *)
(***************************************************************************)

\* load_config_file, whatever state the app has the file in.
ReadConfig(l) ==
  /\ os[l] = "starting" /\ conf[l] = NotRead
  /\ conf' = [conf EXCEPT ![l] = [read |-> TRUE, own |-> load_json(file, l)]]
  /\ UNCHANGED <<file, appVars, os, remote, tested, marker, lost, ending, late, ops>>

\* Seeded fault: nothing clears the marker.
ServeMarked(l) ==
  /\ os[l] = "starting" /\ conf[l] # NotRead
  /\ os' = [os EXCEPT ![l] = "serving"]
  /\ UNCHANGED <<file, appVars, remote, tested, conf, marker, lost, ending, late, ops>>

\* The pool is built and a fresh mount clears the marker: main.
Serve(l) ==
  /\ os[l] = "starting" /\ conf[l] # NotRead
  /\ os' = [os EXCEPT ![l] = "serving"]
  /\ marker' = marker \ {l}
  /\ UNCHANGED <<file, appVars, remote, tested, conf, lost, ending, late, ops>>

StartFails(l) ==
  /\ os[l] = "starting"
  /\ os' = [os EXCEPT ![l] = "none"]
  /\ tested' = [tested EXCEPT ![l] = NoTest] /\ conf' = [conf EXCEPT ![l] = NotRead]
  /\ UNCHANGED <<file, appVars, remote, marker, lost, ending, late, ops>>

\* gd_reconnect lost handles; the process may be one that is ending.
gd_set_degraded(l) ==
  /\ \/ os[l] = "serving" /\ l \notin lost /\ lost' = lost \cup {l} /\ UNCHANGED late
     \/ l \in ending /\ UNCHANGED lost
        /\ late' = IF os[l] = "serving" THEN late \cup {l} ELSE late
  /\ marker' = marker \cup {l}
  /\ UNCHANGED <<file, appVars, os, remote, tested, conf, ending, ops>>

\* The process of an unmounted drive exits.
Exit(l) ==
  /\ l \in ending /\ ending' = ending \ {l}
  /\ UNCHANGED <<file, appVars, os, remote, tested, conf, marker, lost, late, ops>>

\* A CLI dies; its network drive stays in Windows' table.
Die(l) ==
  /\ os[l] = "serving" /\ Count
  /\ os' = [os EXCEPT ![l] = "stale"]
  /\ UNCHANGED <<file, appVars, cliVars>>

\* The user's own `net use`, or the reconnect at logon.
OutsideUse(l) ==
  /\ os[l] = "none" /\ Count
  /\ \E m \in Outside : Launch(l, m, NoTest)
  /\ UNCHANGED <<file, appVars>>

OutsideUnuse(l) ==
  /\ os[l] \in {"serving", "stale"} /\ Count
  /\ Unuse(l)
  /\ UNCHANGED <<file, appVars>>

-----------------------------------------------------------------------------
Next ==
  \/ \E t \in Tasks :
       \/ Start(t) \/ LoadDrives(t) \/ Check(t) \/ Connect(t) \/ ConnectPassword(t)
       \/ Authenticate(t) \/ Refused(t) \/ Use(t) \/ Mounted(t) \/ Unmount(t)
       \/ SettingsSave(t) \/ SettingsDelete(t) \/ Close(t)
       \/ Truncate(t) \/ NotSaved(t) \/ Write(t)
       \/ \E l \in Letters : Choose(t, l)
  \/ Kill
  \/ \E form \in Forms : Edit(form)
  \/ \E l \in Letters :
       \/ ReadConfig(l) \/ Serve(l) \/ StartFails(l)
       \/ gd_set_degraded(l) \/ Exit(l) \/ Die(l)
       \/ OutsideUse(l) \/ OutsideUnuse(l)

Spec == Init /\ [][Next]_vars

-----------------------------------------------------------------------------
(***************************************************************************)
(* Properties                                                              *)
(***************************************************************************)

\* What config.json says of a drive, in the text of the file and as far as it
\* fits, and nothing for a drive or a text that is not there.
Entry(f, l) ==
  LET here == {i \in 1 .. Len(f.Drives) : f.Drives[i].letter = l} IN
  IF here = {} THEN Nothing
  ELSE LET e == f.Drives[CHOOSE i \in here : TRUE]
       IN [Args |-> copy_token(JsonText(e.Args)), AppKey |-> copy_token(JsonText(e.AppKey))]

\* A CLI takes the Args and AppKey of its own drive, wherever that drive stands
\* in config.json and whatever its neighbours say; from a file the app is just
\* writing it takes nothing (parse.c: unreadable for any drive that was not first).
ReadsOwn ==
  [][\A l \in Letters :
       conf[l] = NotRead /\ conf'[l] # NotRead => conf'[l].own = Entry(file, l)]_vars

\* False, as copy_token keeps the escapes of the text and cuts it: a CLI uses
\* the key file and the arguments the app meant.
ReadsMeant ==
  [][\A l \in Letters : conf[l] = NotRead /\ conf'[l] # NotRead =>
       \A i \in 1 .. Len(file.Drives) : file.Drives[i].letter = l =>
         conf'[l].own = [Args |-> file.Drives[i].Args, AppKey |-> file.Drives[i].AppKey]]_vars

\* A CLI the app mounted connects to the host that TestSsh reached, as the user
\* it was reached as, in lower case, and at the same port if a port was typed
\* at all: although the name goes through edits, Trim, MountPoint, the network
\* path and the CLI's parser, and each program fills in its own defaults.
SameTarget ==
  \A l \in Letters :
    os[l] = "serving" /\ tested[l] # NoTest =>
      /\ Target(remote[l]).host = tested[l].host
      /\ Target(remote[l]).user = Lower(tested[l].user)
      /\ remote[l].port \in Ports \cup {""} => Target(remote[l]).port = tested[l].port

\* False: TestSsh takes the user as typed, and 22 for a port that is none, where
\* main folds the user and takes what atoi makes of the port.
SameAsTyped ==
  \A l \in Letters :
    os[l] = "serving" /\ tested[l] # NoTest => Target(remote[l]) = tested[l]

\* A marker beside a mounted drive speaks of handles its own process lost, unless
\* an earlier process of that letter was still ending (main.c: a fresh mount
\* starts healthy).
MarkerOwn ==
  \A l \in Letters : os[l] = "serving" /\ l \in marker => l \in lost \cup late

\* The status poll shows a drive with a marker as degraded rather than healthy.
DegradedShown ==
  [][\A t \in Tasks :
       task[t].op = "check" /\ task'[t].op = "idle" /\ sel \in marker
         => shown' # "CONNECTED"]_vars

=============================================================================
