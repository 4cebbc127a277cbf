--------------------------- MODULE GdDrivesProofs ---------------------------
(***************************************************************************)
(* A drive connects where the app tested it, and a marker beside a mounted *)
(* drive is its own, for every set of letters and of tasks, whatever the   *)
(* user types and however the tasks overlap.                               *)
(***************************************************************************)
EXTENDS GdDrives, TLAPS

\* Two things name the same host, port and user, up to the user's capitals.
Alike(a, b) == a.host = b.host /\ a.port = b.port /\ Lower(a.user) = Lower(b.user)

\* Drive objects, one of each letter.
Shaped(ds) == DOMAIN ds = Letters /\ \A l \in Letters : DOMAIN ds[l] = DOMAIN Blank

\* The variables that hold something of each letter are functions of them.
OfLetters ==
  /\ DOMAIN os = Letters /\ DOMAIN remote = Letters /\ DOMAIN tested = Letters
  /\ Shaped(list)

\* A task that holds the result of a test is about to mount, and the result is
\* alike what the object it works on says now.
TaskTested(k, d) ==
  /\ DOMAIN k = DOMAIN Idle
  /\ k.op = "connect" => k.at \in Letters
  /\ k.auth # NoTest => k.op = "connect" /\ k.step = "use" /\ Alike(Current(d), k.auth)

\* Trim, a status and the objects of a new list change nothing of it; an edit of
\* that object forgets the test, and an edit of another does not reach it.
TestedNow ==
  /\ DOMAIN task = Tasks
  /\ \A t \in Tasks : TaskTested(task[t], DriveOf(task[t]))

\* A network path leads the CLI where the app was: main folds the user, and takes
\* a port as atoi does.
Means(m, by) ==
  /\ Target(m).host = by.host
  /\ Target(m).user = Lower(by.user)
  /\ m.port \in Ports \cup {""} => Target(m).port = by.port

PathMeansTested == \A l \in Letters : tested[l] # NoTest => Means(remote[l], tested[l])

DrivesInv == OfLetters /\ TestedNow /\ PathMeansTested

-----------------------------------------------------------------------------
(***************************************************************************)
(* A drive object, its network path and what it means                      *)
(***************************************************************************)

\* MountPoint leaves out the user and the port that main fills in again.
LEMMA RoundTrip ==
  ASSUME NEW d, NEW by, Alike(Current(d), by)
  PROVE  Means(MountPoint(d), by)
<1> DEFINE m == MountPoint(d)
<1>1. /\ m.host = d.Host
      /\ m.user = IF d.User = Env THEN "" ELSE d.User
      /\ m.port = IF d.Port = "22" THEN "" ELSE d.Port
  BY DEF MountPoint
<1>2. /\ Target(m).host = m.host
      /\ Target(m).user = Lower(IF m.user # "" THEN m.user ELSE Env)
      /\ Target(m).port = IF m.port # "" THEN atoi(m.port) ELSE 22
  BY DEF Target, parse_remote
<1>3. /\ d.Host = by.host
      /\ Lower(IF d.User = "" THEN Env ELSE d.User) = Lower(by.user)
      /\ (IF d.Port \in Ports THEN Number[d.Port] ELSE 22) = by.port
  BY DEF Alike, Current
<1> HIDE DEF m
<1>4. Lower(Lower(by.user)) = Lower(by.user)
  BY DrivesAssumption DEF Lower
<1>5. Target(m).user = Lower(by.user)
  BY <1>1, <1>2, <1>3, <1>4 DEF Lower
<1>6. ASSUME m.port \in Ports \cup {""} PROVE Target(m).port = by.port
  <2>1. CASE d.Port \in {"", "22"}
    BY <1>1, <1>2, <1>3, <2>1, DrivesAssumption
  <2>2. CASE d.Port \notin {"", "22"}
    BY <1>1, <1>2, <1>3, <1>6, <2>2, DrivesAssumption DEF atoi
  <2> QED BY <2>1, <2>2
<1> QED BY <1>1, <1>2, <1>3, <1>5, <1>6 DEF Means, m

\* Trim folds the user and drops what is filled in again.
LEMMA TrimAlike ==
  ASSUME NEW d, DOMAIN d = DOMAIN Blank
  PROVE  Alike(Current(Trim(d)), Current(d)) /\ DOMAIN Trim(d) = DOMAIN Blank
<1>1. {"Host", "User", "Port"} \subseteq DOMAIN d
  BY DEF Blank
<1>2. /\ Trim(d).Host = d.Host
      /\ Trim(d).User = IF Lower(d.User) = Env THEN "" ELSE Lower(d.User)
      /\ Trim(d).Port = IF d.Port = "22" THEN "" ELSE d.Port
      /\ DOMAIN Trim(d) = DOMAIN d
  BY <1>1 DEF Trim
<1>3. Lower(IF Trim(d).User = "" THEN Env ELSE Trim(d).User)
        = Lower(IF d.User = "" THEN Env ELSE d.User)
  BY <1>2, DrivesAssumption DEF Lower
<1>4. (IF Trim(d).Port \in Ports THEN Number[Trim(d).Port] ELSE 22)
        = IF d.Port \in Ports THEN Number[d.Port] ELSE 22
  BY <1>2, DrivesAssumption
<1> QED BY <1>2, <1>3, <1>4 DEF Alike, Current

LEMMA SetShape ==
  ASSUME NEW d, NEW m, NEW sep, DOMAIN d = DOMAIN Blank
  PROVE  DOMAIN SetMountPoint(d, m, sep) = DOMAIN Blank
  BY DEF SetMountPoint

\* What a task finds in the service's list.
LEMMA FoundShaped ==
  ASSUME NEW t, NEW s, NEW ds \in Found(t, UpdateDrives(s))
  PROVE  Shaped(ds)
<1>1. Shaped(UpdateDrives(s))
  BY SetShape DEF Shaped, UpdateDrives
<1>2. DOMAIN Unlisted = DOMAIN Blank
  BY DEF Unlisted
<1> QED BY <1>1, <1>2 DEF Found, Shaped

LEMMA ListShaped ==
  ASSUME NEW ds, Shaped(ds), NEW l, NEW from, UpdateObservableDrives(ds, l, from)
  PROVE  Shaped(list')
<1>1. CASE l = NoLetter
  BY <1>1 DEF UpdateObservableDrives
<1>2. CASE l # NoLetter
  <2>1. list' = [ds EXCEPT ![l] = IF Listed(ds, l) THEN Clone(@, from)
                  ELSE [Clone(Unlisted, from) EXCEPT !.Path = from.Path]]
    BY <1>2 DEF UpdateObservableDrives
  <2>2. ASSUME NEW x \in Letters PROVE DOMAIN list'[x] = DOMAIN Blank
    BY <2>1 DEF Shaped, Clone, Unlisted
  <2> QED BY <2>1, <2>2 DEF Shaped
<1> QED BY <1>1, <1>2

-----------------------------------------------------------------------------
(***************************************************************************)
(* The tasks and the objects they work on                                  *)
(***************************************************************************)

\* The objects of the lists say the same as before, and one task at most goes on,
\* without the result of a test.
LEMMA OneTask ==
  ASSUME TestedNow, NEW t \in Tasks, NEW k,
         DOMAIN k = DOMAIN Idle, k.auth = NoTest, k.op = "connect" => k.at \in Letters,
         task' = [task EXCEPT ![t] = k],
         \A l \in Letters : Alike(Current(list'[l]), Current(list[l]))
  PROVE  TestedNow'
<1>1. ASSUME NEW u \in Tasks PROVE TaskTested(task'[u], DriveOf(task[u])')
  <2>1. CASE u = t
    BY <2>1 DEF TestedNow, TaskTested
  <2>2. CASE u # t
    <3>1. task'[u] = task[u] /\ TaskTested(task[u], DriveOf(task[u]))
      BY <2>2 DEF TestedNow
    <3>2. task[u].op = "connect" => Alike(Current(DriveOf(task[u])'), Current(DriveOf(task[u])))
      BY <3>1 DEF TaskTested, DriveOf, Alike
    <3> QED BY <3>1, <3>2 DEF TaskTested, Alike
  <2> QED BY <2>1, <2>2
<1>2. DOMAIN task' = Tasks
  BY DEF TestedNow
<1> QED BY <1>1, <1>2 DEF TestedNow

\* Nothing of it changes.
LEMMA NoTask ==
  ASSUME TestedNow, task' = task, \A l \in Letters : Alike(Current(list'[l]), Current(list[l]))
  PROVE  TestedNow'
<1>1. ASSUME NEW u \in Tasks PROVE TaskTested(task'[u], DriveOf(task[u])')
  <2>1. TaskTested(task[u], DriveOf(task[u]))
    BY DEF TestedNow
  <2>2. task[u].op = "connect" => Alike(Current(DriveOf(task[u])'), Current(DriveOf(task[u])))
    BY <2>1 DEF TaskTested, DriveOf, Alike
  <2> QED BY <2>1, <2>2 DEF TaskTested, Alike
<1> QED BY <1>1 DEF TestedNow

\* UpdateObservableDrives replaces the objects of the lists.
LEMMA Replaced ==
  ASSUME TestedNow, OfLetters, NEW t \in Tasks, NEW k, NEW ds, NEW l, NEW from,
         NEW x, x \in Letters => x = l /\ from = list[l],
         DOMAIN k = DOMAIN Idle, k.auth = NoTest, k.op # "connect",
         UpdateObservableDrives(ds, l, from), Shaped(ds), Relist(t, k, ds, x)
  PROVE  TestedNow'
<1>1. DOMAIN task' = Tasks
  BY DEF Relist
<1>2. ASSUME NEW u \in Tasks PROVE TaskTested(task'[u], DriveOf(task[u])')
  <2>1. CASE u = t
    BY <2>1 DEF Relist, TaskTested
  <2>2. CASE u # t
    <3> DEFINE b == task[u]
    <3>1. task'[u] = Keeping(ds, x, b) /\ TaskTested(b, DriveOf(b))
      BY <2>2 DEF Relist, TestedNow
    <3>2. CASE b.at = NoLetter
      BY <3>1, <3>2, DrivesAssumption DEF Keeping, TaskTested
    <3>3. CASE b.held # <<>>
      BY <3>1, <3>3 DEF Keeping, DriveOf
    <3>4. CASE b.held = <<>> /\ b.at = x /\ ~ Listed(ds, x) /\ b.at # NoLetter
      <4>1. task'[u] = b
        BY <3>1, <3>4 DEF Keeping
      <4>2. ASSUME b.op = "connect"
            PROVE  Alike(Current(list'[b.at]), Current(list[b.at]))
        <5>1. b.at \in Letters
          BY <3>1, <4>2 DEF TaskTested
        <5>2. list'[b.at] = [Clone(Unlisted, list[b.at]) EXCEPT !.Path = list[b.at].Path]
          BY <3>4, <5>1 DEF UpdateObservableDrives, Shaped
        <5> QED BY <5>2 DEF Alike, Current, Clone, Unlisted, Blank
      <4> QED BY <3>1, <3>4, <4>1, <4>2 DEF TaskTested, DriveOf, Alike
    <3>5. CASE b.held = <<>> /\ ~(b.at = x /\ ~ Listed(ds, x)) /\ b.at # NoLetter
      <4>1. task'[u] = [b EXCEPT !.held = <<list[b.at]>>]
        BY <3>1, <3>5 DEF Keeping
      <4>2. DOMAIN b = {"op", "step", "pending", "at", "held", "auth"}
        BY <3>1 DEF TaskTested, Idle
      <4>3. /\ task'[u].held = <<list[b.at]>> /\ task'[u].auth = b.auth /\ task'[u].op = b.op
            /\ task'[u].at = b.at /\ task'[u].step = b.step /\ DOMAIN task'[u] = DOMAIN b
        BY <4>1, <4>2
      <4>4. task'[u].held # <<>> /\ task'[u].held[1] = list[b.at]
        BY <4>3
      <4>5. DriveOf(task[u])' = list[b.at] /\ DriveOf(b) = list[b.at]
        BY <3>5, <4>4 DEF DriveOf
      <4> QED BY <3>1, <4>3, <4>5 DEF TaskTested
    <3> QED BY <3>2, <3>3, <3>4, <3>5
  <2> QED BY <2>1, <2>2
<1> QED BY <1>1, <1>2 DEF TestedNow

-----------------------------------------------------------------------------
\* Task records without the result of a test.
Untested(k) ==
  DOMAIN k = DOMAIN Idle /\ k.auth = NoTest /\ (k.op = "connect" => k.at \in Letters)

LEMMA Fresh ==
  /\ Untested(Idle)
  /\ \A op : op # "connect" => Untested([Idle EXCEPT !.op = op])
  /\ \A l : Untested([Idle EXCEPT !.at = l])
  /\ \A l \in Letters : Untested([Idle EXCEPT !.op = "connect", !.step = "test", !.at = l])
<1>1. Untested(Idle)
  BY DEF Untested, Idle
<1>2. ASSUME NEW op, op # "connect" PROVE Untested([Idle EXCEPT !.op = op])
  BY <1>2 DEF Untested, Idle
<1>3. ASSUME NEW l PROVE Untested([Idle EXCEPT !.at = l])
  BY DEF Untested, Idle
<1>4. ASSUME NEW l \in Letters
      PROVE  Untested([Idle EXCEPT !.op = "connect", !.step = "test", !.at = l])
  BY <1>4 DEF Untested, Idle
<1> QED BY <1>1, <1>2, <1>3, <1>4

LEMMA SavingFresh ==
  ASSUME NEW k, NEW op, NEW s, Untested(k), op = "connect" => k.at \in Letters
  PROVE  Untested(Saving(k, op, s))
  BY DEF Untested, Saving, Idle

LEMMA LaunchKeeps ==
  ASSUME OfLetters, PathMeansTested, NEW k, NEW m, NEW by, Launch(k, m, by), list' = list,
         by # NoTest => Means(m, by)
  PROVE  OfLetters' /\ PathMeansTested'
  BY DEF OfLetters, PathMeansTested, Launch, Means

LEMMA UnuseKeeps ==
  ASSUME OfLetters, PathMeansTested, NEW k, Unuse(k), Shaped(list')
  PROVE  OfLetters' /\ PathMeansTested'
  BY DEF OfLetters, PathMeansTested, Unuse, Means

LEMMA DrivesStart == Init => DrivesInv
<1> SUFFICES ASSUME Init PROVE DrivesInv
  OBVIOUS
<1>1. OfLetters
  BY DEF Init, OfLetters, Shaped, Unlisted
<1>2. TestedNow
  BY DEF Init, TestedNow, TaskTested, Idle
<1> QED BY <1>1, <1>2 DEF Init, DrivesInv, PathMeansTested

\* A task goes on after SaveSettings: new objects in the lists, or a status.
LEMMA ResumeKeeps ==
  ASSUME DrivesInv, NEW t \in Tasks, task[t].step \in {"truncate", "write"}, Resume(t),
         UNCHANGED cliVars, os' = os
  PROVE  DrivesInv'
<1> DEFINE k == task[t]
<1>1. DOMAIN k = DOMAIN Idle /\ k.auth = NoTest /\ (k.op = "connect" => k.at \in Letters)
  BY DEF DrivesInv, TestedNow, TaskTested
<1>2. PathMeansTested'
  BY DEF DrivesInv, PathMeansTested, cliVars, Means
<1>3. ASSUME Shaped(list') PROVE OfLetters'
  BY <1>3 DEF DrivesInv, OfLetters, cliVars
<1>4. ASSUME NEW ds, Shaped(ds), Relist(t, Idle, ds, sel),
             UpdateObservableDrives(ds, sel, IF sel = NoLetter THEN Blank ELSE list[sel])
      PROVE  DrivesInv'
  <2>1. Shaped(list')
    BY <1>4, ListShaped
  <2>2. TestedNow'
    <3>1. sel \in Letters => (IF sel = NoLetter THEN Blank ELSE list[sel]) = list[sel]
      BY DrivesAssumption
    <3>2. DOMAIN Idle = DOMAIN Idle /\ Idle.auth = NoTest /\ Idle.op # "connect"
      BY DEF Idle
    <3> QED BY <1>4, <3>1, <3>2, Replaced DEF DrivesInv
  <2> QED BY <1>2, <1>3, <2>1, <2>2 DEF DrivesInv
<1>5. CASE k.op = "connect" \/ k.op \in {"save", "delete"}
  <2>1. PICK ds \in Found(t, UpdateDrives(k.pending)) :
          /\ UpdateObservableDrives(ds, sel, IF sel = NoLetter THEN Blank ELSE list[sel])
          /\ Relist(t, Idle, ds, sel)
    BY <1>5 DEF Resume
  <2> QED BY <1>4, <2>1, FoundShaped
<1>6. CASE k.op = "unmount"
  <2>1. /\ list' = [list EXCEPT ![k.at].Status = IF k.held = <<>> THEN "DISCONNECTED" ELSE @]
        /\ task' = [task EXCEPT ![t] = Idle]
    BY <1>6 DEF Resume, Done
  <2>2. {"Host", "User", "Port"} \subseteq DOMAIN Blank
    BY DEF Blank
  <2>3. \A l \in Letters : Alike(Current(list'[l]), Current(list[l]))
    BY <2>1, <2>2 DEF DrivesInv, OfLetters, Shaped, Alike, Current
  <2>4. Shaped(list')
    BY <2>1 DEF DrivesInv, OfLetters, Shaped
  <2>5. TestedNow'
    BY <2>1, <2>3, OneTask DEF DrivesInv, Idle
  <2> QED BY <1>2, <1>3, <2>4, <2>5 DEF DrivesInv
<1>7. CASE k.op = "unmountDeleted"
  <2>1. /\ task' = [task EXCEPT ![t] = Saving(k, "delete", AddDrives(Load, list))]
        /\ list' = list
    BY <1>7 DEF Resume
  <2>2. /\ Saving(k, "delete", AddDrives(Load, list)).auth = NoTest
        /\ Saving(k, "delete", AddDrives(Load, list)).op = "delete"
        /\ DOMAIN Saving(k, "delete", AddDrives(Load, list)) = DOMAIN Idle
    BY <1>1 DEF Saving, Idle
  <2>3. TestedNow'
    BY <2>1, <2>2, OneTask DEF DrivesInv, Alike
  <2> QED BY <1>2, <1>3, <2>1, <2>3 DEF DrivesInv, OfLetters
<1>8. CASE k.op = "close"
  <2>1. list' = [l \in Letters |-> Unlisted] /\ task' = [u \in Tasks |-> Idle]
    BY <1>8 DEF Resume, End
  <2>2. Shaped(list') /\ TestedNow'
    BY <2>1 DEF Shaped, Unlisted, TestedNow, TaskTested, Idle
  <2> QED BY <1>2, <1>3, <2>2 DEF DrivesInv
<1> QED BY <1>5, <1>6, <1>7, <1>8 DEF Resume

LEMMA DrivesStep ==
  ASSUME DrivesInv, [Next]_vars
  PROVE  DrivesInv'
<1> USE DEF DrivesInv
\* Steps that leave the table of network drives alone.
<1>1. ASSUME UNCHANGED <<os, remote, tested>>, Shaped(list')
      PROVE  OfLetters' /\ PathMeansTested'
  BY <1>1 DEF OfLetters, PathMeansTested, Means
<1>2. list' = list => Shaped(list') /\ \A l \in Letters : Alike(Current(list'[l]), Current(list[l]))
  BY DEF OfLetters, Alike
\* A task begins, goes on or ends without the result of a test.
<1>3. ASSUME NEW t \in Tasks, NEW k, task' = [task EXCEPT ![t] = k], list' = list,
             Untested(k)
      PROVE  TestedNow'
  BY <1>2, <1>3, OneTask DEF Untested
<1>4. ASSUME NEW t \in Tasks, NEW status, Done(t, status), list' = list
      PROVE  TestedNow'
  BY <1>3, <1>4, Fresh DEF Done
<1>5. ASSUME NEW t \in Tasks PROVE TaskTested(task[t], DriveOf(task[t]))
  BY DEF TestedNow
<1>6. ASSUME NEW t \in Tasks, Start(t) PROVE DrivesInv'
  <2>1. Untested([Idle EXCEPT !.op = "loading"])
    BY Fresh
  <2> QED BY <1>1, <1>2, <1>3, <1>6, <2>1 DEF Start, Begin, cliVars
<1>7. ASSUME NEW t \in Tasks, LoadDrives(t) PROVE DrivesInv'
  <2>1. PICK ds \in Found(t, UpdateDrives(Load)) :
          /\ \E l, from : UpdateObservableDrives(ds, l, from)
          /\ Relist(t, IF GoldDrives(ds) = {} THEN Idle ELSE [Idle EXCEPT !.op = "check"],
                    ds, NoLetter)
    BY <1>7 DEF LoadDrives
  <2>2. PICK l, from : UpdateObservableDrives(ds, l, from)
    BY <2>1
  <2> DEFINE k == IF GoldDrives(ds) = {} THEN Idle ELSE [Idle EXCEPT !.op = "check"]
  <2>3. DOMAIN k = DOMAIN Idle /\ k.auth = NoTest /\ k.op # "connect"
    BY DEF Idle
  <2>4. Shaped(ds) /\ Shaped(list')
    BY <2>1, <2>2, FoundShaped, ListShaped
  <2> HIDE DEF k
  <2>5. NoLetter \in Letters => NoLetter = l /\ from = list[l]
    BY DrivesAssumption
  <2>6. Relist(t, k, ds, NoLetter)
    BY <2>1 DEF k
  <2>7. TestedNow'
    BY <2>2, <2>3, <2>4, <2>5, <2>6, Replaced
  <2> QED BY <1>1, <1>7, <2>4, <2>7 DEF LoadDrives, cliVars
<1>8. ASSUME NEW t \in Tasks, NEW l \in Letters, Choose(t, l) PROVE DrivesInv'
  <2>1. CASE task' = task
    BY <1>1, <1>2, <1>8, <2>1, NoTask DEF Choose, cliVars
  <2>2. CASE Begin(t, [Idle EXCEPT !.op = "check"])
    <3>1. Untested([Idle EXCEPT !.op = "check"])
      BY Fresh
    <3> QED BY <1>1, <1>2, <1>3, <1>8, <2>2, <3>1 DEF Choose, Begin, cliVars
  <2> QED BY <1>8, <2>1, <2>2 DEF Choose
<1>9. ASSUME NEW t \in Tasks, Check(t) PROVE DrivesInv'
  <2>1. list' = list /\ \E status : Done(t, status)
    BY <1>9 DEF Check
  <2> QED BY <1>1, <1>2, <1>4, <1>9, <2>1 DEF Check, cliVars
<1>10. ASSUME NEW form \in Forms, Edit(form) PROVE DrivesInv'
  <2>1. /\ sel \in Letters
        /\ list' = [list EXCEPT ![sel].Host = form.Host, ![sel].Raw = <<>>,
                                ![sel].User = form.User, ![sel].Port = form.Port,
                                ![sel].Args = form.Args, ![sel].AppKey = form.AppKey]
        /\ task' = [t \in Tasks |-> [task[t] EXCEPT
             !.auth = IF task[t].at = sel /\ task[t].held = <<>> THEN NoTest ELSE @]]
    BY <1>10 DEF Edit
  <2>2. Shaped(list') /\ \A l \in Letters : l # sel => list'[l] = list[l]
    BY <2>1 DEF OfLetters, Shaped
  <2>3. ASSUME NEW t \in Tasks PROVE TaskTested(task'[t], DriveOf(task[t])')
    <3> DEFINE k == task[t]
    <3>1. DOMAIN k = {"op", "step", "pending", "at", "held", "auth"}
      BY <1>5 DEF TaskTested, Idle
    <3>2. /\ DOMAIN task'[t] = DOMAIN k /\ task'[t].op = k.op /\ task'[t].at = k.at
          /\ task'[t].step = k.step /\ task'[t].held = k.held
          /\ task'[t].auth = IF k.at = sel /\ k.held = <<>> THEN NoTest ELSE k.auth
      BY <2>1, <3>1
    <3>3. task'[t].auth # NoTest => DriveOf(k)' = DriveOf(k)
      BY <1>5, <2>2, <3>2 DEF DriveOf, TaskTested
    <3> QED BY <1>5, <3>2, <3>3 DEF TaskTested
  <2>4. TestedNow'
    BY <2>1, <2>3 DEF TestedNow
  <2> QED BY <1>1, <1>10, <2>2, <2>4 DEF Edit, cliVars
<1>11. ASSUME NEW t \in Tasks, Connect(t) PROVE DrivesInv'
  <2>1. list' = list /\ sel \in Letters
    BY <1>11 DEF Connect
  <2>2. \/ Begin(t, [Idle EXCEPT !.op = "connect", !.step = "test", !.at = sel])
        \/ \E status : Done(t, status)
    BY <1>11 DEF Connect
  <2>3. TestedNow'
    BY <1>3, <1>4, <2>1, <2>2, Fresh DEF Begin
  <2> QED BY <1>1, <1>2, <1>11, <2>1, <2>3 DEF Connect, cliVars
<1>12. ASSUME NEW t \in Tasks, ConnectPassword(t) PROVE DrivesInv'
  BY <1>1, <1>2, <1>3, <1>12, Fresh DEF ConnectPassword, Begin, cliVars
<1>13. ASSUME NEW t \in Tasks, Authenticate(t) PROVE DrivesInv'
  <2> DEFINE k == task[t]
  <2>1. /\ k.op = "connect" /\ list' = list
        /\ task' = [task EXCEPT ![t].auth = Current(DriveOf(k)), ![t].step = "use"]
    BY <1>13 DEF Authenticate
  <2>2. ASSUME NEW u \in Tasks PROVE TaskTested(task'[u], DriveOf(task[u])')
    <3>1. CASE u # t
      <4>1. task'[u] = task[u] /\ DriveOf(task[u])' = DriveOf(task[u])
        BY <2>1, <3>1 DEF TestedNow, DriveOf
      <4> QED BY <1>5, <4>1
    <3>2. CASE u = t
      <4>1. DOMAIN k = {"op", "step", "pending", "at", "held", "auth"}
        BY <1>5 DEF TaskTested, Idle
      <4>2. /\ DOMAIN task'[t] = DOMAIN k /\ task'[t].op = k.op /\ task'[t].at = k.at
            /\ task'[t].step = "use" /\ task'[t].held = k.held
            /\ task'[t].auth = Current(DriveOf(k))
        BY <2>1, <4>1 DEF TestedNow
      <4>3. DriveOf(task[t])' = DriveOf(k)
        BY <2>1, <4>2 DEF DriveOf
      <4> QED BY <1>5, <2>1, <3>2, <4>2, <4>3 DEF TaskTested, Alike
    <3> QED BY <3>1, <3>2
  <2>3. TestedNow'
    BY <2>1, <2>2 DEF TestedNow
  <2> QED BY <1>1, <1>2, <1>13, <2>1, <2>3 DEF Authenticate, cliVars
<1>14. ASSUME NEW t \in Tasks, Refused(t) PROVE DrivesInv'
  BY <1>1, <1>2, <1>4, <1>14 DEF Refused, cliVars
<1>15. ASSUME NEW t \in Tasks, Use(t) PROVE DrivesInv'
  <2> DEFINE k == task[t]
  <2>1. list' = list /\ k.op = "connect" /\ k.at \in Letters /\ DOMAIN k = DOMAIN Idle
    BY <1>5, <1>15 DEF Use, TaskTested
  <2>2. CASE os[k.at] = "none"
    <3>1. /\ Launch(k.at, MountPoint(DriveOf(k)), k.auth)
          /\ task' = [task EXCEPT ![t].step = "mount", ![t].auth = NoTest]
      BY <1>15, <2>2 DEF Use
    <3>2. k.auth # NoTest => Means(MountPoint(DriveOf(k)), k.auth)
      BY <1>5, RoundTrip DEF TaskTested
    <3>3. OfLetters' /\ PathMeansTested'
      BY <2>1, <3>1, <3>2, LaunchKeeps
    <3> DEFINE next == [k EXCEPT !.step = "mount", !.auth = NoTest]
    <3>4. task' = [task EXCEPT ![t] = next]
      BY <3>1 DEF TestedNow
    <3>5. Untested(next)
      BY <2>1 DEF Untested, Idle
    <3> HIDE DEF next
    <3>6. TestedNow'
      BY <1>3, <2>1, <3>4, <3>5
    <3> QED BY <3>3, <3>6
  <2>3. CASE os[k.at] # "none"
    BY <1>1, <1>2, <1>4, <1>15, <2>1, <2>3 DEF Use, cliVars
  <2> QED BY <2>2, <2>3
<1>16. ASSUME NEW t \in Tasks, Mounted(t) PROVE DrivesInv'
  <2> DEFINE k == task[t]
             s == AddDrive(Load, k.at, DriveOf(k))
  <2>1. k.at \in Letters /\ DOMAIN k = DOMAIN Idle /\ k.auth = NoTest /\ list' = list
    BY <1>5, <1>16 DEF Mounted, TaskTested
  <2>2. (\E status : Done(t, status)) \/ task' = [task EXCEPT ![t] = Saving(k, "connect", s)]
    BY <1>16 DEF Mounted
  <2> HIDE DEF s
  <2>3. Untested(Saving(k, "connect", s))
    BY <2>1, SavingFresh DEF Untested
  <2>4. TestedNow'
    BY <1>3, <1>4, <2>1, <2>2, <2>3
  <2> QED BY <1>1, <1>2, <1>16, <2>1, <2>4 DEF Mounted, cliVars
<1>17. ASSUME NEW t \in Tasks, Unmount(t) PROVE DrivesInv'
  <2>1. list' = list
    BY <1>17 DEF Unmount
  <2>2. TestedNow'
    <3>1. Untested(Saving([Idle EXCEPT !.at = sel], "unmount", Load))
      BY Fresh, SavingFresh
    <3> QED BY <1>3, <1>4, <1>17, <2>1, <3>1 DEF Unmount, Begin
  <2> QED BY <1>1, <1>2, <1>17, <2>1, <2>2, UnuseKeeps DEF Unmount, cliVars
<1>18. ASSUME NEW t \in Tasks, SettingsSave(t) PROVE DrivesInv'
  <2>1. sel \in Letters /\ list' = [list EXCEPT ![sel] = Trim(list[sel])]
    BY <1>18 DEF SettingsSave
  <2>2. Shaped(list') /\ \A l \in Letters : Alike(Current(list'[l]), Current(list[l]))
    BY <2>1, TrimAlike DEF OfLetters, Shaped, Alike
  <2> DEFINE s == AddDrive(Load, sel, Trim(list[sel]))
  <2>3. task' = task \/ task' = [task EXCEPT ![t] = Saving(Idle, "save", s)]
    BY <1>18 DEF SettingsSave
  <2> HIDE DEF s
  <2>4. Untested(Saving(Idle, "save", s))
    BY Fresh, SavingFresh
  <2>5. TestedNow'
    BY <2>2, <2>3, <2>4, OneTask, NoTask DEF Untested
  <2> QED BY <1>1, <1>18, <2>2, <2>5 DEF SettingsSave, cliVars
<1>19. ASSUME NEW t \in Tasks, SettingsDelete(t) PROVE DrivesInv'
  <2>1. sel \in Letters /\ list' = [list EXCEPT ![sel].gold = FALSE]
    BY <1>19 DEF SettingsDelete
  <2>2. Shaped(list') /\ \A l \in Letters : Alike(Current(list'[l]), Current(list[l]))
    BY <2>1 DEF OfLetters, Shaped, Alike, Current, Blank
  <2>3. PICK op, s : /\ op \in {"unmountDeleted", "delete"}
                     /\ task' = [task EXCEPT ![t] = Saving(Idle, op, s)]
    BY <1>19 DEF SettingsDelete
  <2>4. Untested(Saving(Idle, op, s))
    BY <2>3, Fresh, SavingFresh
  <2>5. TestedNow'
    BY <2>2, <2>3, <2>4, OneTask DEF Untested
  <2> QED BY <1>1, <1>19, <2>2, <2>5, UnuseKeeps DEF SettingsDelete, cliVars
<1>20. ASSUME NEW t \in Tasks, Close(t) PROVE DrivesInv'
  <2>1. PICK s : task' = [task EXCEPT ![t] = Saving(Idle, "close", s)]
    BY <1>20 DEF Close
  <2>2. Untested(Saving(Idle, "close", s))
    BY Fresh, SavingFresh
  <2> QED BY <1>1, <1>2, <1>3, <1>20, <2>1, <2>2 DEF Close, cliVars
<1>21. CASE Kill
  BY <1>1, <1>21 DEF Kill, End, TestedNow, TaskTested, Idle, Shaped, Unlisted, cliVars
<1>22. ASSUME NEW t \in Tasks, Truncate(t) PROVE DrivesInv'
  <2>1. TestedNow'
    <3> DEFINE next == [task[t] EXCEPT !.step = "write"]
    <3>1. task' = [task EXCEPT ![t] = next] /\ list' = list
      BY <1>22 DEF Truncate, TestedNow
    <3>2. Untested(next)
      BY <1>5, <1>22 DEF Untested, Truncate, TaskTested, Idle
    <3> HIDE DEF next
    <3> QED BY <1>3, <3>1, <3>2
  <2> QED BY <1>1, <1>2, <1>22, <2>1 DEF Truncate, cliVars
<1>23. ASSUME NEW t \in Tasks, NotSaved(t) \/ Write(t) PROVE DrivesInv'
  BY <1>23, ResumeKeeps DEF NotSaved, Write
\* Steps outside the app.
<1>24. ASSUME UNCHANGED appVars PROVE TestedNow' /\ Shaped(list')
  BY <1>2, <1>24, NoTask DEF appVars
<1>25. ASSUME NEW l \in Letters, ReadConfig(l) \/ gd_set_degraded(l) \/ Exit(l)
       PROVE  DrivesInv'
  BY <1>1, <1>24, <1>25 DEF ReadConfig, gd_set_degraded, Exit
<1>26. ASSUME NEW l \in Letters, Serve(l) \/ StartFails(l) \/ Die(l) PROVE DrivesInv'
  BY <1>24, <1>26 DEF Serve, StartFails, Die, cliVars, OfLetters, PathMeansTested, Means
<1>27. ASSUME NEW l \in Letters, OutsideUse(l) PROVE DrivesInv'
  <2>1. PICK m \in Outside : Launch(l, m, NoTest)
    BY <1>27 DEF OutsideUse
  <2>2. UNCHANGED appVars
    BY <1>27 DEF OutsideUse
  <2> QED BY <1>24, <2>1, <2>2, LaunchKeeps DEF appVars
<1>28. ASSUME NEW l \in Letters, OutsideUnuse(l) PROVE DrivesInv'
  BY <1>24, <1>28, UnuseKeeps DEF OutsideUnuse
<1>29. CASE UNCHANGED vars
  BY <1>1, <1>24, <1>29 DEF vars, cliVars
<1> QED
  BY <1>6, <1>7, <1>8, <1>9, <1>10, <1>11, <1>12, <1>13, <1>14, <1>15, <1>16, <1>17,
     <1>18, <1>19, <1>20, <1>21, <1>22, <1>23, <1>25, <1>26, <1>27, <1>28, <1>29 DEF Next

\* The CLI of a drive the app mounted connects to what TestSsh reached, as main
\* folds the user and atoi reads the port, although the object goes through
\* edits, Trim and new lists while the task works on it.
THEOREM TargetsAgree == Spec => []SameTarget
<1>1. OfLetters /\ PathMeansTested => SameTarget
  BY DEF PathMeansTested, SameTarget, OfLetters, Means
<1> QED BY <1>1, DrivesStart, DrivesStep, PTL DEF Spec, DrivesInv

-----------------------------------------------------------------------------
\* Only the CLI of a letter, its predecessor and `net use` touch what a marker is
\* judged by.
LEMMA MarkerStep ==
  ASSUME MarkerOwn, DOMAIN os = Letters, [Next]_vars
  PROVE  MarkerOwn'
<1>1. ASSUME UNCHANGED <<os, marker, lost, late>> PROVE MarkerOwn'
  BY <1>1 DEF MarkerOwn
<1>2. ASSUME NEW k, Unuse(k) PROVE MarkerOwn'
  BY <1>2 DEF MarkerOwn, Unuse
<1>3. ASSUME NEW k, NEW m, NEW by, Launch(k, m, by) PROVE MarkerOwn'
  BY <1>3 DEF MarkerOwn, Launch
<1>4. ASSUME NEW t \in Tasks, \/ Start(t) \/ LoadDrives(t) \/ Check(t) \/ Connect(t)
                              \/ ConnectPassword(t) \/ Authenticate(t) \/ Refused(t)
      PROVE  MarkerOwn'
  BY <1>1, <1>4 DEF Start, LoadDrives, Check, Connect, ConnectPassword, Authenticate,
     Refused, cliVars
<1>5. ASSUME NEW t \in Tasks, \/ Mounted(t) \/ SettingsSave(t) \/ Close(t) \/ Truncate(t)
                              \/ NotSaved(t) \/ Write(t)
      PROVE  MarkerOwn'
  BY <1>1, <1>5 DEF Mounted, SettingsSave, Close, Truncate, NotSaved, Write, cliVars
<1>6. ASSUME NEW t \in Tasks, Use(t) PROVE MarkerOwn'
  BY <1>1, <1>3, <1>6 DEF Use, cliVars
<1>7. ASSUME NEW t \in Tasks, Unmount(t) \/ SettingsDelete(t) PROVE MarkerOwn'
  BY <1>1, <1>2, <1>7 DEF Unmount, SettingsDelete, cliVars
<1>8. CASE Kill
  BY <1>1, <1>8 DEF Kill, cliVars
<1>9. ASSUME NEW form \in Forms, Edit(form) PROVE MarkerOwn'
  BY <1>1, <1>9 DEF Edit, cliVars
<1>10. ASSUME NEW t \in Tasks, NEW l \in Letters, Choose(t, l) PROVE MarkerOwn'
  BY <1>1, <1>10 DEF Choose, cliVars
<1>11. ASSUME NEW l \in Letters, ReadConfig(l) \/ Exit(l) PROVE MarkerOwn'
  BY <1>1, <1>11 DEF ReadConfig, Exit
<1>12. ASSUME NEW l \in Letters, Serve(l) PROVE MarkerOwn'
  BY <1>12 DEF Serve, MarkerOwn
<1>13. ASSUME NEW l \in Letters, StartFails(l) PROVE MarkerOwn'
  BY <1>13 DEF StartFails, MarkerOwn
<1>14. ASSUME NEW l \in Letters, gd_set_degraded(l) PROVE MarkerOwn'
  BY <1>14 DEF gd_set_degraded, MarkerOwn
<1>15. ASSUME NEW l \in Letters, Die(l) PROVE MarkerOwn'
  BY <1>15 DEF Die, MarkerOwn, cliVars
<1>16. ASSUME NEW l \in Letters, OutsideUse(l) \/ OutsideUnuse(l) PROVE MarkerOwn'
  BY <1>2, <1>3, <1>16 DEF OutsideUse, OutsideUnuse
<1>17. CASE UNCHANGED vars
  BY <1>1, <1>17 DEF vars, cliVars
<1> QED
  BY <1>4, <1>5, <1>6, <1>7, <1>8, <1>9, <1>10, <1>11, <1>12, <1>13, <1>14, <1>15, <1>16,
     <1>17 DEF Next

\* A fresh mount starts healthy: its marker, if any, is of its own making or of a
\* process of that letter that was still ending.
THEOREM MarkersOwn == Spec => []MarkerOwn
<1>1. Init => MarkerOwn
  BY DEF Init, MarkerOwn
<1>2. DrivesInv => DOMAIN os = Letters
  BY DEF DrivesInv, OfLetters
<1> QED BY <1>1, <1>2, DrivesStart, DrivesStep, MarkerStep, PTL DEF Spec
=============================================================================
