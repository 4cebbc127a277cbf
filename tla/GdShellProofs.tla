----------------------------- MODULE GdShellProofs -----------------------------
(***************************************************************************)
(* One shell for all commands of a connection, proved for every number of  *)
(* threads, opens and losses and every size of the output buffer: who      *)
(* wrote on a quiet channel and read to the sentinel has its own answer;   *)
(* who decided on such answers writes to no other name's file; what was    *)
(* written keeps a name, and the path comes back.                          *)
(***************************************************************************)
EXTENDS GdShell, SequenceTheorems, FiniteSetTheorems, NaturalsInduction, TLAPS

\* main's two commands come first; the lock is held by who waits for an answer.
ControlInv ==
  /\ pc[Main] \in {"ask", "read", "got", "done"} /\ asked \in 0 .. 2
  /\ pc[Main] # "done" => asked < 2 /\ \A t \in Threads : pc[t] = "wait"
  /\ \A a \in Actors : pc[a] \in {"read", "got"} <=> holder = a
  /\ \A t \in Threads :
       /\ pc[t] # "done"
       /\ pc[t] \notin {"wait", "idle"} => opens[t] > 0
       /\ pc[t] = "write" => handle[t] # NoFile

\* Writing to the path does not reach the file of the other name.
Separated == file[Other] # NoFile => file[Path] # file[Other]

\* What thread t learnt or is about to learn lets it decide.
Settled(t) == truth[t] <= 1 => Separated

Answer(n) == IF n = 0 THEN Sentinel(1) ELSE <<Tok("num", n)>> \o Sentinel(0)

\* The number gd_check_hlink makes of output s.
CountIn(s) == IF extract_rcode(s) = 0 THEN atoi(s) ELSE 0

\* A command on a quiet channel: not run yet (or never), its answer on the
\* way, cut into what was read, what was queued and what is in the socket, or
\* cut off by the end of the buffer.
Waiting(t) ==
  /\ wire = <<>> /\ inbox = <<>> /\ out = <<>>
  /\ todo \in {<<>>, <<[from |-> t, cmd |-> "stat"]>>}

Coming(t) ==
  /\ todo = <<>> /\ Settled(t)
  /\ LET A == Answer(truth[t]) IN
     \E k \in 0 .. Len(A) : \E j \in 0 .. k : \E i \in 0 .. j :
       out = SubSeq(A, 1, i) /\ inbox = SubSeq(A, i + 1, j) /\ wire = SubSeq(A, j + 1, k)

\* The reader waits; who has read knows what the shell saw.
AnswerOf(t) ==
  /\ pc[t] = "read" /\ quiet[t] =>
       /\ ~whole[t] /\ ~HasKey(out)
       /\ Waiting(t) \/ Coming(t) \/ (todo = <<>> /\ Len(out) = OutMax)
  /\ quiet[t] /\ whole[t] =>
       /\ Settled(t) /\ \A i \in DOMAIN todo : todo[i].from # t
       /\ truth[t] = IF pc[t] = "got" THEN CountIn(out) ELSE links[t]

AnswerInv == \A t \in Threads : AnswerOf(t)

\* A thread that is sure of its checks is about to write to a file of its own.
Sure(t) ==
  /\ pc[t] \in {"create", "open"} => Separated
  /\ pc[t] = "write" /\ file[Other] # NoFile => handle[t] # file[Other]

SureInv == file[Other] \in {Shared, NoFile} /\ \A t \in Threads \ unsure : Sure(t)

\* What is open has a name.
OpenNamed ==
  ~clash => \A t \in Threads : handle[t] # NoFile => \E n \in Names : file[n] = handle[t]

IInv == /\ TypeOK /\ ControlInv /\ AnswerInv /\ SureInv /\ OpenNamed
        /\ OthersKept /\ DataNamed /\ PathBack

\* A set of numbers that is not empty has a least one.
LEMMA NatMin ==
  ASSUME NEW T \in SUBSET Nat, T # {}
  PROVE \E m \in T : \A k \in T : m <= k
<1> DEFINE R == {ss \in Nat \X Nat : ss[1] < ss[2]}
<1>1. IsWellFoundedOn(R, Nat)
  BY NatLessThanWellFounded DEF OpToRel
<1> HIDE DEF R
<1>2. PICK m \in T : \A y \in T : ~ (<<y, m>> \in R)
  BY <1>1, WFMin
<1>3. \A y \in T : ~ (y < m)
  BY <1>2 DEF R
<1> QED BY <1>3

\* The last position of a kind in a sequence.
LEMMA LastOne ==
  ASSUME NEW n \in Nat, NEW I \in SUBSET (1 .. n), I # {}
  PROVE  Max(I) \in I /\ \A i \in I : i <= Max(I)
<1> DEFINE T == {n - i : i \in I}
<1>1. T \in SUBSET Nat /\ T # {}
  <2>1. \A i \in I : i \in 1 .. n /\ n - i \in Nat
    OBVIOUS
  <2> QED BY <2>1
<1>2. PICK m \in T : \A k \in T : m <= k
  BY <1>1, NatMin
<1>3. PICK x \in I : m = n - x
  BY <1>2
<1>4. \A y \in I : x >= y
  BY <1>2, <1>3
<1> QED BY <1>4 DEF Max

\* What fits the output buffer.
LEMMA FitsWhat ==
  ASSUME NEW n \in Nat, Len(out) \in Nat, Len(out) <= OutMax
  PROVE  Fits(n) = IF n <= OutMax - Len(out) THEN n ELSE OutMax - Len(out)
<1> DEFINE d == OutMax - Len(out)
<1>1. d \in Nat
  BY ShellAssumption
<1> HIDE DEF d
<1>2. Min({n, d}) = IF n <= d THEN n ELSE d
  <2> DEFINE m == IF n <= d THEN n ELSE d
  <2>1. m \in {n, d} /\ \A y \in {n, d} : m <= y
    BY <1>1
  <2>2. \A x \in {n, d} : (\A y \in {n, d} : x <= y) => x = m
    BY <1>1
  <2> QED BY <2>1, <2>2 DEF Min
<1> QED BY <1>2 DEF Fits, d

\* The position of the last sentinel.
LastKey(s) == SelectLastInSeq(s, LAMBDA x : x.kind = "key")

\* Nothing behind it is a sentinel.
LEMMA LastKeyWhat ==
  ASSUME NEW s \in Seq(Token)
  PROVE  /\ LastKey(s) \in 0 .. Len(s)
         /\ LastKey(s) = 0 => \A i \in 1 .. Len(s) : s[i].kind # "key"
         /\ LastKey(s) # 0 => /\ s[LastKey(s)].kind = "key"
                              /\ \A i \in 1 .. Len(s) : i > LastKey(s) => s[i].kind # "key"
<1> DEFINE I == {i \in 1 .. Len(s) : s[i].kind = "key"}
<1>1. LastKey(s) = IF I # {} THEN Max(I) ELSE 0
  BY DEF LastKey, SelectLastInSeq
<1>2. Len(s) \in Nat /\ I \in SUBSET (1 .. Len(s))
  BY LenProperties
<1>3. I # {} => Max(I) \in I /\ \A i \in I : i <= Max(I)
  BY <1>2, LastOne
<1>4. CASE I = {}
  BY <1>1, <1>2, <1>4
<1>5. CASE I # {}
  <2>1. LastKey(s) \in I /\ \A i \in I : i <= LastKey(s)
    BY <1>1, <1>3, <1>5
  <2> QED BY <1>2, <2>1
<1> QED BY <1>4, <1>5

\* The numbers gd_check_hlink reads from the output.
LEMMA NumbersRead ==
  ASSUME NEW s \in Seq(Token)
  PROVE  extract_rcode(s) \in Nat /\ atoi(s) \in Nat
<1>0. Len(s) \in Nat /\ \A i \in 1 .. Len(s) : s[i].val \in Nat
  <2>1. Len(s) \in Nat /\ \A i \in 1 .. Len(s) : s[i] \in Token
    BY LenProperties, ElementOfSeq
  <2>2. \A x \in Token : x.val \in Nat
    BY DEF Token
  <2> QED BY <2>1, <2>2
<1>1. extract_rcode(s) \in Nat
  <2>1. extract_rcode(s) =
          IF LastKey(s) # 0 /\ LastKey(s) < Len(s) /\ s[LastKey(s) + 1].kind = "code"
          THEN s[LastKey(s) + 1].val ELSE 0
    BY DEF extract_rcode, LastKey, SelectLastInSeq
  <2>2. LastKey(s) \in Nat /\ (LastKey(s) < Len(s) => LastKey(s) + 1 \in 1 .. Len(s))
    BY <1>0, LastKeyWhat
  <2> QED BY <1>0, <2>1, <2>2
<1>2. s # <<>> => 1 \in 1 .. Len(s)
  BY <1>0, EmptySeq
<1>3. atoi(s) \in Nat
  BY <1>0, <1>2 DEF atoi
<1> QED BY <1>1, <1>3

\* The number of names of a file.
LEMMA Counted ==
  ASSUME NEW f
  PROVE  /\ LinkCount(f) \in Nat
         /\ (\E n \in Names : file[n] = f) => LinkCount(f) > 0
         /\ file[Path] = f /\ file[Other] = f => LinkCount(f) > 1
<1> DEFINE S == {n \in Names : file[n] = f}
<1>1. IsFiniteSet(Names)
  <2>1. IsFiniteSet(Backups \cup {Path}) /\ IsFiniteSet((Backups \cup {Path}) \cup {Other})
    BY ShellAssumption, FS_AddElement
  <2>2. Names = (Backups \cup {Path}) \cup {Other}
    BY DEF Names
  <2> QED BY <2>1, <2>2
<1>2. IsFiniteSet(S) /\ Cardinality(S) \in Nat
  BY <1>1, FS_Subset, FS_CardinalityType
<1>3. S # {} => Cardinality(S) > 0
  BY <1>2, FS_EmptySet
<1>4. ASSUME file[Path] = f, file[Other] = f PROVE Cardinality(S) > 1
  <2>1. {Path, Other} \in SUBSET S
    BY <1>4 DEF Names
  <2>2. {Path, Other} = {Path} \cup {Other} /\ Other \notin {Path}
    BY ShellAssumption
  <2>3. Cardinality({Path, Other}) = 2
    <3>1. IsFiniteSet({Path}) /\ Cardinality({Path}) = 1
      BY FS_Singleton
    <3>2. Cardinality({Path} \cup {Other}) = Cardinality({Path}) + 1
      BY <2>2, <3>1, FS_AddElement
    <3> QED BY <2>2, <3>1, <3>2
  <2> QED BY <1>2, <2>1, <2>3, FS_Subset
<1> QED BY <1>2, <1>3, <1>4 DEF LinkCount

\* What a login script prints is output.
LEMMA NoiseType == \A w \in Noise : w \in Seq(Token)
<1>1. Tok("text", 0) \in Token
  BY DEF Tok, Token
<1>2. ASSUME NEW n \in 0 .. MaxNoise PROVE [i \in 1 .. n |-> Tok("text", 0)] \in Seq(Token)
  BY <1>1, ShellAssumption, IsASeq
<1> QED BY <1>2 DEF Noise

\* The names the shell counts, and what it prints for the oldest command.
Looked == IF file[Path] = NoFile THEN 0 ELSE LinkCount(file[Path])

Printed(c) ==
  CASE c.cmd = "id"   -> <<Tok("num", Uid)>> \o Sentinel(0)
    [] c.cmd = "home" -> <<Tok("text", 0)>> \o Sentinel(0)
    [] Looked = 0 -> Sentinel(1)
    [] OTHER -> <<Tok("num", Looked)>> \o Sentinel(0)

\* Tokens and pieces of output are what they should be.
LEMMA TokType ==
  /\ \A n \in Nat : <<Tok("num", n)>> \in Seq(Token)
  /\ <<Tok("text", 0)>> \in Seq(Token)
  /\ Sentinel(0) \in Seq(Token) /\ Sentinel(1) \in Seq(Token)
<1>1. /\ \A n \in Nat : Tok("num", n) \in Token
      /\ Tok("text", 0) \in Token /\ Tok("key", 0) \in Token
      /\ Tok("code", 0) \in Token /\ Tok("code", 1) \in Token
  BY DEF Tok, Token
<1> QED BY <1>1 DEF Sentinel

\* What the shell prints is output.
LEMMA PrintedType == Looked \in Nat /\ \A c : Printed(c) \in Seq(Token)
<1>1. Looked \in Nat
  BY Counted DEF Looked
<1>2. Uid \in Nat
  BY DEF Uid
<1>3. ASSUME NEW c PROVE Printed(c) \in Seq(Token)
  <2>1. /\ <<Tok("num", Uid)>> \o Sentinel(0) \in Seq(Token)
        /\ <<Tok("text", 0)>> \o Sentinel(0) \in Seq(Token)
        /\ <<Tok("num", Looked)>> \o Sentinel(0) \in Seq(Token)
        /\ Sentinel(1) \in Seq(Token)
    BY <1>1, <1>2, TokType, ConcatProperties
  <2> QED BY <2>1 DEF Printed
<1> QED BY <1>1, <1>3

\* A step of the reader: what it keeps of the n tokens it read.
LEMMA ReadWhat ==
  ASSUME TypeOK, NEW a \in Actors, Read(a)
  PROVE  \E n \in 1 .. Len(inbox), f \in Nat :
           /\ f = IF n <= OutMax - Len(out) THEN n ELSE OutMax - Len(out)
           /\ LET got == out \o SubSeq(inbox, 1, f) IN
              /\ inbox' = SubSeq(inbox, n + 1, Len(inbox)) /\ inbox' \in Seq(Token)
              /\ out' = got /\ got \in Seq(Token) /\ Len(got) = Len(out) + f
              /\ Len(got) <= OutMax
              /\ whole' = [whole EXCEPT ![a] = HasKey(got)]
              /\ pc' = [pc EXCEPT ![a] = IF f = 0 \/ HasKey(got) THEN "got" ELSE "read"]
<1>1. /\ inbox \in Seq(Token) /\ out \in Seq(Token) /\ Len(out) \in Nat /\ Len(inbox) \in Nat
      /\ Len(out) <= OutMax /\ OutMax \in Nat
      /\ \A i \in 1 .. Len(inbox) : inbox[i] \in Token
  BY ShellAssumption, LenProperties, ElementOfSeq DEF TypeOK
<1>2. PICK n \in 1 .. Len(inbox) :
        LET kept == SubSeq(inbox, 1, Fits(n))
            got  == out \o kept
            done == kept = <<>> \/ HasKey(got)
        IN /\ inbox' = SubSeq(inbox, n + 1, Len(inbox))
           /\ out' = got
           /\ whole' = [whole EXCEPT ![a] = HasKey(got)]
           /\ Goto(a, IF done THEN "got" ELSE "read")
  BY DEF Read
<1> DEFINE f == Fits(n)
           kept == SubSeq(inbox, 1, f)
<1>3. f = (IF n <= OutMax - Len(out) THEN n ELSE OutMax - Len(out)) /\ f \in 0 .. n
  <2>1. n \in Nat
    OBVIOUS
  <2>2. Fits(n) = IF n <= OutMax - Len(out) THEN n ELSE OutMax - Len(out)
    BY <1>1, <2>1, FitsWhat
  <2> QED BY <1>1, <2>1, <2>2
<1>4. kept \in Seq(Token) /\ Len(kept) = f
  BY <1>1, <1>3, SubSeqProperties
<1>5. kept = <<>> <=> f = 0
  BY <1>4, EmptySeq
<1>6. SubSeq(inbox, n + 1, Len(inbox)) \in Seq(Token)
  BY <1>1, SubSeqProperties
<1>7. out \o kept \in Seq(Token) /\ Len(out \o kept) = Len(out) + f
  BY <1>1, <1>4, ConcatProperties
<1>8. Len(out) + f <= OutMax
  BY <1>1, <1>3
<1> DEFINE got == out \o kept
<1>9. f \in Nat
  BY <1>3
<1>10. /\ inbox' = SubSeq(inbox, n + 1, Len(inbox)) /\ out' = got
       /\ whole' = [whole EXCEPT ![a] = HasKey(got)]
       /\ pc' = [pc EXCEPT ![a] = IF f = 0 \/ HasKey(got) THEN "got" ELSE "read"]
  BY <1>2, <1>5 DEF Goto
<1> HIDE DEF f
<1> QED BY <1>3, <1>6, <1>7, <1>8, <1>9, <1>10

Cmds == [from : Actors, cmd : {"id", "home", "stat"}]

\* The shell runs the oldest command.
LEMMA ShellRunsWhat ==
  ASSUME TypeOK, ShellRuns
  PROVE  /\ up = "up" /\ todo # <<>> /\ todo' = Tail(todo)
         /\ wire' = wire \o Printed(Head(todo)) /\ wire' \in Seq(Token)
         /\ Head(todo).from \in Actors /\ Head(todo).cmd \in {"id", "home", "stat"}
         /\ truth' = [truth EXCEPT ![Head(todo).from] = Looked]
<1>1. todo # <<>> /\ wire' = wire \o Printed(Head(todo))
  BY DEF ShellRuns, Printed, Looked
<1>2. wire' \in Seq(Token)
  BY <1>1, PrintedType, ConcatProperties DEF TypeOK
<1>3. Head(todo).from \in Actors /\ Head(todo).cmd \in {"id", "home", "stat"}
  <2>1. todo \in Seq(Cmds)
    BY DEF TypeOK, Cmds
  <2>2. Head(todo) \in Cmds
    BY <1>1, <2>1, HeadTailProperties
  <2> QED BY <2>2 DEF Cmds
<1> QED BY <1>1, <1>2, <1>3 DEF ShellRuns, Looked

Steps == {"wait", "ask", "read", "got", "idle", "rename", "create", "open", "write", "done"}

\* Every step keeps the types.
LEMMA TypeStep == TypeOK /\ ControlInv /\ [Next]_vars => TypeOK'
<1> SUFFICES ASSUME TypeOK, ControlInv, [Next]_vars PROVE TypeOK' OBVIOUS
<1> USE DEF linkVars, shellVars, fileVars, ghostVars, Goto
<1>0. /\ Threads \subseteq Actors /\ Main \in Actors /\ Main \notin Threads
      /\ \A t \in Threads : t # Main
  BY ShellAssumption DEF Actors
<1>01. /\ NoFile \in Files \cup {NoFile} /\ Path \in Names /\ Other \in Names
       /\ Backups \subseteq Names
  BY DEF Names
<1>02. \A s \in Seq(Token) : Len(s) \in Nat
  BY LenProperties
<1>1. ASSUME NEW a \in Actors, Send(a) PROVE TypeOK'
  <2>1. Command(a) \in [from : Actors, cmd : {"id", "home", "stat"}]
    BY DEF Command
  <2>2. todo' \in Seq([from : Actors, cmd : {"id", "home", "stat"}])
    BY <1>1, <2>1 DEF Send, TypeOK
  <2>3. <<>> \in Seq(Token) /\ Len(<<>>) <= OutMax
    BY ShellAssumption
  <2> QED BY <1>1, <2>2, <2>3 DEF Send, TypeOK, Flush
<1>2. ASSUME NEW a \in Actors, Unsent(a) PROVE TypeOK'
  <2>3. <<>> \in Seq(Token) /\ Len(<<>>) <= OutMax
    BY ShellAssumption
  <2> QED BY <1>2, <2>3 DEF Unsent, TypeOK
<1>3. ASSUME NEW a \in Actors, Read(a) PROVE TypeOK'
  <2>1. /\ inbox' \in Seq(Token) /\ out' \in Seq(Token) /\ Len(out') <= OutMax
        /\ whole' = [whole EXCEPT ![a] = HasKey(out')]
        /\ pc' \in [Actors -> Steps]
    BY <1>3, ReadWhat DEF TypeOK, Steps
  <2>2. HasKey(out') \in BOOLEAN
    BY DEF HasKey
  <2> QED BY <1>3, <2>1, <2>2 DEF Read, TypeOK, Steps
<1>4. ASSUME NEW a \in Actors, Stop(a) PROVE TypeOK'
  BY <1>4 DEF Stop, TypeOK
<1>5. CASE MainGot
  <2>1. asked' \in 0 .. 2 /\ holder' = Nobody
    BY <1>5 DEF MainGot, ControlInv, TypeOK
  <2>2. pc' \in [Actors -> Steps]
    BY <1>5 DEF MainGot, TypeOK, Steps
  <2> QED BY <1>5, <2>1, <2>2 DEF MainGot, TypeOK, Steps
<1>6. ASSUME NEW t \in Threads, Open(t) \/ StatFails(t) PROVE TypeOK'
  <2>1. opens' \in [Threads -> 0 .. MaxOpens]
    <3>1. opens' = [opens EXCEPT ![t] = @ + 1] /\ opens[t] < MaxOpens
      BY <1>6 DEF Open, StatFails
    <3>2. opens[t] \in 0 .. MaxOpens /\ MaxOpens \in Nat
      BY ShellAssumption DEF TypeOK
    <3>3. opens[t] + 1 \in 0 .. MaxOpens
      BY <3>1, <3>2
    <3> QED BY <3>1, <3>3 DEF TypeOK
  <2>2. pc' \in [Actors -> Steps] /\ unsure' \subseteq Threads
    BY <1>0, <1>6 DEF Open, StatFails, TypeOK, Steps
  <2> QED BY <1>6, <2>1, <2>2 DEF Open, StatFails, TypeOK, Steps
<1>7. ASSUME NEW t \in Threads, Decide(t) PROVE TypeOK'
  <2>1. links' \in [Threads -> Nat]
    BY <1>7, NumbersRead DEF Decide, TypeOK
  <2>2. pc' \in [Actors -> Steps] /\ unsure' \subseteq Threads
    BY <1>0, <1>7 DEF Decide, TypeOK, Steps
  <2> QED BY <1>7, <2>1, <2>2 DEF Decide, TypeOK, Steps
<1>8. ASSUME NEW b \in Backups PROVE Moved(b) \in [Names -> Files \cup {NoFile}]
  BY <1>01 DEF Moved, TypeOK
<1>9. ASSUME NEW t \in Threads, Rename(t) \/ RenameFails(t) PROVE TypeOK'
  <2>1. file' = file \/ \E b \in Backups : file' = Moved(b)
    BY <1>9 DEF Rename, RenameFails
  <2>2. file' \in [Names -> Files \cup {NoFile}]
    BY <1>8, <2>1 DEF TypeOK
  <2>3. clash' = clash \/ \E b \in Backups : clash' = (clash \/ file[b] # NoFile)
    BY <1>9 DEF Rename, RenameFails
  <2>4. clash' \in BOOLEAN
    BY <2>3 DEF TypeOK
  <2>5. pc' \in [Actors -> Steps] /\ unsure' \subseteq Threads
    BY <1>0, <1>9 DEF Rename, RenameFails, TypeOK, Steps
  <2> QED BY <1>9, <2>2, <2>4, <2>5 DEF Rename, RenameFails, TypeOK, Steps
<1>10. ASSUME NEW t \in Threads, Create(t) \/ CreateFails(t) PROVE TypeOK'
  <2>1. opens[t] \in 1 .. MaxOpens /\ <<t, opens[t]>> \in Files
    <3>1. opens[t] > 0
      BY <1>10 DEF Create, CreateFails, ControlInv
    <3>2. opens[t] \in 1 .. MaxOpens
      BY <3>1, ShellAssumption DEF TypeOK
    <3> QED BY <3>2 DEF Files, Made
  <2>2. file' \in [Names -> Files \cup {NoFile}]
    BY <1>01, <1>10, <2>1 DEF Create, CreateFails, TypeOK
  <2>3. pc' \in [Actors -> Steps]
    BY <1>0, <1>10 DEF Create, CreateFails, TypeOK, Steps
  <2> QED BY <1>10, <2>2, <2>3 DEF Create, CreateFails, TypeOK, Steps
<1>11. ASSUME NEW t \in Threads, SftpOpen(t) PROVE TypeOK'
  <2>1. handle' \in [Threads -> Files \cup {NoFile}]
    BY <1>01, <1>11 DEF SftpOpen, TypeOK
  <2>2. pc' \in [Actors -> Steps]
    BY <1>0, <1>11 DEF SftpOpen, TypeOK, Steps
  <2> QED BY <1>11, <2>1, <2>2 DEF SftpOpen, TypeOK, Steps
<1>12. ASSUME NEW t \in Threads, Write(t) PROVE TypeOK'
  <2>1. handle' \in [Threads -> Files \cup {NoFile}] /\ data' \in [Files -> SUBSET Threads]
    BY <1>12 DEF Write, TypeOK
  <2>2. pc' \in [Actors -> Steps]
    BY <1>0, <1>12 DEF Write, TypeOK, Steps
  <2> QED BY <1>12, <2>1, <2>2 DEF Write, TypeOK, Steps
<1>13. CASE ShellRuns
  <2>1. wire' \in Seq(Token) /\ truth' \in [Actors -> Nat]
    BY <1>13, ShellRunsWhat, PrintedType DEF TypeOK
  <2>2. todo' \in Seq([from : Actors, cmd : {"id", "home", "stat"}])
    <3>1. todo \in Seq(Cmds) /\ todo # <<>> /\ todo' = Tail(todo)
      BY <1>13, ShellRunsWhat DEF TypeOK, Cmds
    <3>2. todo' \in Seq(Cmds)
      BY <3>1, HeadTailProperties
    <3> QED BY <3>2 DEF Cmds
  <2> QED BY <1>13, <2>1, <2>2 DEF ShellRuns, TypeOK
<1>14. CASE Arrive
  <2>1. inbox' \in Seq(Token) /\ wire' \in Seq(Token)
    BY <1>14, HeadTailProperties DEF Arrive, TypeOK
  <2> QED BY <1>14, <2>1 DEF Arrive, TypeOK
<1>15. CASE Drop
  <2>1. drops' \in 0 .. MaxDrops
    BY <1>15, ShellAssumption DEF Drop, TypeOK
  <2> QED BY <1>15, <2>1, EmptySeq DEF Drop, TypeOK
<1>16. CASE Reconnect
  <2>1. wire' \in Seq(Token)
    BY <1>16, NoiseType, EmptySeq DEF Reconnect
  <2> QED BY <1>16, <2>1, EmptySeq DEF Reconnect, TypeOK
<1>17. CASE UNCHANGED vars
  BY <1>17 DEF vars, TypeOK
<1> QED
  BY <1>1, <1>2, <1>3, <1>4, <1>5, <1>6, <1>7, <1>9, <1>10, <1>11, <1>12, <1>13, <1>14, <1>15,
     <1>16, <1>17
  DEF Next, Check, Take

\* Where the actors stand, after one of them moved.
LEMMA MoveControl ==
  ASSUME TypeOK, ControlInv, NEW t \in Threads, pc[t] \notin {"wait", "done"},
         NEW l \in Steps \ {"wait", "done"}, pc' = [pc EXCEPT ![t] = l],
         holder' = IF l \in {"read", "got"} THEN t ELSE IF holder = t THEN Nobody ELSE holder,
         l \in {"read", "got"} => holder \in {Nobody, t},
         opens' \in [Threads -> 0 .. MaxOpens],
         \A u \in Threads \ {t} : opens'[u] = opens[u] /\ handle'[u] = handle[u],
         l # "idle" => opens'[t] > 0, l = "write" => handle'[t] # NoFile,
         asked' = asked
  PROVE  ControlInv'
<1>0. /\ Threads \subseteq Actors /\ Main \in Actors /\ Main \notin Threads
      /\ Nobody \notin Actors /\ t # Main /\ t # Nobody
  BY ShellAssumption DEF Actors
<1>1. /\ pc'[t] = l /\ \A a \in Actors \ {t} : pc'[a] = pc[a]
  BY <1>0 DEF TypeOK
<1>2. pc[Main] = "done" /\ pc'[Main] = "done"
  BY <1>0, <1>1 DEF ControlInv
<1>3. \A a \in Actors : pc'[a] \in {"read", "got"} <=> holder' = a
  BY <1>0, <1>1 DEF ControlInv
<1>4. ASSUME NEW u \in Threads
      PROVE  /\ pc'[u] # "done"
             /\ pc'[u] \notin {"wait", "idle"} => opens'[u] > 0
             /\ pc'[u] = "write" => handle'[u] # NoFile
  BY <1>0, <1>1 DEF ControlInv
<1> QED BY <1>2, <1>3, <1>4 DEF ControlInv

\* Every step keeps lock, commands of main and threads in step.
LEMMA ControlStep == TypeOK /\ ControlInv /\ [Next]_vars => ControlInv'
<1> SUFFICES ASSUME TypeOK, ControlInv, [Next]_vars PROVE ControlInv' OBVIOUS
<1> USE DEF linkVars, shellVars, fileVars, ghostVars, Goto
<1>0. /\ Threads \subseteq Actors /\ Main \in Actors /\ Main \notin Threads
      /\ Nobody \notin Actors
      /\ \A a \in Actors : a = Main \/ a \in Threads
  BY ShellAssumption DEF Actors
<1>01. TypeOK'
  BY TypeStep
<1>02. opens \in [Threads -> 0 .. MaxOpens] /\ opens' \in [Threads -> 0 .. MaxOpens]
  BY <1>01 DEF TypeOK
<1>1. ASSUME NEW t \in Threads, Send(t) PROVE ControlInv'
  BY <1>0, <1>02, <1>1, MoveControl DEF Send, Steps, ControlInv
<1>2. ASSUME NEW t \in Threads, Unsent(t) PROVE ControlInv'
  BY <1>0, <1>02, <1>2, MoveControl DEF Unsent, Steps, ControlInv
<1>3. ASSUME NEW t \in Threads, Read(t) PROVE ControlInv'
  <2>1. PICK l \in {"read", "got"} : pc' = [pc EXCEPT ![t] = l]
    BY <1>0, <1>3, ReadWhat
  <2>2. pc[t] = "read" /\ UNCHANGED <<holder, handle, opens, asked>>
    BY <1>3 DEF Read
  <2>3. holder = t /\ opens[t] > 0 /\ l \in Steps \ {"wait", "done"}
    BY <1>0, <2>2 DEF ControlInv, Steps
  <2> QED BY <1>0, <1>02, <2>1, <2>2, <2>3, MoveControl
<1>4. ASSUME NEW t \in Threads, Stop(t) PROVE ControlInv'
  BY <1>0, <1>02, <1>4, MoveControl DEF Stop, Steps, ControlInv
<1>5. ASSUME Send(Main) \/ Unsent(Main) \/ Read(Main) \/ Stop(Main) PROVE ControlInv'
  <2>1. PICK l \in {"read", "got"} : pc' = [pc EXCEPT ![Main] = l]
    BY <1>0, <1>5, ReadWhat DEF Send, Unsent, Stop
  <2>2. holder \in {Nobody, Main} /\ holder' = Main /\ pc[Main] \in {"ask", "read"}
    BY <1>0, <1>5 DEF Send, Unsent, Stop, Read, ControlInv
  <2>3. UNCHANGED <<asked, opens, handle>>
    BY <1>5 DEF Send, Unsent, Stop, Read
  <2>4. pc'[Main] = l /\ \A a \in Actors \ {Main} : pc'[a] = pc[a]
    BY <1>0, <2>1 DEF TypeOK
  <2> QED BY <1>0, <2>2, <2>3, <2>4 DEF ControlInv
<1>6. CASE MainGot
  <2>1. holder = Main /\ holder' = Nobody /\ asked' = asked + 1 /\ asked \in {0, 1}
    BY <1>0, <1>6 DEF MainGot, ControlInv
  <2>2. UNCHANGED <<opens, handle>>
    BY <1>6 DEF MainGot
  <2>3. CASE asked = 0
    <3>1. pc'[Main] = "ask" /\ \A a \in Actors \ {Main} : pc'[a] = pc[a]
      BY <1>0, <1>6, <2>3 DEF MainGot, TypeOK
    <3> QED BY <1>0, <1>6, <2>1, <2>2, <2>3, <3>1 DEF ControlInv, MainGot
  <2>4. CASE asked = 1
    <3>1. pc'[Main] = "done" /\ \A a \in Actors \ {Main} : pc'[a] = "idle"
      BY <1>0, <1>6, <2>4 DEF MainGot, TypeOK
    <3> QED BY <1>0, <2>1, <2>2, <2>4, <3>1 DEF ControlInv
  <2> QED BY <2>1, <2>3, <2>4
<1>7. ASSUME NEW t \in Threads, Open(t) \/ StatFails(t) PROVE ControlInv'
  <2>1. PICK l \in {"open", "ask"} : pc' = [pc EXCEPT ![t] = l]
    BY <1>7 DEF Open, StatFails
  <2>2. /\ pc[t] = "idle" /\ opens' = [opens EXCEPT ![t] = @ + 1]
        /\ UNCHANGED <<holder, handle, asked>>
    BY <1>7 DEF Open, StatFails
  <2>3. opens'[t] > 0 /\ \A u \in Threads \ {t} : opens'[u] = opens[u]
    BY <1>02, <2>2
  <2>4. holder # t /\ l \in Steps \ {"wait", "done"}
    BY <1>0, <2>2 DEF ControlInv, Steps
  <2> QED BY <1>0, <1>02, <2>1, <2>2, <2>3, <2>4, MoveControl
<1>8. ASSUME NEW t \in Threads, Decide(t) PROVE ControlInv'
  <2>1. PICK l \in {"open", "rename"} : pc' = [pc EXCEPT ![t] = l]
    BY <1>8 DEF Decide
  <2>2. pc[t] = "got" /\ holder' = Nobody /\ UNCHANGED <<handle, opens, asked>>
    BY <1>8 DEF Decide
  <2>3. holder = t /\ opens[t] > 0 /\ l \in Steps \ {"wait", "done"}
    BY <1>0, <2>2 DEF ControlInv, Steps
  <2> QED BY <1>0, <1>02, <2>1, <2>2, <2>3, MoveControl
<1>9. ASSUME NEW t \in Threads,
             Rename(t) \/ RenameFails(t) \/ Create(t) \/ CreateFails(t)
      PROVE  ControlInv'
  <2>1. PICK l \in {"open", "create"} : pc' = [pc EXCEPT ![t] = l]
    BY <1>9 DEF Rename, RenameFails, Create, CreateFails
  <2>2. pc[t] \in {"rename", "create"} /\ UNCHANGED <<holder, handle, opens, asked>>
    BY <1>9 DEF Rename, RenameFails, Create, CreateFails
  <2>3. holder # t /\ opens[t] > 0 /\ l \in Steps \ {"wait", "done"}
    BY <1>0, <2>2 DEF ControlInv, Steps
  <2> QED BY <1>0, <1>02, <2>1, <2>2, <2>3, MoveControl
<1>10. ASSUME NEW t \in Threads, SftpOpen(t) PROVE ControlInv'
  <2>1. /\ pc' = [pc EXCEPT ![t] = IF file[Path] = NoFile THEN "idle" ELSE "write"]
        /\ handle' = [handle EXCEPT ![t] = file[Path]]
        /\ pc[t] = "open" /\ UNCHANGED <<holder, opens, asked>>
    BY <1>10 DEF SftpOpen
  <2>2. holder # t /\ opens[t] > 0
    BY <1>0, <2>1 DEF ControlInv
  <2>3. handle'[t] = file[Path] /\ \A u \in Threads \ {t} : handle'[u] = handle[u]
    BY <2>1 DEF TypeOK
  <2> QED BY <1>0, <1>02, <2>1, <2>2, <2>3, MoveControl DEF Steps
<1>11. ASSUME NEW t \in Threads, Write(t) PROVE ControlInv'
  <2>1. /\ pc' = [pc EXCEPT ![t] = "idle"]
        /\ handle' = [handle EXCEPT ![t] = NoFile]
        /\ pc[t] = "write" /\ UNCHANGED <<holder, opens, asked>>
    BY <1>11 DEF Write
  <2>2. holder # t
    BY <1>0, <2>1 DEF ControlInv
  <2>3. \A u \in Threads \ {t} : handle'[u] = handle[u]
    BY <2>1 DEF TypeOK
  <2> QED BY <1>0, <1>02, <2>1, <2>2, <2>3, MoveControl DEF Steps
<1>12. ASSUME UNCHANGED <<pc, holder, asked, opens, handle>> PROVE ControlInv'
  BY <1>12 DEF ControlInv
<1>13. CASE ShellRuns \/ Arrive \/ Drop \/ Reconnect \/ UNCHANGED vars
  BY <1>12, <1>13 DEF ShellRuns, Arrive, Drop, Reconnect, vars
<1> QED
  BY <1>0, <1>1, <1>2, <1>3, <1>4, <1>5, <1>6, <1>7, <1>8, <1>9, <1>10, <1>11, <1>13
  DEF Next, Check, Take

Named(f) == \E n \in Names : file[n] = f

\* What a step does to the names: nothing, move the path aside, or make it anew.
LEMMA FileSteps ==
  ASSUME TypeOK, ControlInv, [Next]_vars
  PROVE  \/ UNCHANGED <<file, clash>>
         \/ \E b \in Backups :
              /\ file[Path] # NoFile /\ file' = Moved(b)
              /\ clash' = (clash \/ file[b] # NoFile)
              /\ broken' \/ \E t \in Threads : pc'[t] = "create"
         \/ \E t \in Threads :
              /\ pc[t] = "create" /\ file[Path] = NoFile /\ UNCHANGED clash
              /\ file' = [file EXCEPT ![Path] = <<t, opens[t]>>] /\ <<t, opens[t]>> \in Made
<1> USE DEF linkVars, shellVars, fileVars, ghostVars, Goto
<1>1. ASSUME NEW t \in Threads, Rename(t), file[Path] # NoFile
      PROVE  \E b \in Backups :
              /\ file[Path] # NoFile /\ file' = Moved(b)
              /\ clash' = (clash \/ file[b] # NoFile)
              /\ \E u \in Threads : pc'[u] = "create"
  BY <1>1 DEF Rename, TypeOK, Actors
<1>2. ASSUME NEW t \in Threads, RenameFails(t), file' # file
      PROVE  \E b \in Backups :
              /\ file[Path] # NoFile /\ file' = Moved(b)
              /\ clash' = (clash \/ file[b] # NoFile) /\ broken'
  BY <1>2 DEF RenameFails, TypeOK
<1>3. ASSUME NEW t \in Threads, Create(t), file' # file
      PROVE  /\ pc[t] = "create" /\ file[Path] = NoFile /\ UNCHANGED clash
             /\ file' = [file EXCEPT ![Path] = <<t, opens[t]>>] /\ <<t, opens[t]>> \in Made
  <2>1. opens[t] > 0
    BY <1>3 DEF Create, ControlInv
  <2>2. <<t, opens[t]>> \in Made
    BY <2>1, ShellAssumption DEF Made, TypeOK
  <2> QED BY <1>3, <2>2 DEF Create
<1>4. ASSUME NEW t \in Threads,
             \/ Rename(t) /\ file[Path] = NoFile
             \/ RenameFails(t) /\ file' = file
             \/ Create(t) /\ file' = file
             \/ CreateFails(t) \/ Open(t) \/ StatFails(t) \/ Decide(t) \/ SftpOpen(t) \/ Write(t)
      PROVE  UNCHANGED <<file, clash>>
  BY <1>4
  DEF Rename, RenameFails, Create, CreateFails, Open, StatFails, Decide, SftpOpen, Write
<1>5. ASSUME NEW a \in Actors, Send(a) \/ Unsent(a) \/ Read(a) \/ Stop(a)
      PROVE  UNCHANGED <<file, clash>>
  BY <1>5 DEF Send, Unsent, Read, Stop
<1>6. CASE MainGot \/ ShellRuns \/ Arrive \/ Drop \/ Reconnect \/ UNCHANGED vars
  BY <1>6 DEF MainGot, ShellRuns, Arrive, Drop, Reconnect, vars
<1> QED BY <1>1, <1>2, <1>3, <1>4, <1>5, <1>6 DEF Next, Check, Take

\* While no two backups got the same name, a file that has a name keeps one.
LEMMA NamesKept ==
  ASSUME TypeOK, ControlInv, [Next]_vars, ~clash', NEW f \in Files, Named(f)
  PROVE  Named(f)'
<1>0. /\ Path \in Names /\ Backups \subseteq Names /\ Path \notin Backups
      /\ f # NoFile
  BY ShellAssumption DEF Names, Files, NoFile, Shared, Made
<1>1. CASE UNCHANGED file
  BY <1>1 DEF Named
<1>2. ASSUME NEW b \in Backups, file' = Moved(b), file[b] = NoFile PROVE Named(f)'
  <2>1. /\ file'[b] = file[Path] /\ file'[Path] = NoFile
        /\ \A n \in Names \ {b, Path} : file'[n] = file[n]
    BY <1>0, <1>2 DEF Moved, TypeOK
  <2> QED BY <1>0, <1>2, <2>1 DEF Named
<1>3. ASSUME NEW g, file[Path] = NoFile, file' = [file EXCEPT ![Path] = g] PROVE Named(f)'
  <2>1. \A n \in Names \ {Path} : file'[n] = file[n]
    BY <1>3 DEF TypeOK
  <2> QED BY <1>0, <1>3, <2>1 DEF Named
<1> QED BY <1>1, <1>2, <1>3, FileSteps

\* The steps that open and write, and that raise clash.
LEMMA HandleSteps ==
  ASSUME TypeOK, ControlInv, [Next]_vars
  PROVE  /\ clash => clash'
         /\ \A t \in Threads :
              \/ handle'[t] \in {handle[t], NoFile}
              \/ handle'[t] = file[Path] /\ pc[t] = "open" /\ UNCHANGED <<file, unsure>>
         /\ \/ UNCHANGED data
            \/ \E t \in Threads :
                 /\ pc[t] = "write" /\ data' = [data EXCEPT ![handle[t]] = @ \cup {t}]
                 /\ UNCHANGED <<file, unsure>>
<1> USE DEF linkVars, shellVars, fileVars, ghostVars
<1>1. ASSUME NEW t \in Threads, SftpOpen(t)
      PROVE  /\ UNCHANGED <<clash, data, file, unsure>> /\ pc[t] = "open"
             /\ handle'[t] = file[Path] /\ \A u \in Threads \ {t} : handle'[u] = handle[u]
  BY <1>1 DEF SftpOpen, TypeOK
<1>2. ASSUME NEW t \in Threads, Write(t)
      PROVE  /\ UNCHANGED <<clash, file, unsure>> /\ pc[t] = "write"
             /\ data' = [data EXCEPT ![handle[t]] = @ \cup {t}]
             /\ handle'[t] = NoFile /\ \A u \in Threads \ {t} : handle'[u] = handle[u]
  BY <1>2 DEF Write, TypeOK
<1>3. ASSUME NEW t \in Threads,
             \/ Rename(t) \/ RenameFails(t) \/ Create(t) \/ CreateFails(t)
             \/ Open(t) \/ StatFails(t) \/ Decide(t)
      PROVE  UNCHANGED <<data, handle>>
  BY <1>3 DEF Rename, RenameFails, Create, CreateFails, Open, StatFails, Decide
<1>4. ASSUME NEW a \in Actors, Send(a) \/ Unsent(a) \/ Read(a) \/ Stop(a)
      PROVE  UNCHANGED <<data, handle, clash>>
  BY <1>4 DEF Send, Unsent, Read, Stop
<1>5. ASSUME MainGot \/ ShellRuns \/ Arrive \/ Drop \/ Reconnect \/ UNCHANGED vars
      PROVE  UNCHANGED <<data, handle, clash>>
  BY <1>5 DEF MainGot, ShellRuns, Arrive, Drop, Reconnect, vars
<1>6. clash => clash'
  BY FileSteps
<1>7. ASSUME NEW t \in Threads, SftpOpen(t) \/ Write(t)
      PROVE  /\ \A u \in Threads :
                  \/ handle'[u] \in {handle[u], NoFile}
                  \/ handle'[u] = file[Path] /\ pc[u] = "open" /\ UNCHANGED <<file, unsure>>
             /\ \/ UNCHANGED data
                \/ \E u \in Threads :
                     /\ pc[u] = "write" /\ data' = [data EXCEPT ![handle[u]] = @ \cup {u}]
                     /\ UNCHANGED <<file, unsure>>
  BY <1>1, <1>2, <1>7
<1>8. UNCHANGED <<data, handle>> \/ \E t \in Threads : SftpOpen(t) \/ Write(t)
  BY <1>3, <1>4, <1>5 DEF Next, Check, Take
<1> QED BY <1>6, <1>7, <1>8

\* Every step leaves what is open or written a name.
LEMMA NamedStep ==
  TypeOK /\ ControlInv /\ OpenNamed /\ DataNamed /\ [Next]_vars => OpenNamed' /\ DataNamed'
<1> SUFFICES ASSUME TypeOK, ControlInv, OpenNamed, DataNamed, [Next]_vars, ~clash'
             PROVE  /\ \A t \in Threads : handle'[t] # NoFile => Named(handle[t])'
                    /\ \A f \in Files : data'[f] # {} => Named(f)'
  BY DEF OpenNamed, DataNamed, Named
<1>1. ~clash /\ \A t \in Threads : handle[t] # NoFile => handle[t] \in Files /\ Named(handle[t])
  BY HandleSteps DEF OpenNamed, Named, TypeOK
<1>2. \A f \in Files : Named(f) => Named(f)'
  BY NamesKept
<1>3. ASSUME NEW t \in Threads, handle'[t] # NoFile PROVE Named(handle[t])'
  <2>1. CASE handle'[t] = handle[t]
    <3>1. handle[t] \in Files /\ Named(handle[t])
      BY <1>1, <1>3, <2>1
    <3>2. \E n \in Names : file'[n] = handle[t]
      BY <1>2, <3>1 DEF Named
    <3> QED BY <2>1, <3>2 DEF Named
  <2>2. CASE handle'[t] = file[Path] /\ UNCHANGED file
    BY <2>2 DEF Named, Names
  <2> QED BY <1>3, <2>1, <2>2, HandleSteps
<1>4. ASSUME NEW f \in Files, data'[f] # {} PROVE Named(f)'
  <2>1. CASE data[f] # {}
    BY <1>1, <1>2, <2>1 DEF DataNamed, Named
  <2>2. ASSUME NEW t \in Threads, pc[t] = "write", f = handle[t] PROVE Named(f)'
    BY <1>1, <1>2, <2>2 DEF ControlInv
  <2>3. CASE data[f] = {}
    <3>1. PICK t \in Threads : pc[t] = "write" /\ data' = [data EXCEPT ![handle[t]] = @ \cup {t}]
      BY <1>4, <2>3, HandleSteps
    <3>2. f = handle[t]
      BY <1>4, <2>3, <3>1 DEF TypeOK
    <3> QED BY <2>2, <3>1, <3>2
  <2> QED BY <2>1, <2>3
<1> QED BY <1>3, <1>4

\* Every step keeps the path, but between rename and create.
LEMMA PathStep == TypeOK /\ ControlInv /\ PathBack /\ [Next]_vars => PathBack'
<1> SUFFICES ASSUME TypeOK, ControlInv, PathBack, [Next]_vars PROVE PathBack' OBVIOUS
<1>0. /\ Path \in Names /\ Path \notin Backups /\ Threads \subseteq Actors /\ Main \notin Threads
      /\ NoFile \notin Made
  BY ShellAssumption DEF Names, Actors, Made, NoFile
<1>1. ASSUME NEW t \in Threads, pc[t] = "create"
      PROVE  pc'[t] = "create" \/ broken' \/ file'[Path] # NoFile
  <2> USE DEF linkVars, shellVars, fileVars, ghostVars, Goto
  <2>1. pc[Main] = "done"
    BY <1>1 DEF ControlInv
  <2>2. CASE Create(t)
    <3>1. opens[t] > 0
      BY <1>1 DEF ControlInv
    <3>2. <<t, opens[t]>> # NoFile
      BY ShellAssumption DEF NoFile
    <3> QED BY <1>0, <2>2, <3>2 DEF Create, TypeOK
  <2>3. CASE CreateFails(t)
    BY <2>3 DEF CreateFails
  <2>4. ASSUME NEW u \in Threads \ {t},
               \/ Rename(u) \/ RenameFails(u) \/ Create(u) \/ CreateFails(u)
               \/ Open(u) \/ StatFails(u) \/ Decide(u) \/ SftpOpen(u) \/ Write(u)
        PROVE  pc'[t] = pc[t]
    <3>1. \E l : pc' = [pc EXCEPT ![u] = l]
      BY <2>4
      DEF Rename, RenameFails, Create, CreateFails, Open, StatFails, Decide, SftpOpen, Write
    <3> QED BY <3>1 DEF TypeOK, Actors
  <2>5. ASSUME \/ Rename(t) \/ RenameFails(t) \/ Open(t) \/ StatFails(t) \/ Decide(t)
               \/ SftpOpen(t) \/ Write(t)
        PROVE  FALSE
    BY <1>1, <2>5 DEF Rename, RenameFails, Open, StatFails, Decide, SftpOpen, Write
  <2>6. ASSUME NEW a \in Actors, Send(a) \/ Unsent(a) \/ Read(a) \/ Stop(a)
        PROVE  pc'[t] = pc[t]
    <3>1. a # t /\ \E l : pc' = [pc EXCEPT ![a] = l]
      BY <1>1, <2>6 DEF Send, Unsent, Read, Stop
    <3> QED BY <3>1 DEF TypeOK, Actors
  <2>7. ASSUME ShellRuns \/ Arrive \/ Drop \/ Reconnect \/ UNCHANGED vars PROVE pc' = pc
    BY <2>7 DEF ShellRuns, Arrive, Drop, Reconnect, vars
  <2>8. ~MainGot
    BY <2>1 DEF MainGot
  <2> QED BY <1>1, <2>2, <2>3, <2>4, <2>5, <2>6, <2>7, <2>8 DEF Next, Check, Take
<1>2. broken => broken'
  <2> USE DEF linkVars, shellVars, fileVars, ghostVars
  <2>1. ASSUME NEW t \in Threads,
               \/ Rename(t) \/ RenameFails(t) \/ Create(t) \/ CreateFails(t)
               \/ Open(t) \/ StatFails(t) \/ Decide(t) \/ SftpOpen(t) \/ Write(t)
        PROVE  broken => broken'
    BY <2>1
    DEF Rename, RenameFails, Create, CreateFails, Open, StatFails, Decide, SftpOpen, Write
  <2>2. ASSUME NEW a \in Actors, Send(a) \/ Unsent(a) \/ Read(a) \/ Stop(a)
        PROVE  broken => broken'
    BY <2>2 DEF Send, Unsent, Read, Stop
  <2>3. ASSUME MainGot \/ ShellRuns \/ Arrive \/ Drop \/ Reconnect \/ UNCHANGED vars
        PROVE  broken => broken'
    BY <2>3 DEF MainGot, ShellRuns, Arrive, Drop, Reconnect, vars
  <2> QED BY <2>1, <2>2, <2>3 DEF Next, Check, Take
<1>3. CASE file[Path] # NoFile
  <2>1. ASSUME NEW t \in Threads, pc'[t] = "create" PROVE PathBack'
    BY <2>1 DEF PathBack
  <2>2. CASE UNCHANGED file
    BY <1>3, <2>2 DEF PathBack
  <2> QED BY <1>3, <2>1, <2>2, FileSteps DEF PathBack
<1> QED BY <1>1, <1>2, <1>3 DEF PathBack

\* A piece of a sequence of the shell's output: its length and its elements.
LEMMA Piece ==
  ASSUME NEW A \in Seq(Token), NEW m \in Int, NEW n \in Int, 1 <= m, n <= Len(A)
  PROVE  /\ SubSeq(A, m, n) \in Seq(Token)
         /\ Len(SubSeq(A, m, n)) = IF m <= n THEN n - m + 1 ELSE 0
         /\ \A x \in 1 .. n - m + 1 : SubSeq(A, m, n)[x] = A[m + x - 1]
<1>1. \A x \in 1 .. Len(A) : A[x] \in Token
  BY ElementOfSeq
<1>2. \A x \in m .. n : A[x] \in Token
  BY <1>1, LenProperties
<1> QED BY <1>2, SubSeqProperties

\* A piece of a sequence that moves from one queue to the next.
LEMMA MoveOn ==
  ASSUME NEW A \in Seq(Token), NEW i \in Nat, NEW j \in Nat, NEW k \in Nat,
         i <= j, j < k, k <= Len(A)
  PROVE  /\ Append(SubSeq(A, i + 1, j), Head(SubSeq(A, j + 1, k))) = SubSeq(A, i + 1, j + 1)
         /\ Tail(SubSeq(A, j + 1, k)) = SubSeq(A, j + 2, k)
<1>0. Len(A) \in Nat /\ (j + 1) + 1 = j + 2
  BY LenProperties
<1>1. j + 1 \in 1 .. Len(A) /\ k \in j + 1 .. Len(A)
  BY <1>0
<1>2. Head(SubSeq(A, j + 1, k)) = A[j + 1] /\ Tail(SubSeq(A, j + 1, k)) = SubSeq(A, j + 2, k)
  BY <1>0, <1>1, HeadTailOfSubSeq
<1>3. \A x \in 1 .. Len(A) : A[x] \in Token
  BY ElementOfSeq
<1> DEFINE P == SubSeq(A, i + 1, j)
           Q == SubSeq(A, i + 1, j + 1)
<1>4. /\ P \in Seq(Token) /\ Len(P) = j - i
      /\ \A x \in 1 .. j - i : P[x] = A[i + x]
  <2>1. i + 1 \in Int /\ j \in Int /\ 1 <= i + 1 /\ j <= Len(A)
    BY <1>0
  <2>2. /\ P \in Seq(Token) /\ Len(P) = IF i + 1 <= j THEN j - (i + 1) + 1 ELSE 0
        /\ \A x \in 1 .. j - (i + 1) + 1 : P[x] = A[(i + 1) + x - 1]
    BY <2>1, Piece
  <2>3. j - (i + 1) + 1 = j - i /\ \A x \in 1 .. j - i : (i + 1) + x - 1 = i + x
    OBVIOUS
  <2> HIDE DEF P
  <2> QED BY <2>2, <2>3
<1>5. /\ Q \in Seq(Token) /\ Len(Q) = j - i + 1
      /\ \A x \in 1 .. j - i + 1 : Q[x] = A[i + x]
  <2>1. i + 1 \in Int /\ j + 1 \in Int /\ 1 <= i + 1 /\ j + 1 <= Len(A)
    BY <1>0
  <2>2. /\ Q \in Seq(Token) /\ Len(Q) = IF i + 1 <= j + 1 THEN (j + 1) - (i + 1) + 1 ELSE 0
        /\ \A x \in 1 .. (j + 1) - (i + 1) + 1 : Q[x] = A[(i + 1) + x - 1]
    BY <2>1, Piece
  <2>3. (j + 1) - (i + 1) + 1 = j - i + 1 /\ \A x \in 1 .. j - i + 1 : (i + 1) + x - 1 = i + x
    OBVIOUS
  <2> HIDE DEF Q
  <2> QED BY <2>2, <2>3
<1> HIDE DEF P, Q
<1>6. Append(P, A[j + 1]) = Q
  <2> DEFINE R == Append(P, A[j + 1])
  <2>1. /\ R \in Seq(Token) /\ Len(R) = j - i + 1
        /\ \A x \in 1 .. j - i + 1 : R[x] = IF x <= j - i THEN P[x] ELSE A[j + 1]
    BY <1>1, <1>3, <1>4
  <2>2. ASSUME NEW x \in 1 .. j - i + 1 PROVE R[x] = Q[x]
    <3>1. R[x] = IF x <= j - i THEN P[x] ELSE A[j + 1]
      BY <2>1
    <3>2. Q[x] = A[i + x]
      BY <1>5
    <3>3. CASE x <= j - i
      BY <1>4, <3>1, <3>2, <3>3
    <3>4. CASE x = j - i + 1
      <4>1. i + x = j + 1 /\ ~(x <= j - i)
        BY <3>4
      <4> QED BY <3>1, <3>2, <4>1
    <3>5. x <= j - i \/ x = j - i + 1
      OBVIOUS
    <3> QED BY <3>3, <3>4, <3>5
  <2> HIDE DEF R
  <2>3. R = Q
    BY <1>5, <2>1, <2>2, SeqEqual
  <2> QED BY <2>3 DEF R
<1> QED BY <1>2, <1>6 DEF P, Q

\* A piece of a sequence that is read: f tokens kept of the n taken.
LEMMA TakeFrom ==
  ASSUME NEW A \in Seq(Token), NEW i \in Nat, NEW j \in Nat, i <= j, j <= Len(A),
         NEW n \in Nat, NEW f \in Nat, f <= n, 1 <= n, n <= j - i
  PROVE  /\ SubSeq(A, 1, i) \o SubSeq(SubSeq(A, i + 1, j), 1, f) = SubSeq(A, 1, i + f)
         /\ SubSeq(SubSeq(A, i + 1, j), n + 1, j - i) = SubSeq(A, i + n + 1, j)
<1>0. /\ Len(A) \in Nat /\ i + 1 \in 1 .. Len(A) /\ j \in 1 .. Len(A)
      /\ j - (i + 1) + 1 = j - i
  BY LenProperties
<1>1. SubSeq(SubSeq(A, i + 1, j), 1, f) = SubSeq(A, i + 1, i + f)
  <2>1. CASE f = 0
    BY <2>1, SubSeqEmpty
  <2>2. CASE f > 0
    <3>1. 1 \in 1 .. j - (i + 1) + 1 /\ f \in 1 .. j - (i + 1) + 1
      BY <2>2
    <3>2. (i + 1) + 1 - 1 = i + 1 /\ (i + 1) + f - 1 = i + f
      OBVIOUS
    <3>3. SubSeq(SubSeq(A, i + 1, j), 1, f) = SubSeq(A, (i + 1) + 1 - 1, (i + 1) + f - 1)
      BY <1>0, <3>1, SubSeqOfSubSeq
    <3> QED BY <3>2, <3>3
  <2> QED BY <2>1, <2>2
<1>2. SubSeq(A, 1, i) \o SubSeq(A, i + 1, i + f) = SubSeq(A, 1, i + f)
  <2>1. 1 \in 1 .. Len(A) + 1 /\ i \in 1 - 1 .. Len(A) /\ i + f \in i .. Len(A)
    BY <1>0
  <2> QED BY <2>1, ConcatAdjacentSubSeq
<1>3. SubSeq(SubSeq(A, i + 1, j), n + 1, j - i) = SubSeq(A, i + n + 1, j)
  <2>1. CASE n = j - i
    <3>1. i + n + 1 > j /\ n + 1 > j - i
      BY <2>1
    <3> QED BY <3>1, SubSeqEmpty
  <2>2. CASE n < j - i
    <3>1. n + 1 \in 1 .. j - (i + 1) + 1 /\ j - i \in 1 .. j - (i + 1) + 1
      BY <2>2
    <3>2. (i + 1) + (n + 1) - 1 = i + n + 1 /\ (i + 1) + (j - i) - 1 = j
      OBVIOUS
    <3>3. SubSeq(SubSeq(A, i + 1, j), n + 1, j - i)
            = SubSeq(A, (i + 1) + (n + 1) - 1, (i + 1) + (j - i) - 1)
      BY <1>0, <3>1, SubSeqOfSubSeq
    <3> QED BY <3>2, <3>3
  <2> QED BY <2>1, <2>2
<1> QED BY <1>1, <1>2, <1>3

\* The tokens of an answer, and what they are taken for.
LEMMA AnswerWhat ==
  ASSUME NEW v \in Nat
  PROVE  /\ Answer(v) \in Seq(Token)
         /\ Answer(v) = IF v = 0 THEN <<Tok("key", 0), Tok("code", 1)>>
                        ELSE <<Tok("num", v), Tok("key", 0), Tok("code", 0)>>
<1>1. Answer(v) \in Seq(Token)
  BY TokType, ConcatProperties DEF Answer
<1>2. <<Tok("num", v)>> \o <<Tok("key", 0), Tok("code", 0)>>
        = <<Tok("num", v), Tok("key", 0), Tok("code", 0)>>
  <2> DEFINE a == Tok("num", v)
             b == Tok("key", 0)
             c == Tok("code", 0)
             s == <<a>> \o <<b, c>>
             u == <<a, b, c>>
  <2>1. a \in Token /\ b \in Token /\ c \in Token
    BY DEF Tok, Token
  <2> HIDE DEF a, b, c
  <2>2. <<a>> \in Seq(Token) /\ <<b, c>> \in Seq(Token) /\ u \in Seq(Token)
    BY <2>1
  <2>3. /\ s \in Seq(Token) /\ Len(s) = Len(<<a>>) + Len(<<b, c>>)
        /\ \A i \in 1 .. Len(<<a>>) + Len(<<b, c>>) :
             s[i] = IF i <= Len(<<a>>) THEN <<a>>[i] ELSE <<b, c>>[i - Len(<<a>>)]
    BY <2>2, ConcatProperties
  <2>4. Len(<<a>>) = 1 /\ Len(<<b, c>>) = 2 /\ Len(u) = 3
    OBVIOUS
  <2> HIDE DEF s
  <2>5. s[1] = <<a>>[1] /\ s[2] = <<b, c>>[2 - 1] /\ s[3] = <<b, c>>[3 - 1] /\ Len(s) = 3
    BY <2>3, <2>4
  <2>6. s[1] = u[1] /\ s[2] = u[2] /\ s[3] = u[3]
    BY <2>5
  <2>7. \A i \in 1 .. Len(s) : s[i] = u[i]
    BY <2>5, <2>6
  <2> HIDE DEF u
  <2>8. s = u
    BY <2>2, <2>3, <2>4, <2>5, <2>7, SeqEqual
  <2> QED BY <2>8 DEF s, u, a, b, c
<1> QED BY <1>1, <1>2 DEF Answer, Sentinel

\* What was read of an answer, once the sentinel is in it, gives the count.
LEMMA CountRead ==
  ASSUME NEW v \in Nat, NEW m \in 0 .. Len(Answer(v)), NEW s, s = SubSeq(Answer(v), 1, m),
         HasKey(s)
  PROVE  CountIn(s) = v
<1> DEFINE A == Answer(v)
<1>1. /\ Len(A) = IF v = 0 THEN 2 ELSE 3
      /\ v = 0 => A[1] = Tok("key", 0) /\ A[2] = Tok("code", 1)
      /\ v # 0 => A[1] = Tok("num", v) /\ A[2] = Tok("key", 0) /\ A[3] = Tok("code", 0)
  <2>1. CASE v = 0
    BY <2>1, AnswerWhat
  <2>2. CASE v # 0
    BY <2>2, AnswerWhat
  <2> QED BY <2>1, <2>2
<1>2. A \in Seq(Token)
  BY AnswerWhat
<1> HIDE DEF A
<1>3. m \in Nat /\ m <= Len(A) /\ \A x \in 1 .. m : A[x] \in Token
  BY <1>1, <1>2, ElementOfSeq DEF A
<1>4. s \in Seq(Token) /\ Len(s) = m /\ \A x \in 1 .. m : s[x] = A[x]
  <2>1. /\ s \in Seq(Token) /\ Len(s) = IF 1 <= m THEN m - 1 + 1 ELSE 0
        /\ \A x \in 1 .. m - 1 + 1 : s[x] = A[1 + x - 1]
    BY <1>3, SubSeqProperties DEF A
  <2>2. m - 1 + 1 = m /\ \A x \in 1 .. m : 1 + x - 1 = x
    BY <1>3
  <2> QED BY <1>3, <2>1, <2>2
<1>5. PICK p \in 1 .. m : s[p].kind = "key"
  <2>1. DOMAIN s = 1 .. m
    BY <1>4, LenProperties
  <2> QED BY <2>1 DEF HasKey
<1>6. /\ LastKey(s) \in 1 .. m /\ s[LastKey(s)].kind = "key" /\ p <= LastKey(s)
  <2>1. /\ LastKey(s) \in 0 .. m
        /\ LastKey(s) = 0 => \A i \in 1 .. m : s[i].kind # "key"
        /\ LastKey(s) # 0 => /\ s[LastKey(s)].kind = "key"
                             /\ \A i \in 1 .. m : i > LastKey(s) => s[i].kind # "key"
    BY <1>4, LastKeyWhat
  <2>2. LastKey(s) # 0
    BY <1>5, <2>1
  <2>3. ~(p > LastKey(s))
    BY <1>5, <2>1, <2>2
  <2> QED BY <1>3, <2>1, <2>2, <2>3
<1>7. /\ Tok("key", 0).kind = "key" /\ Tok("code", 1).kind = "code" /\ Tok("num", v).kind = "num"
      /\ Tok("code", 0).kind = "code" /\ Tok("num", v).val = v /\ Tok("code", 0).val = 0
      /\ Tok("code", 1).val = 1
  BY DEF Tok
<1>8. extract_rcode(s) =
        IF LastKey(s) # 0 /\ LastKey(s) < Len(s) /\ s[LastKey(s) + 1].kind = "code"
        THEN s[LastKey(s) + 1].val ELSE 0
  BY DEF extract_rcode, LastKey, SelectLastInSeq
<1>9. atoi(s) = IF s = <<>> \/ LastKey(s) = 1 \/ s[1].kind \notin {"num", "code"} THEN 0
                ELSE s[1].val
  BY DEF atoi, LastKey, SelectLastInSeq
<1>10. CASE v = 0
  <2>1. LastKey(s) = 1
    BY <1>1, <1>3, <1>4, <1>6, <1>7, <1>10
  <2>2. atoi(s) = 0
    BY <1>9, <2>1
  <2> QED BY <1>10, <2>2 DEF CountIn
<1>11. CASE v # 0
  <2>1. LastKey(s) = 2 /\ 2 <= m /\ m <= 3
    BY <1>1, <1>3, <1>4, <1>6, <1>7, <1>11
  <2>2. extract_rcode(s) = 0
    BY <1>1, <1>4, <1>7, <1>8, <1>11, <2>1
  <2>3. s # <<>>
    BY <1>4, <2>1, EmptySeq
  <2>4. s[1] = Tok("num", v)
    BY <1>1, <1>4, <1>11, <2>1
  <2>5. atoi(s) = v
    BY <1>7, <1>9, <2>1, <2>3, <2>4
  <2> QED BY <2>2, <2>5 DEF CountIn
<1> QED BY <1>10, <1>11

\* No step joins what is separated, and the other name stays.
LEMMA SeparateStep ==
  ASSUME TypeOK, ControlInv, SureInv, [Next]_vars
  PROVE  /\ file'[Other] = file[Other]
         /\ Separated => Separated'
         /\ file[Path] = NoFile => Separated
         /\ file'[Path] = NoFile => Separated'
<1>0. /\ Path \in Names /\ Other \in Names /\ Backups \subseteq Names /\ Path \notin Backups
      /\ Other \notin Backups /\ Path # Other
      /\ Shared \notin Made /\ Shared # NoFile /\ NoFile \notin Made
  BY ShellAssumption DEF Names, Made, Shared, NoFile
<1>1. file[Other] \in {Shared, NoFile}
  BY DEF SureInv
<1>2. CASE UNCHANGED file
  BY <1>1, <1>2 DEF Separated
<1>3. ASSUME NEW b \in Backups, file' = Moved(b)
      PROVE  file'[Path] = NoFile /\ file'[Other] = file[Other]
  BY <1>0, <1>3 DEF Moved, TypeOK
<1>4. ASSUME NEW g \in Made, file' = [file EXCEPT ![Path] = g]
      PROVE  file'[Path] = g /\ file'[Other] = file[Other]
  BY <1>0, <1>4 DEF TypeOK
<1> QED BY <1>0, <1>1, <1>2, <1>3, <1>4, FileSteps DEF Separated

\* A thread that does not read keeps what it knows.
LEMMA AnswerSame ==
  ASSUME NEW t, AnswerOf(t), pc'[t] \notin {"read", "got"}, pc[t] \notin {"read", "got"},
         quiet'[t] = quiet[t], whole'[t] = whole[t], links'[t] = links[t], truth'[t] = truth[t],
         Separated => Separated',
         \A i \in DOMAIN todo' : todo'[i].from # t \/ \E j \in DOMAIN todo : todo[j] = todo'[i]
  PROVE  AnswerOf(t)'
  BY DEF AnswerOf, Settled

\* The answer on its way in, whoever reads the socket.
LEMMA ArriveStep ==
  ASSUME TypeOK, Arrive, NEW t \in Threads, AnswerOf(t), pc[t] = "read", quiet[t],
         Separated => Separated'
  PROVE  AnswerOf(t)'
<1>1. /\ wire # <<>> /\ inbox' = Append(inbox, Head(wire)) /\ wire' = Tail(wire)
      /\ UNCHANGED <<pc, quiet, whole, truth, todo, out, links>>
  BY DEF Arrive, shellVars, ghostVars
<1>2. ~Waiting(t)
  BY <1>1 DEF Waiting
<1>3. ~whole[t] /\ ~HasKey(out)
  BY DEF AnswerOf
<1>4. CASE todo = <<>> /\ Len(out) = OutMax
  BY <1>1, <1>3, <1>4 DEF AnswerOf, HasKey
<1>5. CASE Coming(t)
  <2> DEFINE A == Answer(truth[t])
  <2>0. A \in Seq(Token) /\ Len(A) \in Nat
    <3>1. truth[t] \in Nat
      BY DEF TypeOK, Actors
    <3> QED BY <3>1, AnswerWhat, LenProperties
  <2>01. PICK k \in 0 .. Len(A) : \E jj \in 0 .. k : \E ii \in 0 .. jj :
          out = SubSeq(A, 1, ii) /\ inbox = SubSeq(A, ii + 1, jj) /\ wire = SubSeq(A, jj + 1, k)
    BY <1>5 DEF Coming
  <2>02. PICK j \in 0 .. k : \E ii \in 0 .. j :
          out = SubSeq(A, 1, ii) /\ inbox = SubSeq(A, ii + 1, j) /\ wire = SubSeq(A, j + 1, k)
    BY <2>01
  <2>1. PICK i \in 0 .. j :
          out = SubSeq(A, 1, i) /\ inbox = SubSeq(A, i + 1, j) /\ wire = SubSeq(A, j + 1, k)
    BY <2>02
  <2> HIDE DEF A
  <2>2. /\ i \in Nat /\ j \in Nat /\ k \in Nat /\ i <= j /\ j <= k /\ k <= Len(A)
    BY <2>0, <2>1
  <2>3. j < k
    BY <1>1, <2>1, <2>2, SubSeqEmpty
  <2>4. inbox' = SubSeq(A, i + 1, j + 1) /\ wire' = SubSeq(A, j + 2, k) /\ (j + 1) + 1 = j + 2
    <3>1. /\ Append(SubSeq(A, i + 1, j), Head(SubSeq(A, j + 1, k))) = SubSeq(A, i + 1, j + 1)
          /\ Tail(SubSeq(A, j + 1, k)) = SubSeq(A, j + 2, k)
      BY <2>0, <2>2, <2>3, MoveOn
    <3>2. inbox' = Append(SubSeq(A, i + 1, j), Head(SubSeq(A, j + 1, k)))
      BY <1>1, <2>1
    <3>3. wire' = Tail(SubSeq(A, j + 1, k))
      BY <1>1, <2>1
    <3>4. inbox' = SubSeq(A, i + 1, j + 1) /\ wire' = SubSeq(A, j + 2, k)
      BY <3>1, <3>2, <3>3, Zenon
    <3>5. (j + 1) + 1 = j + 2
      BY <2>2
    <3> QED BY <3>4, <3>5
  <2>5. A' = A
    BY <1>1 DEF A, Answer, Sentinel, Tok
  <2>6. k \in 0 .. Len(A) /\ j + 1 \in 0 .. k /\ i \in 0 .. j + 1
    BY <2>0, <2>2, <2>3
  <2>7. Coming(t)'
    <3>1. \E kk \in 0 .. Len(A) : \E jj \in 0 .. kk : \E ii \in 0 .. jj :
            /\ out' = SubSeq(A, 1, ii) /\ inbox' = SubSeq(A, ii + 1, jj)
            /\ wire' = SubSeq(A, jj + 1, kk)
      BY <1>1, <2>1, <2>4, <2>6
    <3>2. todo' = <<>> /\ Settled(t)'
      BY <1>1, <1>5 DEF Coming, Settled
    <3> QED BY <2>5, <3>1, <3>2 DEF Coming, A
  <2> QED BY <1>1, <1>3, <2>7 DEF AnswerOf, HasKey
<1> QED BY <1>2, <1>4, <1>5 DEF AnswerOf

\* The reader takes what arrived into its buffer.
LEMMA ReadStep ==
  ASSUME TypeOK, NEW t \in Threads, Read(t), AnswerOf(t), Separated => Separated'
  PROVE  AnswerOf(t)'
<1>0. t \in Actors /\ truth[t] \in Nat /\ OutMax \in Nat
  BY ShellAssumption DEF TypeOK, Actors
<1>1. /\ pc[t] = "read" /\ inbox # <<>>
      /\ UNCHANGED <<quiet, truth, todo, wire, links>>
  BY DEF Read
<1>2. PICK n \in 1 .. Len(inbox), f \in Nat :
           /\ f = IF n <= OutMax - Len(out) THEN n ELSE OutMax - Len(out)
           /\ inbox' = SubSeq(inbox, n + 1, Len(inbox))
           /\ out' = out \o SubSeq(inbox, 1, f) /\ out' \in Seq(Token) /\ Len(out') = Len(out) + f
           /\ whole' = [whole EXCEPT ![t] = HasKey(out')]
           /\ pc' = [pc EXCEPT ![t] = IF f = 0 \/ HasKey(out') THEN "got" ELSE "read"]
  <2>1. PICK n \in 1 .. Len(inbox), f \in Nat :
           /\ f = IF n <= OutMax - Len(out) THEN n ELSE OutMax - Len(out)
           /\ LET got == out \o SubSeq(inbox, 1, f) IN
              /\ inbox' = SubSeq(inbox, n + 1, Len(inbox)) /\ inbox' \in Seq(Token)
              /\ out' = got /\ got \in Seq(Token) /\ Len(got) = Len(out) + f
              /\ Len(got) <= OutMax
              /\ whole' = [whole EXCEPT ![t] = HasKey(got)]
              /\ pc' = [pc EXCEPT ![t] = IF f = 0 \/ HasKey(got) THEN "got" ELSE "read"]
    BY <1>0, ReadWhat
  <2> DEFINE got == out \o SubSeq(inbox, 1, f)
  <2>2. out' = got
    BY <2>1
  <2>3. whole' = [whole EXCEPT ![t] = HasKey(got)] /\ Len(got) = Len(out) + f /\ got \in Seq(Token)
    BY <2>1
  <2>4. pc' = [pc EXCEPT ![t] = IF f = 0 \/ HasKey(got) THEN "got" ELSE "read"]
    BY <2>1
  <2>5. HasKey(got) = HasKey(out')
    BY <2>2
  <2> HIDE DEF got
  <2>6. /\ whole' = [whole EXCEPT ![t] = HasKey(out')]
        /\ pc' = [pc EXCEPT ![t] = IF f = 0 \/ HasKey(out') THEN "got" ELSE "read"]
        /\ Len(out') = Len(out) + f /\ out' \in Seq(Token)
    BY <2>2, <2>3, <2>4, <2>5
  <2> QED BY <2>1, <2>6
<1>3. /\ whole'[t] = HasKey(out')
      /\ pc'[t] = IF f = 0 \/ HasKey(out') THEN "got" ELSE "read"
  BY <1>0, <1>2 DEF TypeOK
<1>4. SUFFICES ASSUME quiet[t] PROVE AnswerOf(t)'
  BY <1>1 DEF AnswerOf
<1>5. ~HasKey(out) /\ ~Waiting(t)
  BY <1>1, <1>4 DEF AnswerOf, Waiting
<1>6. Len(out) \in Nat /\ Len(inbox) \in Nat /\ inbox \in Seq(Token) /\ out \in Seq(Token)
  BY LenProperties DEF TypeOK
<1>7. CASE todo = <<>> /\ Len(out) = OutMax
  <2>1. f = 0
    BY <1>0, <1>2, <1>6, <1>7
  <2>2. out' = out
    BY <1>2, <1>6, <2>1, SubSeqEmpty, ConcatEmptySeq
  <2> QED BY <1>3, <1>5, <2>1, <2>2 DEF AnswerOf, HasKey
<1>8. CASE Coming(t)
  <2> DEFINE A == Answer(truth[t])
  <2>0. A \in Seq(Token) /\ Len(A) \in Nat
    BY <1>0, AnswerWhat, LenProperties
  <2>01. PICK k \in 0 .. Len(A) : \E jj \in 0 .. k : \E ii \in 0 .. jj :
          out = SubSeq(A, 1, ii) /\ inbox = SubSeq(A, ii + 1, jj) /\ wire = SubSeq(A, jj + 1, k)
    BY <1>8 DEF Coming
  <2>02. PICK j \in 0 .. k : \E ii \in 0 .. j :
          out = SubSeq(A, 1, ii) /\ inbox = SubSeq(A, ii + 1, j) /\ wire = SubSeq(A, j + 1, k)
    BY <2>01
  <2>1. PICK i \in 0 .. j :
          out = SubSeq(A, 1, i) /\ inbox = SubSeq(A, i + 1, j) /\ wire = SubSeq(A, j + 1, k)
    BY <2>02
  <2>2. A' = A
    BY <1>1 DEF A, Answer, Sentinel, Tok
  <2>3. Settled(t) /\ Settled(t)' /\ todo = <<>> /\ todo' = <<>>
    BY <1>1, <1>8 DEF Coming, Settled
  <2> HIDE DEF A
  <2>4. /\ i \in Nat /\ j \in Nat /\ k \in Nat /\ i <= j /\ j <= k /\ k <= Len(A)
    BY <2>0, <2>1
  <2>5. Len(inbox) = j - i
    <3>1. \A x \in i + 1 .. j : A[x] \in Token
      BY <2>0, <2>4, ElementOfSeq
    <3>2. Len(SubSeq(A, i + 1, j)) = IF i + 1 <= j THEN j - (i + 1) + 1 ELSE 0
      BY <2>4, <3>1, SubSeqProperties
    <3> QED BY <2>1, <2>4, <3>2
  <2>6. f <= n /\ n \in Nat /\ 1 <= n /\ n <= j - i
    BY <1>0, <1>2, <1>6, <2>5
  <2>7. out' = SubSeq(A, 1, i + f) /\ inbox' = SubSeq(A, i + n + 1, j)
    <3>1. /\ SubSeq(A, 1, i) \o SubSeq(SubSeq(A, i + 1, j), 1, f) = SubSeq(A, 1, i + f)
          /\ SubSeq(SubSeq(A, i + 1, j), n + 1, j - i) = SubSeq(A, i + n + 1, j)
      BY <2>0, <2>4, <2>6, TakeFrom
    <3>2. out' = SubSeq(A, 1, i) \o SubSeq(SubSeq(A, i + 1, j), 1, f)
      BY <1>2, <2>1
    <3>3. inbox' = SubSeq(SubSeq(A, i + 1, j), n + 1, j - i)
      BY <1>2, <2>1, <2>5
    <3> QED BY <3>1, <3>2, <3>3
  <2>8. CASE HasKey(out')
    <3>1. i + f \in 0 .. Len(A)
      BY <2>0, <2>4, <2>6
    <3>2. CountIn(out') = truth[t]
      BY <1>0, <2>7, <2>8, <3>1, CountRead DEF A
    <3>3. pc'[t] = "got" /\ whole'[t]
      BY <1>3, <2>8
    <3> QED BY <1>1, <2>3, <3>2, <3>3 DEF AnswerOf, CountIn
  <2>9. CASE ~HasKey(out') /\ f = 0
    BY <1>3, <2>9 DEF AnswerOf
  <2>10. CASE ~HasKey(out') /\ f # 0 /\ f < n
    <3>1. Len(out') = OutMax
      BY <1>0, <1>2, <1>6, <2>6, <2>10
    <3> QED BY <1>3, <2>3, <2>10, <3>1 DEF AnswerOf, HasKey
  <2>11. CASE ~HasKey(out') /\ f = n
    <3>1. k \in 0 .. Len(A) /\ j \in 0 .. k /\ i + n \in 0 .. j
      BY <2>0, <2>4, <2>6
    <3>2. \E kk \in 0 .. Len(A) : \E jj \in 0 .. kk : \E ii \in 0 .. jj :
            /\ out' = SubSeq(A, 1, ii) /\ inbox' = SubSeq(A, ii + 1, jj)
            /\ wire' = SubSeq(A, jj + 1, kk)
      BY <1>1, <2>1, <2>7, <2>11, <3>1
    <3>3. Coming(t)'
      BY <2>2, <2>3, <3>2 DEF Coming, A
    <3> QED BY <1>3, <2>11, <3>3 DEF AnswerOf, HasKey
  <2> QED BY <2>6, <2>8, <2>9, <2>10, <2>11
<1> QED BY <1>1, <1>4, <1>5, <1>7, <1>8 DEF AnswerOf

\* Every step keeps what the threads know and are about to learn.
LEMMA AnswerStep ==
  TypeOK /\ ControlInv /\ SureInv /\ AnswerInv /\ [Next]_vars => AnswerInv'
<1> SUFFICES ASSUME TypeOK, ControlInv, SureInv, AnswerInv, [Next]_vars,
                    NEW t \in Threads
             PROVE  AnswerOf(t)'
  BY DEF AnswerInv, AnswerOf
<1> USE DEF linkVars, shellVars, fileVars, ghostVars, Goto
<1>0. /\ Threads \subseteq Actors /\ Main \in Actors /\ Main \notin Threads /\ t \in Actors
      /\ Nobody \notin Actors /\ t # Main
  BY ShellAssumption DEF Actors
<1>01. AnswerOf(t)
  BY DEF AnswerInv, AnswerOf
<1>02. Separated => Separated'
  BY SeparateStep
<1>03. pc[t] \in {"read", "got"} <=> holder = t
  BY <1>0 DEF ControlInv
<1>04. DOMAIN todo = 1 .. Len(todo) /\ Len(todo) \in Nat /\ todo \in Seq(Cmds)
  BY LenProperties DEF TypeOK, Cmds
<1>1. CASE Send(t)
  <2>1. /\ pc' = [pc EXCEPT ![t] = "read"] /\ inbox' = <<>> /\ out' = <<>>
        /\ todo' = Append(todo, Command(t)) /\ wire' = wire
        /\ quiet' = [quiet EXCEPT ![t] = (todo = <<>> /\ wire = <<>>)]
        /\ whole' = [whole EXCEPT ![t] = FALSE]
    BY <1>1 DEF Send, Flush
  <2>2. pc'[t] = "read" /\ quiet'[t] = (todo = <<>> /\ wire = <<>>) /\ whole'[t] = FALSE
    BY <1>0, <2>1 DEF TypeOK
  <2>3. ~HasKey(<<>>)
    BY DEF HasKey
  <2>4. Command(t) = [from |-> t, cmd |-> "stat"]
    BY <1>0 DEF Command
  <2>5. todo = <<>> => todo' = <<[from |-> t, cmd |-> "stat"]>>
    BY <2>1, <2>4
  <2>6. quiet'[t] => Waiting(t)'
    BY <2>1, <2>2, <2>5 DEF Waiting
  <2>7. ~HasKey(out)'
    BY <2>1, <2>3 DEF HasKey
  <2> QED BY <2>2, <2>6, <2>7 DEF AnswerOf
<1>2. ASSUME NEW a \in Actors \ {t}, Send(a) PROVE AnswerOf(t)'
  <2>1. holder = Nobody /\ pc[t] \notin {"read", "got"}
    BY <1>0, <1>03, <1>2 DEF Send
  <2>2. /\ pc'[t] = pc[t] /\ quiet'[t] = quiet[t] /\ whole'[t] = whole[t]
        /\ UNCHANGED <<links, truth>>
    BY <1>0, <1>2 DEF Send, TypeOK
  <2>3. todo' = Append(todo, Command(a)) /\ Command(a).from = a /\ Command(a) \in Cmds
    BY <1>2 DEF Send, Command, Cmds
  <2>4. \A i \in DOMAIN todo' : todo'[i].from # t \/ \E j \in DOMAIN todo : todo[j] = todo'[i]
    <3>1. DOMAIN todo' = 1 .. Len(todo) + 1
          /\ \A i \in 1 .. Len(todo) + 1 : todo'[i] = IF i <= Len(todo) THEN todo[i] ELSE Command(a)
      BY <1>04, <2>3
    <3> QED BY <1>04, <2>3, <3>1
  <2> QED BY <1>01, <1>02, <2>1, <2>2, <2>4, AnswerSame
<1>3. CASE Unsent(t)
  <2>1. pc'[t] = "got" /\ whole'[t] = FALSE
    BY <1>0, <1>3 DEF Unsent, TypeOK
  <2> QED BY <2>1 DEF AnswerOf
<1>4. ASSUME NEW a \in Actors \ {t}, Unsent(a) \/ Read(a) \/ Stop(a) PROVE AnswerOf(t)'
  <2>1. pc[t] \notin {"read", "got"}
    BY <1>0, <1>03, <1>4 DEF Unsent, Read, Stop, ControlInv
  <2>2. \E l, w : pc' = [pc EXCEPT ![a] = l] /\ (whole' = [whole EXCEPT ![a] = w] \/ whole' = whole)
    BY <1>4 DEF Unsent, Read, Stop
  <2>3. pc'[t] = pc[t] /\ whole'[t] = whole[t]
    BY <1>0, <2>2 DEF TypeOK
  <2>4. UNCHANGED <<links, truth, todo, quiet>>
    BY <1>4 DEF Unsent, Read, Stop
  <2> QED BY <1>01, <1>02, <2>1, <2>3, <2>4, AnswerSame
<1>5. CASE Read(t)
  BY <1>01, <1>02, <1>5, ReadStep
<1>6. CASE Stop(t)
  <2>1. pc[t] = "read" /\ pc'[t] = "got" /\ UNCHANGED <<whole, quiet>>
    BY <1>0, <1>6 DEF Stop, TypeOK
  <2> QED BY <1>01, <2>1 DEF AnswerOf
<1>7. CASE MainGot
  <2>1. pc[t] \notin {"read", "got"}
    BY <1>0, <1>03, <1>7 DEF MainGot, ControlInv
  <2>2. pc'[t] \in {pc[t], "idle"}
    BY <1>0, <1>7 DEF MainGot, TypeOK
  <2>3. UNCHANGED <<links, truth, todo, quiet, whole>>
    BY <1>7 DEF MainGot
  <2> QED BY <1>01, <1>02, <2>1, <2>2, <2>3, AnswerSame
<1>8. CASE Decide(t)
  <2>1. /\ pc[t] = "got"
        /\ pc' = [pc EXCEPT ![t] = IF Needed(CountIn(out)) THEN "rename" ELSE "open"]
        /\ links' = [links EXCEPT ![t] = CountIn(out)] /\ UNCHANGED <<todo, quiet, whole, truth>>
    BY <1>8 DEF Decide, CountIn
  <2>2. pc'[t] \in {"rename", "open"} /\ links'[t] = CountIn(out)
    BY <1>0, <2>1 DEF TypeOK
  <2> QED BY <1>01, <1>02, <2>1, <2>2 DEF AnswerOf, Settled
<1>9. ASSUME NEW u \in Threads, u # t, Decide(u) PROVE AnswerOf(t)'
  <2>1. pc[t] \notin {"read", "got"}
    BY <1>0, <1>03, <1>9 DEF Decide, ControlInv
  <2>2. pc'[t] = pc[t] /\ links'[t] = links[t]
    BY <1>0, <1>9 DEF Decide, TypeOK
  <2>3. UNCHANGED <<truth, todo, quiet, whole>>
    BY <1>9 DEF Decide
  <2> QED BY <1>01, <1>02, <2>1, <2>2, <2>3, AnswerSame
<1>10. ASSUME UNCHANGED <<todo, wire, inbox, out, quiet, whole, truth, links>>, pc'[t] = pc[t]
       PROVE  AnswerOf(t)'
  <2>1. Coming(t) => Coming(t)'
    BY <1>02, <1>10 DEF Coming, Settled, Answer, Sentinel, Tok
  <2>2. Waiting(t) => Waiting(t)'
    BY <1>10 DEF Waiting
  <2>3. Settled(t) => Settled(t)'
    BY <1>02, <1>10 DEF Settled
  <2> QED BY <1>01, <1>10, <2>1, <2>2, <2>3 DEF AnswerOf, HasKey, CountIn
<1>11. ASSUME NEW u \in Threads,
              \/ Rename(u) \/ RenameFails(u) \/ Create(u) \/ CreateFails(u)
              \/ Open(u) \/ StatFails(u) \/ SftpOpen(u) \/ Write(u)
       PROVE  AnswerOf(t)'
  <2>1. UNCHANGED <<todo, wire, inbox, out, quiet, whole, truth, links>>
    BY <1>11 DEF Rename, RenameFails, Create, CreateFails, Open, StatFails, SftpOpen, Write
  <2>2. CASE u = t
    <3>1. pc[t] \notin {"read", "got"}
      BY <1>11, <2>2
      DEF Rename, RenameFails, Create, CreateFails, Open, StatFails, SftpOpen, Write
    <3>2. \E l \in {"open", "create", "ask", "idle", "write"} : pc' = [pc EXCEPT ![t] = l]
      BY <1>11, <2>2
      DEF Rename, RenameFails, Create, CreateFails, Open, StatFails, SftpOpen, Write
    <3>3. pc'[t] \notin {"read", "got"}
      BY <1>0, <3>2 DEF TypeOK
    <3> QED BY <1>01, <1>02, <2>1, <3>1, <3>3, AnswerSame
  <2>3. CASE u # t
    <3>1. \E l : pc' = [pc EXCEPT ![u] = l]
      BY <1>11 DEF Rename, RenameFails, Create, CreateFails, Open, StatFails, SftpOpen, Write
    <3>2. pc'[t] = pc[t]
      BY <1>0, <2>3, <3>1 DEF TypeOK
    <3> QED BY <1>10, <2>1, <3>2
  <2> QED BY <2>2, <2>3
<1>12. CASE ShellRuns
  <2>1. /\ todo # <<>> /\ todo' = Tail(todo) /\ wire' = wire \o Printed(Head(todo))
        /\ wire' \in Seq(Token) /\ truth' = [truth EXCEPT ![Head(todo).from] = Looked]
        /\ UNCHANGED <<pc, inbox, out, links, quiet, whole, file>>
    BY <1>12, ShellRunsWhat DEF ShellRuns
  <2>2. CASE quiet[t] /\ pc[t] = "read"
    <3>1. todo = <<[from |-> t, cmd |-> "stat"]>> /\ wire = <<>> /\ inbox = <<>> /\ out = <<>>
          /\ ~whole[t] /\ ~HasKey(out)
      BY <1>01, <2>1, <2>2 DEF AnswerOf, Coming, Waiting
    <3>2. Head(todo) = [from |-> t, cmd |-> "stat"] /\ todo' = <<>>
      BY <2>1, <3>1
    <3>3. Looked \in Nat /\ Printed(Head(todo)) = Answer(Looked) /\ Answer(Looked) \in Seq(Token)
      BY <3>2, PrintedType, AnswerWhat DEF Printed, Answer
    <3>4. truth'[t] = Looked
      BY <1>0, <2>1, <3>2 DEF TypeOK
    <3> DEFINE A == Answer(Looked)
    <3>5. wire' = A
      BY <2>1, <3>1, <3>3, ConcatEmptySeq
    <3>6. Len(A) \in Nat /\ A = SubSeq(A, 1, Len(A)) /\ <<>> = SubSeq(A, 1, 0)
      BY <3>3, SubSeqFull, SubSeqEmpty, LenProperties
    <3>7. Settled(t)'
      <4>1. Looked <= 1 => Separated
        BY <1>0, Counted DEF Looked, Separated, Names
      <4> QED BY <1>02, <3>4, <4>1 DEF Settled
    <3>8. Answer(truth[t])' = A
      BY <3>4 DEF Answer, Sentinel, Tok
    <3> HIDE DEF A
    <3>9. \E k \in 0 .. Len(A) : \E j \in 0 .. k : \E i \in 0 .. j :
            /\ out' = SubSeq(A, 1, i) /\ inbox' = SubSeq(A, i + 1, j)
            /\ wire' = SubSeq(A, j + 1, k)
      <4>1. Len(A) \in 0 .. Len(A) /\ 0 \in 0 .. Len(A) /\ 0 \in 0 .. 0 /\ 0 + 1 = 1
        BY <3>6
      <4>2. out' = SubSeq(A, 1, 0) /\ inbox' = SubSeq(A, 1, 0) /\ wire' = SubSeq(A, 1, Len(A))
        BY <2>1, <3>1, <3>5, <3>6, Zenon
      <4> QED BY <4>1, <4>2
    <3>10. Coming(t)'
      BY <3>2, <3>7, <3>8, <3>9 DEF Coming
    <3> QED BY <2>1, <3>1, <3>10 DEF AnswerOf, HasKey
  <2>3. CASE quiet[t] /\ whole[t]
    <3>1. 1 \in DOMAIN todo /\ Head(todo) = todo[1]
      BY <1>04, <2>1, EmptySeq
    <3>2. Head(todo).from # t
      BY <1>01, <2>3, <3>1 DEF AnswerOf
    <3>3. truth'[t] = truth[t]
      BY <1>0, <2>1, <3>2 DEF TypeOK
    <3>4. \A i \in DOMAIN todo' : todo'[i].from # t
      <4>1. DOMAIN todo' = 1 .. Len(todo') /\ Len(todo') = Len(todo) - 1
            /\ \A i \in 1 .. Len(todo') : todo'[i] = todo[i + 1]
        <5>1. todo' \in Seq(Cmds)
          BY <1>04, <2>1, HeadTailProperties
        <5> QED BY <1>04, <2>1, <5>1, HeadTailProperties, LenProperties
      <4>2. \A i \in 1 .. Len(todo') : i + 1 \in DOMAIN todo
        BY <1>04, <4>1
      <4> QED BY <1>01, <2>3, <4>1, <4>2 DEF AnswerOf
    <3>5. Settled(t)'
      BY <1>01, <1>02, <2>3, <3>3 DEF AnswerOf, Settled
    <3> QED BY <1>01, <2>1, <2>3, <3>3, <3>4, <3>5 DEF AnswerOf, CountIn
  <2>4. CASE ~quiet[t] \/ (pc[t] # "read" /\ ~whole[t])
    BY <2>1, <2>4 DEF AnswerOf
  <2> QED BY <2>2, <2>3, <2>4
<1>13. CASE Arrive
  <2>1. UNCHANGED <<pc, todo, out, links, quiet, whole, truth>>
    BY <1>13 DEF Arrive
  <2>2. CASE pc[t] = "read" /\ quiet[t]
    BY <1>01, <1>02, <1>13, <2>2, ArriveStep
  <2>3. CASE ~(pc[t] = "read" /\ quiet[t])
    BY <1>01, <1>02, <2>1, <2>3 DEF AnswerOf, CountIn, Settled
  <2> QED BY <2>2, <2>3
<1>14. CASE Drop
  <2>1. todo' = <<>> /\ wire' = <<>> /\ UNCHANGED <<pc, inbox, out, links, quiet, whole, truth>>
    BY <1>14 DEF Drop
  <2>2. Waiting(t) => Waiting(t)'
    BY <2>1 DEF Waiting
  <2>3. Coming(t) => Coming(t)'
    <3> SUFFICES ASSUME Coming(t) PROVE Coming(t)'
      OBVIOUS
    <3> DEFINE A == Answer(truth[t])
    <3>1. A \in Seq(Token) /\ Len(A) \in Nat
      BY <1>0, AnswerWhat, LenProperties DEF TypeOK
    <3>2. PICK k \in 0 .. Len(A) : \E j \in 0 .. k : \E i \in 0 .. j :
            out = SubSeq(A, 1, i) /\ inbox = SubSeq(A, i + 1, j) /\ wire = SubSeq(A, j + 1, k)
      BY DEF Coming
    <3>3. PICK j \in 0 .. k : \E i \in 0 .. j :
            out = SubSeq(A, 1, i) /\ inbox = SubSeq(A, i + 1, j)
      BY <3>2
    <3>4. A' = A
      BY <2>1 DEF Answer, Sentinel, Tok
    <3> HIDE DEF A
    <3>5. j \in 0 .. Len(A) /\ j \in 0 .. j /\ SubSeq(A, j + 1, j) = <<>>
      BY <3>1, SubSeqEmpty
    <3>6. \E kk \in 0 .. Len(A) : \E jj \in 0 .. kk : \E i \in 0 .. jj :
            /\ out' = SubSeq(A, 1, i) /\ inbox' = SubSeq(A, i + 1, jj)
            /\ wire' = SubSeq(A, jj + 1, kk)
      BY <2>1, <3>3, <3>5
    <3>7. Settled(t)'
      BY <1>02, <2>1 DEF Coming, Settled
    <3> QED BY <2>1, <3>4, <3>6, <3>7 DEF Coming, A
  <2>4. Settled(t) => Settled(t)'
    BY <1>02, <2>1 DEF Settled
  <2>5. DOMAIN todo' = {}
    BY <2>1
  <2> QED BY <1>01, <2>1, <2>2, <2>3, <2>4, <2>5 DEF AnswerOf, HasKey, CountIn
<1>15. CASE Reconnect
  <2>1. todo' = <<>> /\ UNCHANGED <<pc, links, quiet, whole, truth>> /\ holder = Nobody
    BY <1>15 DEF Reconnect
  <2>2. pc[t] \notin {"read", "got"} /\ DOMAIN todo' = {}
    BY <1>0, <1>03, <2>1
  <2> QED BY <1>01, <1>02, <2>1, <2>2, AnswerSame
<1>16. CASE UNCHANGED vars
  BY <1>10, <1>16 DEF vars
<1> QED
  BY <1>1, <1>2, <1>3, <1>4, <1>5, <1>6, <1>7, <1>8, <1>9, <1>11, <1>12, <1>13, <1>14, <1>15,
     <1>16 DEF Next, Check, Take

\* Every step keeps the writes of the sure away from the other name.
LEMMA SureStep ==
  TypeOK /\ ControlInv /\ SureInv /\ AnswerInv /\ OthersKept /\ [Next]_vars
    => SureInv' /\ OthersKept'
<1> SUFFICES ASSUME TypeOK, ControlInv, SureInv, AnswerInv, OthersKept, [Next]_vars
             PROVE  SureInv' /\ OthersKept'
  OBVIOUS
<1> USE DEF linkVars, shellVars, fileVars, ghostVars, Goto
<1>0. /\ Threads \subseteq Actors /\ Main \in Actors /\ Main \notin Threads /\ Other \in Names
  BY ShellAssumption DEF Actors, Names
<1>01. /\ file'[Other] = file[Other] /\ (Separated => Separated')
       /\ (file[Path] = NoFile => Separated) /\ (file'[Path] = NoFile => Separated')
  BY SeparateStep
<1>02. \A t \in Threads \ unsure : Sure(t)
  BY DEF SureInv, Sure
<1>03. unsure \subseteq unsure'
  <2>1. ASSUME NEW t \in Threads,
               \/ Rename(t) \/ RenameFails(t) \/ Create(t) \/ CreateFails(t)
               \/ Open(t) \/ StatFails(t) \/ Decide(t) \/ SftpOpen(t) \/ Write(t)
        PROVE  unsure \subseteq unsure'
    BY <2>1
    DEF Rename, RenameFails, Create, CreateFails, Open, StatFails, Decide, SftpOpen, Write
  <2>2. ASSUME NEW a \in Actors, Send(a) \/ Unsent(a) \/ Read(a) \/ Stop(a)
        PROVE  unsure \subseteq unsure'
    BY <2>2 DEF Send, Unsent, Read, Stop
  <2>3. ASSUME MainGot \/ ShellRuns \/ Arrive \/ Drop \/ Reconnect \/ UNCHANGED vars
        PROVE  unsure \subseteq unsure'
    BY <2>3 DEF MainGot, ShellRuns, Arrive, Drop, Reconnect, vars
  <2> QED BY <2>1, <2>2, <2>3 DEF Next, Check, Take
<1>1. ASSUME NEW t \in Threads, t \notin unsure' PROVE Sure(t)'
  <2>0. t \notin unsure /\ Sure(t) /\ t \in Actors /\ t # Main
    BY <1>0, <1>02, <1>03, <1>1
  <2>1. ASSUME pc'[t] = pc[t], handle'[t] = handle[t] PROVE Sure(t)'
    BY <1>01, <2>0, <2>1 DEF Sure
  <2>2. ASSUME pc'[t] \notin {"create", "open", "write"} PROVE Sure(t)'
    BY <2>2 DEF Sure
  <2>3. ASSUME NEW a \in Actors, Send(a) \/ Unsent(a) \/ Read(a) \/ Stop(a) PROVE Sure(t)'
    <3>1. handle' = handle /\ \E l \in {"read", "got"} : pc' = [pc EXCEPT ![a] = l]
      BY <2>3 DEF Send, Unsent, Read, Stop
    <3>2. pc'[t] \in {pc[t], "read", "got"}
      BY <2>0, <3>1 DEF TypeOK
    <3> QED BY <2>1, <2>2, <3>1, <3>2
  <2>4. CASE MainGot
    <3>1. handle' = handle /\ pc'[t] \in {pc[t], "idle"}
      BY <2>0, <2>4 DEF MainGot, TypeOK
    <3> QED BY <2>1, <2>2, <3>1
  <2>5. CASE ShellRuns \/ Arrive \/ Drop \/ Reconnect \/ UNCHANGED vars
    BY <2>1, <2>5 DEF ShellRuns, Arrive, Drop, Reconnect, vars
  <2>6. ASSUME NEW u \in Threads, u # t,
               \/ Rename(u) \/ RenameFails(u) \/ Create(u) \/ CreateFails(u)
               \/ Open(u) \/ StatFails(u) \/ Decide(u) \/ SftpOpen(u) \/ Write(u)
        PROVE  Sure(t)'
    <3>1. \E l : pc' = [pc EXCEPT ![u] = l]
      BY <2>6
      DEF Rename, RenameFails, Create, CreateFails, Open, StatFails, Decide, SftpOpen, Write
    <3>2. handle' = handle \/ \E f : handle' = [handle EXCEPT ![u] = f]
      BY <2>6
      DEF Rename, RenameFails, Create, CreateFails, Open, StatFails, Decide, SftpOpen, Write
    <3>3. pc'[t] = pc[t] /\ handle'[t] = handle[t]
      BY <2>0, <2>6, <3>1, <3>2 DEF TypeOK
    <3> QED BY <2>1, <3>3
  <2>7. CASE Open(t)
    <3>1. file' = file /\ pc' = [pc EXCEPT ![t] = IF file[Path] = NoFile THEN "open" ELSE "ask"]
      BY <2>7 DEF Open
    <3>2. pc'[t] = IF file[Path] = NoFile THEN "open" ELSE "ask"
      BY <2>0, <3>1 DEF TypeOK
    <3> QED BY <1>01, <3>2 DEF Sure
  <2>8. CASE StatFails(t) \/ RenameFails(t)
    BY <1>1, <2>8 DEF StatFails, RenameFails
  <2>9. CASE Decide(t)
    <3>1. /\ pc' = [pc EXCEPT ![t] = IF Needed(CountIn(out)) THEN "rename" ELSE "open"]
          /\ quiet[t] /\ whole[t] /\ pc[t] = "got"
      BY <1>1, <2>9 DEF Decide, CountIn
    <3>2. Settled(t) /\ truth[t] = CountIn(out)
      BY <3>1 DEF AnswerInv, AnswerOf
    <3>3. pc'[t] = IF Needed(CountIn(out)) THEN "rename" ELSE "open"
      BY <2>0, <3>1 DEF TypeOK
    <3>4. CASE Needed(CountIn(out))
      BY <2>2, <3>3, <3>4
    <3>5. CASE ~Needed(CountIn(out))
      <4>1. truth[t] <= 1
        BY <2>0, <3>2, <3>5 DEF Needed, TypeOK
      <4> QED BY <1>01, <3>2, <3>3, <3>5, <4>1 DEF Settled, Sure
    <3> QED BY <3>4, <3>5
  <2>10. CASE Rename(t)
    <3>1. CASE file[Path] = NoFile
      <4>1. pc'[t] = "open"
        BY <2>0, <2>10, <3>1 DEF Rename, TypeOK
      <4> QED BY <1>01, <3>1, <4>1 DEF Sure
    <3>2. CASE file[Path] # NoFile
      <4>1. pc'[t] = "create" /\ \E b \in Backups : file' = Moved(b)
        BY <2>0, <2>10, <3>2 DEF Rename, TypeOK
      <4>2. file'[Path] = NoFile
        BY <4>1, ShellAssumption DEF Moved, TypeOK, Names
      <4> QED BY <1>01, <4>1, <4>2 DEF Sure
    <3> QED BY <3>1, <3>2
  <2>11. CASE Create(t) \/ CreateFails(t)
    <3>1. pc[t] = "create" /\ pc'[t] = "open"
      BY <2>0, <2>11 DEF Create, CreateFails, TypeOK
    <3> QED BY <1>01, <2>0, <3>1 DEF Sure
  <2>12. CASE SftpOpen(t)
    <3>1. pc[t] = "open" /\ handle'[t] = file[Path] /\ pc'[t] \in {"idle", "write"}
      BY <2>0, <2>12 DEF SftpOpen, TypeOK
    <3> QED BY <1>01, <2>0, <3>1 DEF Sure, Separated
  <2>13. CASE Write(t)
    <3>1. pc'[t] = "idle"
      BY <2>0, <2>13 DEF Write, TypeOK
    <3> QED BY <2>2, <3>1
  <2> QED
    BY <2>3, <2>4, <2>5, <2>6, <2>7, <2>8, <2>9, <2>10, <2>11, <2>12, <2>13 DEF Next, Check, Take
<1>2. SureInv'
  BY <1>01, <1>1 DEF SureInv, Sure
<1>3. OthersKept'
  <2> SUFFICES ASSUME file[Other] # NoFile PROVE data'[file[Other]] \subseteq unsure'
    BY <1>01 DEF OthersKept
  <2>1. data[file[Other]] \subseteq unsure
    BY DEF OthersKept
  <2>2. CASE UNCHANGED data
    BY <1>03, <2>1, <2>2
  <2>3. ASSUME NEW t \in Threads, pc[t] = "write", UNCHANGED <<file, unsure>>,
               data' = [data EXCEPT ![handle[t]] = @ \cup {t}]
        PROVE  data'[file[Other]] \subseteq unsure'
    <3>1. file[Other] \in Files
      BY <1>0 DEF TypeOK
    <3>2. CASE handle[t] = file[Other]
      <4>1. t \in unsure
        BY <1>02, <2>3, <3>2 DEF Sure
      <4>2. data'[file[Other]] = data[file[Other]] \cup {t}
        BY <2>3, <3>1, <3>2 DEF TypeOK
      <4> QED BY <2>1, <2>3, <4>1, <4>2
    <3>3. CASE handle[t] # file[Other]
      <4>1. data'[file[Other]] = data[file[Other]]
        BY <2>3, <3>1, <3>3 DEF TypeOK
      <4> QED BY <1>03, <2>1, <4>1
    <3> QED BY <3>2, <3>3
  <2> QED BY <2>2, <2>3, HandleSteps
<1> QED BY <1>2, <1>3

\* Before main's first command the invariant holds.
LEMMA InitHolds == Init => IInv
<1> SUFFICES ASSUME Init PROVE IInv OBVIOUS
<1>0. /\ Threads \subseteq Actors /\ Main \in Actors /\ Main \notin Threads /\ Nobody \notin Actors
      /\ Path \in Names /\ Other \in Names /\ Shared \in Files
  BY ShellAssumption DEF Actors, Names, Files
<1>1. TypeOK
  <2>1. wire \in Seq(Token)
    BY NoiseType DEF Init
  <2>2. file \in [Names -> Files \cup {NoFile}] /\ data \in [Files -> SUBSET Threads]
    BY <1>0 DEF Init
  <2>3. /\ todo \in Seq([from : Actors, cmd : {"id", "home", "stat"}])
        /\ inbox \in Seq(Token) /\ out \in Seq(Token) /\ out = <<>>
    <3>1. todo = <<>> /\ inbox = <<>> /\ out = <<>>
      BY DEF Init
    <3> QED BY <3>1, EmptySeq
  <2>5. pc \in [Actors -> Steps]
    BY DEF Init, Steps
  <2>6. /\ links \in [Threads -> Nat] /\ handle \in [Threads -> Files \cup {NoFile}]
        /\ opens \in [Threads -> 0 .. MaxOpens]
        /\ quiet \in [Actors -> BOOLEAN] /\ whole \in [Actors -> BOOLEAN]
        /\ truth \in [Actors -> Nat]
    BY ShellAssumption DEF Init
  <2>4. Len(<<>>) <= OutMax /\ MaxDrops \in Nat /\ MaxOpens \in Nat
    BY ShellAssumption
  <2>7. /\ holder = Nobody /\ up = "up" /\ asked = 0 /\ drops = 0 /\ unsure = {}
        /\ broken = FALSE /\ clash = FALSE
    BY DEF Init
  <2>8. 0 \in 0 .. 2 /\ 0 \in 0 .. MaxDrops
    BY <2>4
  <2> QED BY <2>1, <2>2, <2>3, <2>4, <2>5, <2>6, <2>7, <2>8 DEF TypeOK, Steps
<1>2. ControlInv
  BY <1>0 DEF Init, ControlInv
<1>3. AnswerInv
  BY <1>0 DEF Init, AnswerInv, AnswerOf
<1>4. SureInv
  BY <1>0 DEF Init, SureInv, Sure
<1>5. OpenNamed /\ DataNamed /\ PathBack
  <2>1. Shared # NoFile
    BY ShellAssumption DEF Shared, NoFile
  <2> QED BY <1>0, <2>1 DEF Init, OpenNamed, DataNamed, PathBack
<1>6. OthersKept
  BY <1>0 DEF Init, OthersKept
<1> QED BY <1>1, <1>2, <1>3, <1>4, <1>5, <1>6 DEF IInv

\* The invariant is inductive.
LEMMA Keeps == IInv /\ [Next]_vars => IInv'
  BY TypeStep, ControlStep, AnswerStep, SureStep, NamedStep, PathStep DEF IInv

\* The invariant holds at all times.
LEMMA Invariant == Spec => []IInv
  BY InitHolds, Keeps, PTL DEF Spec

\* Every variable keeps its type: no read runs past the output buffer, and no
\* write goes through a handle that is not open.
THEOREM TypeCorrect == Spec => []TypeOK
<1>1. IInv => TypeOK
  BY DEF IInv
<1> QED BY <1>1, Invariant, PTL

\* run_command_channel_exec: a command written on a quiet channel and read to
\* the sentinel gives gd_check_hlink the count the shell saw, wherever the
\* reads and the buffer cut the answer.
THEOREM AnswersOwn == Spec => []OwnAnswer
<1>1. IInv => OwnAnswer
  BY DEF IInv, AnswerInv, AnswerOf, OwnAnswer
<1> QED BY <1>1, Invariant, PTL

\* gd_check_hlink: threads whose checks were sound write to no file that has
\* another name, whatever the others rename and create in between.
THEOREM OthersSafe == Spec => []OthersKept
<1>1. IInv => OthersKept
  BY DEF IInv
<1> QED BY <1>1, Invariant, PTL

\* What was written has a name, as long as no two backups got the same one.
THEOREM DataHasName == Spec => []DataNamed
<1>1. IInv => DataNamed
  BY DEF IInv
<1> QED BY <1>1, Invariant, PTL

\* The path is gone only between the rename and the create of a check.
THEOREM PathReturns == Spec => []PathBack
<1>1. IInv => PathBack
  BY DEF IInv
<1> QED BY <1>1, Invariant, PTL

===============================================================================
