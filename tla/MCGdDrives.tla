----------------------------- MODULE MCGdDrives -----------------------------
(* A finite instance of GdDrives for TLC.  The files hold two drives in both  *)
(* orders, with and without Args and AppKey; one label reads like a key.      *)
EXTENDS GdDrives, TLC

MCLetters == {"G", "H"}
MCRank    == [l \in MCLetters |-> IF l = "G" THEN 1 ELSE 2]
MCLabels  == [l \in MCLetters |-> IF l = "G" THEN "AppKey" ELSE ""]

Form(host, user, port, args, key) ==
  [Host |-> host, User |-> user, Port |-> port, Args |-> args, AppKey |-> key]

MCForms == {Form("a", "Bob", "22", "args1", "c:\\key1"), Form("a", "u", "2222", "long", "key2"),
            Form("a", "env", "99999", "", "")}

MCFolds   == [u \in {"Bob"} |-> "bob"]
MCNumber  == [p \in {"22", "2222", "99999"} |->
                IF p = "22" THEN 22 ELSE IF p = "2222" THEN 2222 ELSE 99999]
MCEscapes == [v \in {"c:\\key1"} |-> "c:\\\\key1"]
MCCuts    == [v \in {"long"} |-> "lo"]

Symmetry == Permutations(Tasks)

Mount(user, port, path) == [user |-> user, host |-> "a", port |-> port, path |-> path]

MCOutside == {Mount("u", "2222", <<"p">>)}

Drive(l, m, args, key) == [letter |-> l, mount |-> m, Args |-> args, AppKey |-> key]

Config(selected, drives) == [whole |-> TRUE, Selected |-> selected, Drives |-> drives]

MCFiles ==
  {Config("", <<>>),
   Config("G", <<Drive("H", Mount("", "", <<"p">>), "args2", ""),
                 Drive("G", Mount("u", "", <<>>), "", "key1")>>),
   Config("H", <<Drive("G", Mount("", "2222", <<>>), "args1", "key1"),
                 Drive("H", Mount("", "2222", <<>>), "args2", "key2")>>)}

=============================================================================
