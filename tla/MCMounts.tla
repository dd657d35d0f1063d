------------------------------ MODULE MCMounts ------------------------------
(***************************************************************************)
(* A small host for Mounts: a home with a tool's directory, a project in   *)
(* it, a tool outside it, /usr with a merged /lib, and /tmp, which is a    *)
(* symlink to /private/tmp.                                                *)
(***************************************************************************)
EXTENDS Mounts

Usr == <<"usr">>
Lib == <<"lib">>
Tmp == <<"tmp">>
Home == <<"home", "u">>
HomeTool == <<"home", "u", ".t">>
ProjectFile == <<"home", "u", "p", "f">>
Tool == <<"srv", "t", "d">>
Db == <<"srv", "t", "d", "db">>
ProcFile == <<"proc", "v">>
BelowDb == <<"srv", "t", "d", "db", "w">>     \* named, but nothing can be there
Rc == <<"home", "u", "r">>
Missing == <<"srv", "t", "x">>
Shm == <<"dev", "shm">>

MCProject == <<"home", "u", "p">>
MCScratch == <<"tmp", "s">>
MCSocket == <<"run", "k">>
MCTraceDir == <<"home", "u", ".a">>
MCDirs == {<<>>, Usr, Lib, Tmp, <<"home">>, Home, HomeTool, MCProject, MCTraceDir, <<"srv">>, <<"srv", "t">>, Tool,
           <<"private", "tmp">>, <<"proc">>, <<"dev">>, Shm}
MCHost == MCDirs \cup {ProjectFile, Rc, Db, ProcFile, <<"usr", "c">>, <<"lib", "c">>}
MCPaths == MCHost \cup {MCScratch, <<"private", "tmp", "s">>, MCSocket, Missing, BelowDb}
MCTouched == {Lib \o <<"c">>, HomeTool, Rc, <<"srv", "t">>, Db, BelowDb, Missing, MCTraceDir}
MCReal ==
    [p \in MCPaths |->
       IF IsPrefix(Tmp, p) THEN <<"private">> \o p
       ELSE IF IsPrefix(Lib, p) THEN <<"usr">> \o Tail(p) ELSE p]
MCLinks == (Lib :> Usr)
MCTopDirs == <<>>
MCSystem == {Usr}
MCKernelDirs == {Shm}

Bind(source, mode, optional) == [source |-> source, mode |-> mode, optional |-> optional]
Linux == [binds |-> <<Bind(Usr, "ro", FALSE)>>, tmpfs |-> <<Tmp>>, home |-> {Home}, proc |-> TRUE, dev |-> TRUE]
MacOS == [binds |-> <<>>, tmpfs |-> <<>>, home |-> {Home}, proc |-> FALSE, dev |-> FALSE]
None == [binds |-> <<>>, tmpfs |-> <<>>, home |-> {}, proc |-> FALSE, dev |-> FALSE]
MCBases == {Linux, MacOS, None}
MCInsecure == <<Bind(Usr, "ro", FALSE), Bind(<<"home">>, "ro", TRUE), Bind(<<"srv">>, "ro", TRUE)>>

Profiles ==
    {<<>>,
     <<Bind(HomeTool, "rw", TRUE)>>,
     <<Bind(Tool, "ro", FALSE)>>,
     <<Bind(Db, "rw", FALSE), Bind(Tool, "ro", TRUE)>>,
     <<Bind(Missing, "rw", TRUE), Bind(<<"tmp", "s">>, "rw", TRUE)>>,
     <<Bind(ProcFile, "ro", TRUE)>>,
     <<Bind(Missing, "ro", FALSE)>>}
Inline == {<<>>, <<Bind(Home, "ro", FALSE)>>, <<Bind(ProjectFile, "ro", FALSE)>>, <<Bind(Tmp, "ro", FALSE)>>,
           <<Bind(Tool, "rw", FALSE), Bind(<<"srv">>, "ro", FALSE)>>}

\* A working directory other than the project: one of the host's that may be
\* hidden, one that only the sandbox has, a file, one of a new /dev, none at all.
Elsewhere == {Tmp, MCScratch, ProjectFile, Shm, Missing}

MCRequests ==
    [base : MCBases, profiles : Profiles, binds : Inline, cwd : {MCProject},
     bind_project : BOOLEAN, override : BOOLEAN, proxied : BOOLEAN]
      \cup [base : MCBases, profiles : Profiles, binds : Inline, cwd : Elsewhere,
            bind_project : {TRUE}, override : {FALSE}, proxied : {TRUE}]
=============================================================================
