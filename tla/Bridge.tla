------------------------------- MODULE Bridge -------------------------------
(***************************************************************************)
(* The process of src/hozo/bridge.py around a connection's Tunnel: it      *)
(* binds and listens, forks and lets the shell of build_bwrap_argv go on   *)
(* to the command, accepts a connection of the command and dials the       *)
(* proxy's Unix socket for it. The accepting loop handles no exception.    *)
(***************************************************************************)
EXTENDS Tunnel

VARIABLES
    bridge,  \* main(): "accepting" in the child, once the parent has exited
    shell,   \* sh -c "python3 bridge.py ... && exec command"
    conn     \* a connection of the command to the port, up to its Tunnel

bvars == <<bridge, shell, conn>>
allvars == <<vars, bvars>>

BInit == Init /\ bridge = "starting" /\ shell = "waiting" /\ conn = "none"

-----------------------------------------------------------------------------
(* main() and the shell.                                                   *)

\* bind and listen, then fork: each may raise, and the status is not 0 then.
Starts ==
    /\ \/ bridge = "starting" /\ bridge' \in {"listening", "failed"}
       \/ bridge = "listening" /\ bridge' \in {"accepting", "failed"}
    /\ UNCHANGED <<vars, shell, conn>>

\* "&&": the status of the parent is that of the bridge.
ShellGoesOn ==
    /\ shell = "waiting" /\ bridge \in {"accepting", "dead", "failed"}
    /\ shell' = IF bridge = "failed" THEN "skipped" ELSE "command"
    /\ UNCHANGED <<vars, bridge, conn>>

\* The kernel takes a connection as long as somebody listens.
Connect ==
    /\ shell = "command" /\ conn = "none"
    /\ conn' = IF bridge = "accepting" THEN "backlog" ELSE "refused"
    /\ UNCHANGED <<vars, bridge, shell>>

Accept ==
    /\ bridge = "accepting" /\ conn = "backlog"
    /\ conn' = "accepted"
    /\ UNCHANGED <<vars, bridge, shell>>

\* accept, or the start of the thread, raises: EMFILE, ECONNABORTED, no more
\* threads. The other threads are daemons, so the process ends with all its
\* sockets, the one of a connection to the proxy next (FrameGoes).
LoopDies ==
    /\ bridge = "accepting"
    /\ bridge' = "dead"
    /\ conn' = IF conn \in {"backlog", "accepted"} THEN "refused" ELSE conn
    /\ IF conn # "up" \/ closed
         THEN UNCHANGED vars
         ELSE /\ relay' = [relay EXCEPT !["bridge"] = [d \in Directions |-> "done"]]
              /\ closed' = TRUE
              /\ CloseSocket("client", "down")
              /\ UNCHANGED <<sent, got, ended, quit, gone>>
    /\ UNCHANGED shell

-----------------------------------------------------------------------------
(* handle().                                                               *)

\* Mutant: a client whose proxy cannot be dialled is not closed.
DialUnixLeaks ==
    /\ bridge = "accepting" /\ conn = "accepted"
    /\ conn' \in {"up", "leaked"}
    /\ UNCHANGED <<vars, bridge, shell>>

\* connect to the proxy, which may be gone: then client.close(). The threads.
DialUnix ==
    /\ bridge = "accepting" /\ conn = "accepted"
    /\ conn' \in {"up", "refused"}
    /\ UNCHANGED <<vars, bridge, shell>>

\* A step of the Tunnel, which is there once the proxy has been dialled.
InTunnel(A) == conn = "up" /\ A /\ UNCHANGED bvars

BNext == Starts \/ ShellGoesOn \/ Connect \/ Accept \/ LoopDies \/ DialUnix \/ InTunnel(Next)

\* The processes and threads run; a command need not connect.
BFairness ==
    /\ WF_allvars(Starts \/ ShellGoesOn)
    /\ WF_allvars(Accept \/ DialUnix)
    /\ WF_allvars(InTunnel(HandleEnds \/ FrameGoes))
    /\ \A d \in Directions :
         WF_allvars(InTunnel(Relaying(d))) /\ WF_allvars(InTunnel(Receive(d) \/ ReceiveEnd(d)))

BSpec == BInit /\ [][BNext]_allvars /\ BFairness

-----------------------------------------------------------------------------
(* Properties.                                                             *)

\* The types; the tunnel is untouched before the proxy has been dialled.
BTypeOK ==
    /\ TypeOK
    /\ bridge \in {"starting", "listening", "accepting", "failed", "dead"}
    /\ shell \in {"waiting", "command", "skipped"}
    /\ conn \in {"none", "backlog", "accepted", "up", "refused"}
    /\ conn # "up" => Init

\* While the bridge lives a clean end is a whole answer, as in the Tunnel: its
\* death may look like one to the command.
CleanEndIsWhole == bridge # "dead" => NoSilentTruncation

\* And while it lives, the response arrives.
ServedResponseArrives == [](bridge # "dead") => ResponseArrives

\* Somebody waits for the bridge: the shell, until the port listens or never
\* will (bwrap.py:87-88); a connection the kernel took; an end of a tunnel whose
\* bridge is dead.
WaitsForBridge ==
    \/ shell = "waiting"
    \/ conn \notin {"none", "up", "refused"}
    \/ conn = "up" /\ bridge = "dead" /\ \E d \in Directions : ended[d] = "no" /\ Flip(d) \notin gone

\* Nobody does so for ever, whenever the accepting loop dies: with a connection in
\* its backlog, under a tunnel with bytes and half-closes under way, or never.
NobodyHangs == []<>~WaitsForBridge
=============================================================================
