--------------------------- MODULE SeatbeltHelper ---------------------------
(***************************************************************************)
(* SeatbeltBackend.exec and _start_helper of src/hozo/seatbelt.py: the     *)
(* caller forks a helper and replaces itself with the command. The helper  *)
(* serves the proxy, tells the caller its port through a pipe, polls for   *)
(* the end of its parent and removes the two temporary directories.        *)
(*                                                                         *)
(* Two processes, a pipe, the terminal's Ctrl-C and SIGKILL. A process     *)
(* that is gone has closed what it held.                                   *)
(***************************************************************************)
EXTENDS Naturals

VARIABLES
    caller,   \* where exec is; "command" once it has been replaced
    helper,   \* where the child is; "none" before the fork
    network,  \* policy.network_mode
    tty,      \* hozo is in the foreground of a terminal
    reaps,    \* the command ends only when it has no children left
    dirs,     \* the temporary directories that exist
    proxy,    \* the helper's BackgroundProxy is serving
    session,  \* the helper has a session, so a process group, of its own
    told,     \* the helper has written the port to the pipe
    writers   \* the processes that hold the write end

fixed == <<network, tty, reaps>>
vars == <<caller, helper, fixed, dirs, proxy, session, told, writers>>

Callers == {"start", "scratch", "dirs", "forked", "handshake", "invoke", "chdir",
            "command", "finishing", "raised", "gone"}
Helpers == {"none", "forked", "try", "starting", "started", "replied", "polling", "stopping", "cleaning", "gone", "killed"}
Dirs == {"scratch", "profile"}

Init ==
    /\ caller = "start" /\ helper = "none"
    /\ network \in {"none", "proxy", "host"} /\ tty \in BOOLEAN /\ reaps \in BOOLEAN
    /\ dirs = {} /\ proxy = FALSE /\ session = FALSE
    /\ told = FALSE /\ writers = {}

-----------------------------------------------------------------------------
(* The caller.                                                             *)

\* The two mkdtemp calls, of which either may fail.
MakeDirs ==
    /\ \/ caller = "start" /\ caller' = "scratch" /\ dirs' = {"scratch"}
       \/ caller = "scratch" /\ caller' = "dirs" /\ dirs' = Dirs
       \/ caller \in {"start", "scratch"} /\ caller' = "raised" /\ UNCHANGED dirs
    /\ UNCHANGED <<helper, fixed, proxy, session, told, writers>>

Fork ==
    /\ caller = "dirs"
    /\ \/ caller' = "forked" /\ helper' = "forked" /\ writers' = {"caller", "helper"}
       \/ caller' = "raised" /\ UNCHANGED <<helper, writers>>
    /\ UNCHANGED <<fixed, dirs, proxy, session, told>>

\* Mutant: the caller keeps its own copy of the write end.
CloseWriteNot ==
    /\ caller = "forked"
    /\ caller' = "handshake"
    /\ UNCHANGED <<helper, fixed, dirs, proxy, session, told, writers>>

CloseWrite ==
    /\ caller = "forked"
    /\ caller' = "handshake" /\ writers' = writers \ {"caller"}
    /\ UNCHANGED <<helper, fixed, dirs, proxy, session, told>>

\* readline returns the reply, or nothing once no writer is left: HozoError.
ReadReply ==
    /\ caller = "handshake"
    /\ \/ told /\ caller' = "invoke"
       \/ ~told /\ writers = {} /\ caller' = "raised"
    /\ UNCHANGED <<helper, fixed, dirs, proxy, session, told, writers>>

\* _invocation writes the profile and chdir enters the project; either may
\* raise. Then execve, or its failure.
Invoke ==
    /\ \/ caller = "invoke" /\ caller' = "chdir"
       \/ caller = "chdir" /\ caller' = "command"
       \/ caller \in {"invoke", "chdir"} /\ caller' = "raised"
    /\ UNCHANGED <<helper, fixed, dirs, proxy, session, told, writers>>

\* hozo, having reported the error, exits.
CallerExits ==
    /\ caller = "raised"
    /\ caller' = "gone" /\ writers' = writers \ {"caller"}
    /\ UNCHANGED <<helper, fixed, dirs, proxy, session, told>>

\* The command is done. execve kept the helper as its child, so one that waits
\* for all its children has to wait for the helper too.
Finish ==
    /\ \/ caller = "command" /\ caller' = "finishing"
       \/ caller = "finishing" /\ (reaps => helper \in {"gone", "killed"}) /\ caller' = "gone"
    /\ UNCHANGED <<helper, fixed, dirs, proxy, session, told, writers>>

\* The command ends by itself, or SIGKILL reaches its pid, which is the caller's.
CallerEnds ==
    /\ caller # "gone"
    /\ caller' = "gone" /\ writers' = writers \ {"caller"}
    /\ UNCHANGED <<helper, fixed, dirs, proxy, session, told>>

-----------------------------------------------------------------------------
(* The helper.                                                             *)

EnterTry ==
    /\ helper = "forked" /\ helper' = "try"
    /\ UNCHANGED <<caller, fixed, dirs, proxy, session, told, writers>>

NewSession ==
    /\ helper = "try"
    /\ helper' = "starting" /\ session' = TRUE
    /\ UNCHANGED <<caller, fixed, dirs, proxy, told, writers>>

StartProxy ==
    /\ helper = "starting"
    /\ helper' = "started" /\ proxy' = (network = "proxy")
    /\ UNCHANGED <<caller, fixed, dirs, session, told, writers>>

\* Mutant: no finally clause around the start.
StartFailsAtOnce ==
    /\ helper = "starting" /\ network = "proxy"
    /\ helper' = "gone" /\ writers' = writers \ {"helper"}
    /\ UNCHANGED <<caller, fixed, dirs, proxy, session, told>>

\* __enter__ of the BackgroundProxy raises.
StartFails ==
    /\ helper = "starting" /\ network = "proxy"
    /\ helper' = "cleaning"
    /\ UNCHANGED <<caller, fixed, dirs, proxy, session, told, writers>>

\* stdio is redirected and the port written; without a reader, EPIPE.
Reply ==
    /\ helper = "started"
    /\ \/ /\ caller \in {"forked", "handshake"}
          /\ helper' = "replied" /\ told' = TRUE
       \/ /\ caller \notin {"forked", "handshake"}
          /\ helper' = "stopping" /\ UNCHANGED told
    /\ UNCHANGED <<caller, fixed, dirs, proxy, session, writers>>

\* Mutant: the pid to compare with is read now, so a parent gone earlier is never missed.
StartPollingLate ==
    /\ helper = "replied" /\ caller # "gone"
    /\ helper' = "polling" /\ writers' = writers \ {"helper"}
    /\ UNCHANGED <<caller, fixed, dirs, proxy, session, told>>

StartPolling ==
    /\ helper = "replied"
    /\ helper' = "polling" /\ writers' = writers \ {"helper"}
    /\ UNCHANGED <<caller, fixed, dirs, proxy, session, told>>

\* Mutant: the helper looks for its parent only once.
PollOnce ==
    /\ helper = "polling"
    /\ helper' = "stopping"
    /\ UNCHANGED <<caller, fixed, dirs, proxy, session, told, writers>>

\* getppid is no longer the caller's pid, which was read before the fork.
Poll ==
    /\ helper = "polling" /\ caller = "gone"
    /\ helper' = "stopping"
    /\ UNCHANGED <<caller, fixed, dirs, proxy, session, told, writers>>

\* __exit__ of the BackgroundProxy, which stops it or raises TimeoutError; the
\* finally clause comes next either way.
StopProxy ==
    /\ helper = "stopping"
    /\ helper' = "cleaning"
    /\ \/ proxy' = FALSE
       \/ proxy' = proxy
    /\ UNCHANGED <<caller, fixed, dirs, session, told, writers>>

\* Both directories are removed, errors ignored, and the process exits.
Clean ==
    /\ helper = "cleaning"
    /\ helper' = "gone" /\ dirs' = {} /\ proxy' = FALSE /\ writers' = writers \ {"helper"}
    /\ UNCHANGED <<caller, fixed, session, told>>

-----------------------------------------------------------------------------
(* Signals.                                                                *)

\* Ctrl-C. The caller ends of KeyboardInterrupt; the command does as it likes.
\* A helper in the caller's group unwinds: through the finally clause if it is
\* inside try, past it if it has not got there or is already in it.
CtrlC ==
    /\ tty
    /\ \/ caller \notin {"command", "finishing", "gone"} /\ caller' = "gone"
       \/ caller \in {"command", "finishing"} /\ caller' \in {caller, "gone"}
    /\ IF helper \in {"forked", "cleaning"} /\ ~session
         THEN helper' = "gone"
         ELSE helper' = IF helper = "try" THEN "cleaning" ELSE helper
    /\ writers' = {w \in writers : (w = "caller" => caller' # "gone") /\ (w = "helper" => helper' # "gone")}
    /\ UNCHANGED <<fixed, dirs, proxy, session, told>>

KillHelper ==
    /\ helper \notin {"none", "gone", "killed"}
    /\ helper' = "killed" /\ proxy' = FALSE /\ writers' = writers \ {"helper"}
    /\ UNCHANGED <<caller, fixed, dirs, session, told>>

Caller == MakeDirs \/ Fork \/ CloseWrite \/ ReadReply \/ Invoke \/ CallerExits
Helper ==
    \/ EnterTry \/ NewSession \/ StartProxy \/ StartFails \/ Reply
    \/ StartPolling \/ Poll \/ StopProxy \/ Clean

Next == Caller \/ Finish \/ Helper \/ CallerEnds \/ CtrlC \/ KillHelper

\* Both processes run. A command may run for ever, but one that is done exits
\* if it can.
Spec ==
    /\ Init /\ [][Next]_vars
    /\ WF_vars(Caller) /\ WF_vars(Helper) /\ WF_vars(caller = "finishing" /\ Finish)

-----------------------------------------------------------------------------
(* Properties.                                                             *)

\* The types: in particular each process is always at a point of its code that
\* the actions know how to leave or that is the end of it.
TypeOK ==
    /\ caller \in Callers
    /\ helper \in Helpers
    /\ network \in {"none", "proxy", "host"} /\ tty \in BOOLEAN /\ reaps \in BOOLEAN
    /\ dirs \subseteq Dirs
    /\ proxy \in BOOLEAN
    /\ session \in BOOLEAN
    /\ told \in BOOLEAN
    /\ writers \subseteq {"caller", "helper"}

\* From the handshake to its end, the command has its scratch directory, its
\* profile and, in proxy mode, a proxy on the port it was given, whatever
\* happens at the terminal, unless someone kills the helper.
CommandIsServed ==
    caller \in {"invoke", "chdir", "command", "finishing"} /\ helper # "killed" =>
      /\ dirs = Dirs
      /\ network = "proxy" => proxy

\* "removes cleanup once it is reparented" (seatbelt.py:205): a helper that
\* has gone, without being killed, left neither directory.
LeavesNothing == helper = "gone" => dirs = {}

\* A helper that had left the terminal's process group, or has no terminal to
\* fear, does so, whatever failed before it polled, and whoever was killed; and
\* the caller does not see the pipe end, which it reports as "hozo helper failed
\* to start", before it has (tests/test_seatbelt.py:220-223).
CleansUp ==
    /\ session \/ ~tty => LeavesNothing
    /\ caller = "handshake" /\ writers = {} /\ ~told /\ helper # "killed" => dirs = {}

\* The handshake ends, with a port, or with an error when the helper is gone. A
\* command that is done ends, unless it waits for all its children: then it and
\* the helper, which waits for its end, wait for each other.
CallerGetsOn ==
    /\ caller = "handshake" ~> caller # "handshake"
    /\ caller = "finishing" ~> caller = "gone" \/ (reaps /\ helper = "polling")

\* The helper does not outlive its caller, whenever that ends: it notices even
\* if the caller is gone before the helper looks for it the first time.
HelperEnds == (caller = "gone" /\ helper # "none") ~> helper \in {"gone", "killed"}
=============================================================================
