-------------------------- MODULE BackgroundProxy --------------------------
(***************************************************************************)
(* class BackgroundProxy of src/hozo/proxy.py: the CONNECT proxy on the    *)
(* event loop of a daemon thread, started by __enter__ and stopped by      *)
(* __exit__ of the main thread, with ConnectProxy.start and stop.          *)
(*                                                                         *)
(* The main thread, the loop's thread, the stop coroutine and the handlers *)
(* of ConnectProxy interleave. A handler takes a step only while the loop  *)
(* runs, and the loop only halts between two callbacks, so never between a *)
(* verdict and its reply.                                                  *)
(***************************************************************************)
EXTENDS ConnectProxy

VARIABLES
    main,       \* the thread that runs the with block
    thread,     \* the loop's thread
    ready,      \* the _ready event
    listening,  \* the server accepts connections
    stopper,    \* the stop() coroutine
    halt,       \* loop.stop has been scheduled
    waits,      \* this Python's Server.wait_closed waits for connections (3.12.1 on)
    slow        \* a five-second wait may end before a step that could be taken

host == <<waits, slow>>
bvars == <<main, thread, ready, listening, stopper, halt, host>>
allvars == <<vars, bvars>>

Mains == {"before", "entering", "body", "stopping", "joining", "exited", "no_start", "no_stop"}
Threads == {"none", "starting", "bound", "running", "ended", "failed"}
Stoppers == {"none", "scheduled", "waiting", "finished"}

LoopRuns == thread \in {"bound", "running"}
AtAwaits == \A c \in Conns : pc[c] \notin {"refuse", "grant"}
\* A server counts the transports it accepted until connection_lost.
Attached == {c \in Conns : link[c]["client"] \in Live \cup {"closing"}}

BInit ==
    /\ Init
    /\ main = "before"
    /\ thread = "none"
    /\ ready = FALSE
    /\ listening = FALSE
    /\ stopper = "none"
    /\ halt = FALSE
    /\ waits \in BOOLEAN /\ slow \in BOOLEAN

-----------------------------------------------------------------------------
(* The loop's thread: _serve.                                              *)

\* run_until_complete(start()): the server listens, or bind raises and the
\* thread dies of it.
StartServer ==
    /\ thread = "starting"
    /\ thread' = "bound" /\ listening' = TRUE
    /\ UNCHANGED <<vars, host, main, ready, stopper, halt>>

StartFails ==
    /\ thread = "starting"
    /\ thread' = "failed"
    /\ UNCHANGED <<vars, host, main, ready, listening, stopper, halt>>

SetReady ==
    /\ thread = "bound"
    /\ thread' = "running" /\ ready' = TRUE
    /\ UNCHANGED <<vars, host, main, listening, stopper, halt>>

\* Mutant: wait_closed always waits, as if every Python were 3.12.1 or later.
StopServerWaits ==
    /\ thread = "running" /\ AtAwaits /\ stopper = "scheduled"
    /\ listening' = FALSE
    /\ stopper' = IF Attached # {} THEN "waiting" ELSE "finished"
    /\ UNCHANGED <<vars, host, main, thread, ready, halt>>

\* Mutant: stop() closes the server and does not await wait_closed.
StopServerOnly ==
    /\ thread = "running" /\ AtAwaits /\ stopper = "scheduled"
    /\ listening' = FALSE
    /\ stopper' = "finished"
    /\ UNCHANGED <<vars, host, main, thread, ready, halt>>

\* stop(): close the server, then await wait_closed.
StopServer ==
    /\ thread = "running" /\ AtAwaits /\ stopper = "scheduled"
    /\ listening' = FALSE
    /\ stopper' = IF waits /\ Attached # {} THEN "waiting" ELSE "finished"
    /\ UNCHANGED <<vars, host, main, thread, ready, halt>>

StopResumes ==
    /\ thread = "running" /\ AtAwaits /\ stopper = "waiting" /\ Attached = {}
    /\ stopper' = "finished"
    /\ UNCHANGED <<vars, host, main, thread, ready, listening, halt>>

\* run_forever returns; the tasks still pending are never resumed.
LoopHalts ==
    /\ thread = "running" /\ AtAwaits /\ halt
    /\ thread' = "ended"
    /\ UNCHANGED <<vars, host, main, ready, listening, stopper, halt>>

-----------------------------------------------------------------------------
(* The main thread: __enter__ and __exit__.                                *)

Enter ==
    /\ main = "before"
    /\ main' = "entering" /\ thread' = "starting"
    /\ UNCHANGED <<vars, host, ready, listening, stopper, halt>>

\* Mutant: __enter__ returns once the thread is started.
EnteredEarly ==
    /\ main = "entering"
    /\ main' = "body"
    /\ UNCHANGED <<vars, host, thread, ready, listening, stopper, halt>>

Entered ==
    /\ main = "entering" /\ ready
    /\ main' = "body"
    /\ UNCHANGED <<vars, host, thread, ready, listening, stopper, halt>>

\* _ready.wait(timeout=5) returns FALSE: HozoError, and nothing stops the thread.
EnterTimeout ==
    /\ main = "entering" /\ ~ready
    /\ thread = "failed" \/ slow
    /\ main' = "no_start"
    /\ UNCHANGED <<vars, host, thread, ready, listening, stopper, halt>>

\* The with block ends, whether it returns or raises.
Exit ==
    /\ main = "body"
    /\ main' = "stopping" /\ stopper' = "scheduled"
    /\ UNCHANGED <<vars, host, thread, ready, listening, halt>>

\* Mutant: the loop is told to stop, and nobody waits until it has.
ExitStoppedNoJoin ==
    /\ main = "stopping" /\ stopper = "finished"
    /\ main' = "exited" /\ halt' = TRUE
    /\ UNCHANGED <<vars, host, thread, ready, listening, stopper>>

ExitStopped ==
    /\ main = "stopping" /\ stopper = "finished"
    /\ main' = "joining" /\ halt' = TRUE
    /\ UNCHANGED <<vars, host, thread, ready, listening, stopper>>

\* Mutant: result() without a timeout.
ExitTimeoutNever == main = "stopped" /\ UNCHANGED allvars

\* result(timeout=5) raises TimeoutError; the lines below it do not run.
ExitTimeout ==
    /\ main = "stopping" /\ stopper # "finished"
    /\ (stopper = "waiting" /\ Attached # {}) \/ slow
    /\ main' = "no_stop"
    /\ UNCHANGED <<vars, host, thread, ready, listening, stopper, halt>>

Joined ==
    /\ main = "joining" /\ thread = "ended"
    /\ main' = "exited"
    /\ UNCHANGED <<vars, host, thread, ready, listening, stopper, halt>>

\* join(timeout=5) gives up and loop.close raises RuntimeError: it is running.
JoinTimeout ==
    /\ main = "joining" /\ thread = "running" /\ slow
    /\ main' = "no_stop"
    /\ UNCHANGED <<vars, host, thread, ready, listening, stopper, halt>>

-----------------------------------------------------------------------------
Serve(c) ==
    /\ LoopRuns
    /\ Loop(c) \/ (listening /\ Accept(c))
    /\ UNCHANGED bvars
PeersAct(c) == Peers(c) /\ UNCHANGED bvars
Thread == StartServer \/ StartFails \/ SetReady \/ StopServer \/ StopResumes \/ LoopHalts
Main ==
    \/ Enter \/ Entered \/ EnterTimeout
    \/ Exit \/ ExitStopped \/ ExitTimeout \/ Joined \/ JoinTimeout

BNext == Thread \/ Main \/ \E c \in Conns : Serve(c) \/ PeersAct(c)

(* Both threads are scheduled, the loop gets past a verdict to its reply,   *)
(* and a wait with a timeout ends. The with block may last for ever.       *)
BFairness ==
    /\ WF_allvars(Thread)
    /\ \A c \in Conns : WF_allvars(LoopRuns /\ Reply(c) /\ UNCHANGED bvars)
    /\ WF_allvars(Main /\ main \notin {"before", "body"})

BSpec == BInit /\ [][BNext]_allvars /\ BFairness

-----------------------------------------------------------------------------
(* Properties.                                                             *)

BTypeOK ==
    /\ TypeOK
    /\ main \in Mains
    /\ thread \in Threads
    /\ ready \in BOOLEAN
    /\ listening \in BOOLEAN
    /\ stopper \in Stoppers
    /\ halt \in BOOLEAN
    /\ waits \in BOOLEAN /\ slow \in BOOLEAN

\* "It is listening once __enter__ returns" (proxy.py:233), and goes on
\* listening to the end of the block: the command that runs in the block
\* never finds its proxy absent.
ListeningInBody == main = "body" => listening /\ thread = "running"

\* "... and stops on exit" (proxy.py:234): whichever way __exit__ ends, the
\* loop is no longer running, five seconds being plenty.
StopsOnExit == main \in {"exited", "no_stop"} /\ ~slow => ~LoopRuns

\* So it is where wait_closed returns at once, with connections in every phase.
StopsWherePrompt == ~waits => StopsOnExit

\* Entering and leaving the block end, though the loop's thread may die and
\* connections may never close.
BlockReturns ==
    /\ main = "entering" ~> main \in {"body", "no_start"}
    /\ main = "stopping" ~> main \in {"exited", "no_stop"}

\* What the audit counts is final when the block is left: no connection gets
\* a new record, is accepted or is granted afterwards.
NoRecordAfterExit ==
    [][main = "exited" =>
         log' = log /\ reply' = reply /\ \A c \in Conns : pc[c] = "new" => pc'[c] = "new"]_allvars

\* Where wait_closed waits and the block was left without an exception, the stop
\* cut nobody off (proxy.py:153): every client that was accepted is off, in
\* whichever phase stop() met it, and it either went itself or was answered, but
\* for a host whose exception ends the handler without a reply.
NobodyCutOff ==
    waits /\ main = "exited" =>
      \A c \in Conns : pc[c] # "new" =>
        /\ link[c]["client"] \in Over
        /\ link[c]["client"] = "closed" => reply[c] # 0 \/ req[c] = BadHost
=============================================================================
