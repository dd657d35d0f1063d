---------------------------- MODULE ConnectProxy ----------------------------
(***************************************************************************)
(* The CONNECT proxy of src/hozo/proxy.py: class ConnectProxy, one handler *)
(* task per accepted connection, all on one event loop.                    *)
(*                                                                         *)
(* A handler runs from one await to the next without being interrupted by  *)
(* the other handlers, but the kernel is not stopped: a peer may reset its *)
(* connection between the verdict and the reply, so a verdict and the      *)
(* write of its reply are two actions ("refuse" and "grant" are the points *)
(* between them, and not awaits).                                          *)
(*                                                                         *)
(* Bytes are abstracted to what the handlers branch on: how much of a      *)
(* request head was sent, and whether a write buffer is empty, below or    *)
(* above asyncio's high-water mark.                                        *)
(***************************************************************************)
EXTENDS Naturals

CONSTANTS
    Conns,           \* the client connections that may be made
    Targets,         \* what a well-formed CONNECT may ask for: host and port
    Allowed,         \* the targets _domain_matches accepts under allowed_hosts
    NotConnect,      \* any other request line
    BadPort,         \* CONNECT with a port int() refuses
    BadHost,         \* CONNECT with a host inet_aton refuses with ValueError (a NUL in it)
    NoReq,           \* no request line yet
    FinalizerCloses  \* StreamWriter.__del__ closes its transport (late 3.11 releases on)

ASSUME AllowedAssumption == Allowed \subseteq Targets
ASSUME RequestsAssumption ==
    /\ NotConnect # BadPort /\ NotConnect # BadHost /\ BadPort # BadHost
    /\ NoReq \notin {NotConnect, BadPort, BadHost}
    /\ {NotConnect, BadPort, BadHost, NoReq} \cap Targets = {}
ASSUME FinalizerAssumption == FinalizerCloses \in BOOLEAN

Requests == Targets \cup {NotConnect, BadPort, BadHost}

VARIABLES
    pc,       \* where each connection's handler is
    sent,     \* how much of its request head the client has sent
    req,      \* the request that head makes (NoReq until the request line is sent)
    verdict,  \* what the handler decided
    reply,    \* the status line written to the client, 0 before
    log,      \* the record the connection left in the hozo.proxy logger
    link,     \* the transport to the client and the one to the target
    buf,      \* their write buffers: 0 empty, 1 in use, 2 above the high-water mark
    pipe      \* the two copying coroutines of _relay

vars == <<pc, sent, req, verdict, reply, log, link, buf, pipe>>

Sides == {"client", "upstream"}
Pipes == {"up", "down"}
Src(p) == IF p = "up" THEN "client" ELSE "upstream"
Dst(p) == IF p = "up" THEN "upstream" ELSE "client"

PCs == {"new", "head", "refuse", "shut", "dial", "grant", "relay", "abort", "done"}
Verdicts == {"none", "INVALID", "DROP", "BLOCK", "FAIL", "ALLOW"}
Records == Verdicts \ {"INVALID"}
Links == {"none", "open", "fin", "closing", "closed", "reset"}
PipeStates == {"idle", "reading", "draining", "closing", "done"}

Live == {"open", "fin"}       \* a transport that still takes writes
Over == {"closed", "reset"}   \* connection_lost has been called

Status(v) == CASE v = "ALLOW" -> 200
               [] v = "BLOCK" -> 403
               [] v = "FAIL"  -> 502
               [] OTHER       -> 400

Init ==
    /\ pc = [c \in Conns |-> "new"]
    /\ sent = [c \in Conns |-> "nothing"]
    /\ req = [c \in Conns |-> NoReq]
    /\ verdict = [c \in Conns |-> "none"]
    /\ reply = [c \in Conns |-> 0]
    /\ log = [c \in Conns |-> "none"]
    /\ link = [c \in Conns |-> [s \in Sides |-> "none"]]
    /\ buf = [c \in Conns |-> [s \in Sides |-> 0]]
    /\ pipe = [c \in Conns |-> [p \in Pipes |-> "idle"]]

-----------------------------------------------------------------------------
(* The peers and the kernel.                                               *)

SendLine(c, r) ==
    /\ pc[c] = "head" /\ link[c]["client"] = "open" /\ sent[c] = "nothing"
    /\ sent' = [sent EXCEPT ![c] = "line"]
    /\ req' = [req EXCEPT ![c] = r]
    /\ UNCHANGED <<pc, verdict, reply, log, link, buf, pipe>>

\* The blank line that ends the headers, or headers past _MAX_HEADER_BYTES.
SendRest(c) ==
    /\ pc[c] = "head" /\ link[c]["client"] = "open"
    /\ \/ sent[c] = "line" /\ sent' = [sent EXCEPT ![c] = "head"]
       \/ sent[c] \in {"nothing", "line"} /\ sent' = [sent EXCEPT ![c] = "flood"]
    /\ UNCHANGED <<pc, req, verdict, reply, log, link, buf, pipe>>

\* A peer ends its own direction. StreamReaderProtocol.eof_received keeps the
\* transport open, so the other direction goes on.
PeerFin(c, s) ==
    /\ link[c][s] = "open"
    /\ link' = [link EXCEPT ![c][s] = "fin"]
    /\ UNCHANGED <<pc, sent, req, verdict, reply, log, buf, pipe>>

\* A peer resets the connection: reads and drains raise from now on.
PeerReset(c, s) ==
    /\ link[c][s] \in Live \cup {"closing"}
    /\ link' = [link EXCEPT ![c][s] = "reset"]
    /\ buf' = [buf EXCEPT ![c][s] = 0]
    /\ UNCHANGED <<pc, sent, req, verdict, reply, log, pipe>>

\* A peer reads, and the write buffer shrinks.
PeerTakes(c, s) ==
    /\ buf[c][s] > 0
    /\ buf' = [buf EXCEPT ![c][s] = @ - 1]
    /\ UNCHANGED <<pc, sent, req, verdict, reply, log, link, pipe>>

\* A transport that close() was called on is lost once its buffer is flushed.
LinkClosed(c, s) ==
    /\ link[c][s] = "closing" /\ buf[c][s] = 0
    /\ link' = [link EXCEPT ![c][s] = "closed"]
    /\ UNCHANGED <<pc, sent, req, verdict, reply, log, buf, pipe>>

\* An upstream writer nobody closed goes with the frame of _handle_connect.
Finalize(c) ==
    /\ FinalizerCloses
    /\ pc[c] = "done" /\ link[c]["upstream"] \in Live
    /\ link' = [link EXCEPT ![c]["upstream"] = "closing"]
    /\ UNCHANGED <<pc, sent, req, verdict, reply, log, buf, pipe>>

-----------------------------------------------------------------------------
(* _handle_client, _read_request_head and _handle_connect.                 *)

\* StreamWriter.close: nothing happens to a transport already closing or lost.
Close(l) == IF l \in Live THEN "closing" ELSE l

Accept(c) ==
    /\ pc[c] = "new"
    /\ pc' = [pc EXCEPT ![c] = "head"]
    /\ link' = [link EXCEPT ![c]["client"] = "open"]
    /\ UNCHANGED <<sent, req, verdict, reply, log, buf, pipe>>

Decide(c, v, next) ==
    /\ pc' = [pc EXCEPT ![c] = next]
    /\ verdict' = [verdict EXCEPT ![c] = v]
    /\ UNCHANGED <<sent, req, reply, log, link, buf, pipe>>

\* An exception reaches _handle_client, which closes the client's writer only.
Raise(c) ==
    /\ pc' = [pc EXCEPT ![c] = "abort"]
    /\ link' = [link EXCEPT ![c]["client"] = Close(@)]
    /\ UNCHANGED <<sent, req, verdict, reply, log, buf, pipe>>

\* The head is read: whole, or cut short by the client's FIN, which readline
\* reports as an empty line.
HeadRead(c) ==
    /\ pc[c] = "head" /\ link[c]["client"] \in Live /\ sent[c] # "flood"
    /\ sent[c] = "head" \/ link[c]["client"] = "fin"

RefuseRequest(c) ==
    /\ HeadRead(c)
    /\ req[c] \in {NoReq, NotConnect, BadPort}
    /\ Decide(c, "INVALID", "refuse")

BreakOnHost(c) ==
    /\ HeadRead(c)
    /\ req[c] = BadHost
    /\ Raise(c)

Block(c) ==
    /\ HeadRead(c)
    /\ req[c] \in Targets \ Allowed
    /\ Decide(c, "BLOCK", "refuse")

\* Mutant: the allowlist is not consulted.
DialAny(c) ==
    /\ HeadRead(c)
    /\ req[c] \in Targets
    /\ Decide(c, verdict[c], "dial")

\* Mutant: ALLOW is logged when the dial starts.
DialLogged(c) ==
    /\ HeadRead(c)
    /\ req[c] \in Allowed
    /\ pc' = [pc EXCEPT ![c] = "dial"]
    /\ log' = [log EXCEPT ![c] = "ALLOW"]
    /\ UNCHANGED <<sent, req, verdict, reply, link, buf, pipe>>

Dial(c) ==
    /\ HeadRead(c)
    /\ req[c] \in Allowed
    /\ Decide(c, verdict[c], "dial")

\* The size budget, or the ten seconds for the whole head.
HeadTooLarge(c) ==
    /\ pc[c] = "head" /\ link[c]["client"] \in Live /\ sent[c] = "flood"
    /\ Decide(c, "DROP", "refuse")

\* Mutant: the head is read without a deadline.
HeadTimeoutNever(c) == pc[c] = "timeout" /\ Decide(c, "DROP", "refuse")

HeadTimeout(c) ==
    /\ pc[c] = "head" /\ link[c]["client"] \in Live
    /\ Decide(c, "DROP", "refuse")

\* readline raises the client's reset.
HeadLost(c) ==
    /\ pc[c] = "head" /\ link[c]["client"] = "reset"
    /\ Raise(c)

\* _reject: write, drain, close. A drain that raises skips the rest.
Refuse(c) ==
    /\ pc[c] = "refuse" /\ link[c]["client"] \in Live
    /\ pc' = [pc EXCEPT ![c] = "shut"]
    /\ reply' = [reply EXCEPT ![c] = Status(verdict[c])]
    /\ link' = [link EXCEPT ![c]["client"] = Close(@)]
    /\ UNCHANGED <<sent, req, verdict, log, buf, pipe>>

RefuseLost(c) ==
    /\ pc[c] = "refuse" /\ link[c]["client"] = "reset"
    /\ Raise(c)

\* Mutant: a failed dial is answered but not logged.
LogRefusalNoFail(c) ==
    /\ pc[c] = "shut" /\ link[c]["client"] \in Over
    /\ pc' = [pc EXCEPT ![c] = "done"]
    /\ log' = [log EXCEPT ![c] = IF verdict[c] \in {"DROP", "BLOCK"} THEN verdict[c] ELSE @]
    /\ UNCHANGED <<sent, req, verdict, reply, link, buf, pipe>>

\* wait_closed returns, and only now the refusal is logged.
LogRefusal(c) ==
    /\ pc[c] = "shut" /\ link[c]["client"] \in Over
    /\ pc' = [pc EXCEPT ![c] = "done"]
    /\ log' = [log EXCEPT ![c] = IF verdict[c] \in Records THEN verdict[c] ELSE @]
    /\ UNCHANGED <<sent, req, verdict, reply, link, buf, pipe>>

\* open_connection has no timeout of its own and does not watch the client.
DialFails(c) ==
    /\ pc[c] = "dial"
    /\ Decide(c, "FAIL", "refuse")

DialConnects(c) ==
    /\ pc[c] = "dial"
    /\ pc' = [pc EXCEPT ![c] = "grant"]
    /\ verdict' = [verdict EXCEPT ![c] = "ALLOW"]
    /\ log' = [log EXCEPT ![c] = "ALLOW"]
    /\ link' = [link EXCEPT ![c]["upstream"] = "open"]
    /\ UNCHANGED <<sent, req, reply, buf, pipe>>

Grant(c) ==
    /\ pc[c] = "grant" /\ link[c]["client"] \in Live
    /\ pc' = [pc EXCEPT ![c] = "relay"]
    /\ reply' = [reply EXCEPT ![c] = Status(verdict[c])]
    /\ pipe' = [pipe EXCEPT ![c] = [p \in Pipes |-> "reading"]]
    /\ UNCHANGED <<sent, req, verdict, log, link, buf>>

GrantLost(c) ==
    /\ pc[c] = "grant" /\ link[c]["client"] = "reset"
    /\ Raise(c)

AbortDone(c) ==
    /\ pc[c] = "abort" /\ link[c]["client"] \in Over
    /\ pc' = [pc EXCEPT ![c] = "done"]
    /\ UNCHANGED <<sent, req, verdict, reply, log, link, buf, pipe>>

-----------------------------------------------------------------------------
(* _relay: two pipes. Only pipe p closes Dst(p); a read from a transport    *)
(* the other pipe closed returns the end of the stream.                    *)

\* Mutant: no drain after the write, so the buffer has no high-water mark.
PipeForwardNoDrain(c, p) ==
    /\ pipe[c][p] = "reading"
    /\ link[c][Src(p)] = "open" /\ link[c][Dst(p)] \in Live
    /\ buf' = [buf EXCEPT ![c][Dst(p)] = @ + 1]
    /\ UNCHANGED <<pc, sent, req, verdict, reply, log, link, pipe>>

\* Mutant: a lost destination goes unnoticed.
PipeForwardBlind(c, p) ==
    /\ pipe[c][p] = "reading" /\ link[c][Src(p)] = "open" /\ buf[c][Dst(p)] < 2
    /\ buf' = [buf EXCEPT ![c][Dst(p)] = @ + 1]
    /\ UNCHANGED <<pc, sent, req, verdict, reply, log, link, pipe>>

PipeForward(c, p) ==
    /\ pipe[c][p] = "reading"
    /\ link[c][Src(p)] = "open" /\ link[c][Dst(p)] \in Live
    /\ \E b \in {buf[c][Dst(p)], buf[c][Dst(p)] + 1} \cap 0..2 :
         /\ buf' = [buf EXCEPT ![c][Dst(p)] = b]
         /\ pipe' = [pipe EXCEPT ![c][p] = IF b = 2 THEN "draining" ELSE "reading"]
    /\ UNCHANGED <<pc, sent, req, verdict, reply, log, link>>

PipeDrained(c, p) ==
    /\ pipe[c][p] = "draining"
    /\ link[c][Dst(p)] \in Live /\ buf[c][Dst(p)] < 2
    /\ pipe' = [pipe EXCEPT ![c][p] = "reading"]
    /\ UNCHANGED <<pc, sent, req, verdict, reply, log, link, buf>>

\* The finally clause: _close(dst), whose flush is awaited.
CloseDst(c, p) ==
    /\ pipe' = [pipe EXCEPT ![c][p] = "closing"]
    /\ link' = [link EXCEPT ![c][Dst(p)] = Close(@)]
    /\ UNCHANGED <<pc, sent, req, verdict, reply, log, buf>>

\* Mutant: no finally clause, the other leg stays open.
PipeEndsAlone(c, p) ==
    /\ pipe[c][p] = "reading"
    /\ link[c][Src(p)] \in {"fin"} \cup Over
    /\ pipe' = [pipe EXCEPT ![c][p] = "done"]
    /\ UNCHANGED <<pc, sent, req, verdict, reply, log, link, buf>>

PipeEnds(c, p) ==
    /\ pipe[c][p] = "reading"
    /\ link[c][Src(p)] \in {"fin"} \cup Over
    /\ CloseDst(c, p)

\* A drain raises. In "reading" it takes a chunk from the other side to see it.
PipeBreaks(c, p) ==
    /\ link[c][Dst(p)] = "reset"
    /\ \/ pipe[c][p] = "reading" /\ link[c][Src(p)] = "open"
       \/ pipe[c][p] = "draining"
    /\ CloseDst(c, p)

PipeDone(c, p) ==
    /\ pipe[c][p] = "closing"
    /\ link[c][Dst(p)] \in Over
    /\ pipe' = [pipe EXCEPT ![c][p] = "done"]
    /\ UNCHANGED <<pc, sent, req, verdict, reply, log, link, buf>>

\* Mutant: the relay returns with the first pipe.
RelayDoneFirst(c) ==
    /\ pc[c] = "relay"
    /\ \E p \in Pipes : pipe[c][p] = "done"
    /\ pc' = [pc EXCEPT ![c] = "done"]
    /\ UNCHANGED <<sent, req, verdict, reply, log, link, buf, pipe>>

RelayDone(c) ==
    /\ pc[c] = "relay"
    /\ \A p \in Pipes : pipe[c][p] = "done"
    /\ pc' = [pc EXCEPT ![c] = "done"]
    /\ UNCHANGED <<sent, req, verdict, reply, log, link, buf, pipe>>

-----------------------------------------------------------------------------
Peers(c) ==
    \/ \E r \in Requests : SendLine(c, r)
    \/ SendRest(c)
    \/ \E s \in Sides : PeerFin(c, s) \/ PeerReset(c, s) \/ PeerTakes(c, s)

Head(c) ==
    \/ RefuseRequest(c) \/ BreakOnHost(c) \/ Block(c) \/ Dial(c)
    \/ HeadTooLarge(c) \/ HeadTimeout(c) \/ HeadLost(c)

Reply(c) ==
    \/ Refuse(c) \/ RefuseLost(c) \/ LogRefusal(c)
    \/ Grant(c) \/ GrantLost(c) \/ AbortDone(c)

Connect(c) == DialFails(c) \/ DialConnects(c)

Relay(c) ==
    \/ \E p \in Pipes :
         PipeForward(c, p) \/ PipeDrained(c, p) \/ PipeEnds(c, p) \/ PipeBreaks(c, p) \/ PipeDone(c, p)
    \/ RelayDone(c)

\* What the event loop does for a connection once it is accepted.
Loop(c) ==
    \/ Head(c) \/ Connect(c) \/ Reply(c) \/ Relay(c)
    \/ \E s \in Sides : LinkClosed(c, s)
    \/ Finalize(c)

Next == \E c \in Conns : Accept(c) \/ Peers(c) \/ Loop(c)

(* The loop runs every ready callback and timer, and the kernel ends every  *)
(* connection attempt. Peers owe nothing: they may neither send nor read,   *)
(* and nobody is obliged to connect.                                        *)
LoopFairness(c) ==
    /\ WF_vars(Head(c))
    /\ WF_vars(Connect(c))
    /\ WF_vars(Reply(c))
    /\ \A p \in Pipes : WF_vars(PipeDrained(c, p) \/ PipeEnds(c, p) \/ PipeDone(c, p))
    /\ \A p \in Pipes : WF_vars(PipeBreaks(c, p) /\ pipe[c][p] = "draining")
    /\ WF_vars(RelayDone(c))
    /\ \A s \in Sides : WF_vars(LinkClosed(c, s))
    /\ WF_vars(Finalize(c))

Fairness == \A c \in Conns : LoopFairness(c)

Spec == Init /\ [][Next]_vars /\ Fairness

-----------------------------------------------------------------------------
(* Properties.                                                             *)

TypeOK ==
    /\ pc \in [Conns -> PCs]
    /\ sent \in [Conns -> {"nothing", "line", "head", "flood"}]
    /\ req \in [Conns -> Requests \cup {NoReq}]
    /\ verdict \in [Conns -> Verdicts]
    /\ reply \in [Conns -> {0, 200, 400, 403, 502}]
    /\ log \in [Conns -> Records]
    /\ link \in [Conns -> [Sides -> Links]]
    /\ buf \in [Conns -> [Sides -> 0..2]]
    /\ pipe \in [Conns -> [Pipes -> PipeStates]]

\* What the audit reads is true: a record in the log agrees with the request,
\* with the status the client was sent and with whether a target was ever
\* connected to. BLOCK and FAIL are written after the reply and ALLOW before
\* it, so the three are only related through the handler's order of steps.
LogTellsTruth ==
    \A c \in Conns :
      /\ log[c] = "ALLOW" => req[c] \in Allowed /\ link[c]["upstream"] # "none"
                              /\ reply[c] \in {0, 200}
      /\ log[c] = "BLOCK" => req[c] \in Targets \ Allowed /\ link[c]["upstream"] = "none"
                              /\ reply[c] = 403
      /\ log[c] = "FAIL" => req[c] \in Allowed /\ link[c]["upstream"] = "none"
                              /\ reply[c] = 502
      /\ log[c] = "DROP" => link[c]["upstream"] = "none" /\ reply[c] = 400

\* No byte of the sandboxed process reaches a host the allowlist refuses: the
\* proxy has a connection to a target, or copies to it, only when the target
\* is allowed and ALLOW is on record.
OnlyAllowedReached ==
    \A c \in Conns :
      /\ pc[c] = "dial" => req[c] \in Allowed
      /\ (link[c]["upstream"] # "none" \/ buf[c]["upstream"] > 0 \/ pipe[c]["up"] # "idle")
           => req[c] \in Allowed /\ log[c] = "ALLOW"

\* A handler that returned left nothing open, on any path: the client's
\* transport is lost, and so is the target's, except one orphaned by a drain
\* that raised before _relay took it over.
NothingLeftOpen ==
    \A c \in Conns : pc[c] = "done" =>
      /\ link[c]["client"] \in Over
      /\ link[c]["upstream"] \in Live \cup {"closing"} => reply[c] = 0

\* A client that was not reset while it waited is on record: every handler
\* that returns after refusing or granting a CONNECT has logged its verdict.
AnsweredIsLogged ==
    \A c \in Conns : pc[c] = "done" /\ reply[c] # 0 /\ req[c] \in Targets => log[c] # "none"

\* Whatever resets, timeouts and failed dials a handler meets, it is a gatekeeper:
\* one decision on one request, at most one answer, and a true record of it.
G == INSTANCE Gatekeeper WITH
       asked <- req, answer <- reply, record <- log,
       reached <- [c \in Conns |-> link[c]["upstream"] # "none"],
       passing <- [c \in Conns |-> pipe[c]["up"] # "idle"],
       left <- [c \in Conns |-> pc[c] = "done"]
ProxyIsGatekeeper == G!Spec

\* A relay never writes to a leg it has closed, and never reopens one: the
\* buffer of a closing transport only shrinks.
NothingWrittenAfterClose ==
    [][\A c \in Conns, s \in Sides :
         link[c][s] \in Over \cup {"closing"} =>
           /\ link'[c][s] \in Over \cup {"closing"}
           /\ buf'[c][s] <= buf[c][s]]_vars

\* Every accepted client is answered or let go, however slowly it sends its
\* head and whatever the dial does.
EveryClientServed ==
    \A c \in Conns : pc[c] = "head" ~> (reply[c] # 0 \/ link[c]["client"] \in Over)

\* The two legs of a tunnel end together: once either peer has ended its
\* direction or reset, the handler returns with both transports lost, unless
\* a peer leaves bytes unread for ever (no timeout guards the flush in _close).
TunnelWindsUp ==
    \A c \in Conns :
      \/ <>[](\E s \in Sides : buf[c][s] > 0)
      \/ (pc[c] = "relay" /\ \E s \in Sides : link[c][s] \notin {"open"}) ~>
           (pc[c] = "done" /\ \A s \in Sides : link[c][s] \in Over)
=============================================================================
