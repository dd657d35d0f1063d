------------------------- MODULE ConnectProxyProofs -------------------------
(* Proofs about ConnectProxy, for every set of connections, targets and     *)
(* allowed targets, and, at the end, about those that a list allows.       *)
EXTENDS AllowlistedProxy, TLAPS

(***************************************************************************)
(* The inductive invariant, for one connection: what each point of the     *)
(* handler knows of the verdict, the reply, the log, the two transports    *)
(* and the pipes. The properties of ConnectProxy relate these only when    *)
(* the handler is done, so they say too little to be preserved.            *)
(***************************************************************************)
Refusals == {"INVALID", "DROP", "BLOCK", "FAIL"}

VerdictFits(c) ==
    /\ verdict[c] = "BLOCK" => req[c] \in Targets \ Allowed
    /\ verdict[c] \in {"FAIL", "ALLOW"} => req[c] \in Allowed
    /\ verdict[c] = "INVALID" => req[c] \notin Targets
    /\ pc[c] = "dial" => req[c] \in Allowed

VerdictPhase(c) ==
    /\ pc[c] \in {"new", "head", "dial"} => verdict[c] = "none"
    /\ pc[c] \in {"refuse", "shut"} => verdict[c] \in Refusals
    /\ pc[c] \in {"grant", "relay"} => verdict[c] = "ALLOW"

ReplyPhase(c) ==
    /\ reply[c] # 0 => pc[c] \in {"shut", "relay", "done"}
    /\ reply[c] # 0 => verdict[c] # "none" /\ reply[c] = Status(verdict[c])
    /\ pc[c] \in {"shut", "relay"} => reply[c] # 0

LogPhase(c) ==
    /\ log[c] = "ALLOW" <=> verdict[c] = "ALLOW"
    /\ log[c] # "none" => log[c] = verdict[c]
    /\ log[c] \in Refusals => reply[c] # 0 /\ pc[c] = "done"
    /\ pc[c] = "done" /\ reply[c] # 0 /\ verdict[c] \in Records => log[c] = verdict[c]

ClientPhase(c) ==
    /\ pc[c] = "new" => link[c]["client"] = "none"
    /\ pc[c] \in {"head", "refuse", "dial", "grant"} => link[c]["client"] \in Live \cup {"reset"}
    /\ pc[c] \in {"shut", "abort"} => link[c]["client"] \in {"closing"} \cup Over
    /\ pc[c] = "done" => link[c]["client"] \in Over

UpstreamPhase(c) ==
    /\ link[c]["upstream"] # "none" <=> verdict[c] = "ALLOW"
    /\ pc[c] = "grant" => link[c]["upstream"] \in Live \cup {"reset"}

\* A pipe that copies has not closed its destination; one that ended has.
PipePhase(c, p) ==
    /\ pipe[c][p] # "idle" => pc[c] \in {"relay", "done"} /\ reply[c] = 200
    /\ pipe[c][p] = "idle" => reply[c] # 200 /\ buf[c][Dst(p)] = 0
    /\ pipe[c][p] \in {"reading", "draining"} =>
         pc[c] = "relay" /\ link[c][Dst(p)] \in Live \cup {"reset"}
    /\ pipe[c][p] = "closing" => pc[c] = "relay" /\ link[c][Dst(p)] \in {"closing"} \cup Over
    /\ pipe[c][p] = "done" => link[c][Dst(p)] \in Over

ConnInv(c) ==
    /\ VerdictFits(c)
    /\ VerdictPhase(c)
    /\ ReplyPhase(c)
    /\ LogPhase(c)
    /\ ClientPhase(c)
    /\ UpstreamPhase(c)
    /\ \A p \in Pipes : PipePhase(c, p)

IInv == TypeOK /\ \A c \in Conns : ConnInv(c)

-----------------------------------------------------------------------------
(* Type correctness.                                                       *)

\* Every variable keeps its type, whatever the connections and targets.
LEMMA TypeInit == Init => TypeOK
BY DEF Init, TypeOK, PCs, Verdicts, Records, Links, PipeStates, Sides, Pipes, Requests

\* An update of one cell of a function of functions keeps the type of the whole.
LEMMA NestedExcept ==
    ASSUME NEW S, NEW T, NEW V, NEW f \in [S -> [T -> V]], NEW a \in S, NEW b \in T, NEW v \in V
    PROVE  [f EXCEPT ![a][b] = v] \in [S -> [T -> V]]
OBVIOUS

\* A transport or buffer update keeps the types of link, buf and pipe.
LEMMA TypeRaise ==
    ASSUME TypeOK, NEW c \in Conns, Raise(c)
    PROVE  TypeOK'
<1>1. "client" \in Sides /\ "abort" \in PCs
  BY DEF Sides, PCs
<1>2. link[c]["client"] \in Links
  BY <1>1 DEF TypeOK
<1>3. Close(link[c]["client"]) \in Links
  BY <1>2 DEF Close, Links
<1>4. link' \in [Conns -> [Sides -> Links]]
  BY <1>1, <1>3, NestedExcept DEF TypeOK, Raise
<1> QED
  BY <1>1, <1>4 DEF TypeOK, Raise

\* A verdict that moves a handler on keeps the types.
LEMMA TypeDecide ==
    ASSUME TypeOK, NEW c \in Conns, NEW v \in Verdicts, NEW next \in PCs, Decide(c, v, next)
    PROVE  TypeOK'
BY DEF TypeOK, Decide

\* Every step keeps the types.
LEMMA TypeNext == TypeOK /\ [Next]_vars => TypeOK'
<1> SUFFICES ASSUME TypeOK, [Next]_vars PROVE TypeOK'
  OBVIOUS
<1>1. CASE UNCHANGED vars
  BY <1>1 DEF TypeOK, vars
<1>2. ASSUME NEW c \in Conns, Accept(c)
      PROVE TypeOK'
  BY <1>2, NestedExcept DEF TypeOK, Accept, Sides, Links, PCs
<1>3. ASSUME NEW c \in Conns, Peers(c)
      PROVE TypeOK'
  <2>1. CASE \E r \in Requests : SendLine(c, r)
    <3>1. PICK r \in Requests : SendLine(c, r)
      BY <2>1
    <3>2. sent' \in [Conns -> {"nothing", "line", "head", "flood"}]
      BY <3>1 DEF TypeOK, SendLine
    <3>3. req' \in [Conns -> Requests \cup {NoReq}]
      BY <3>1 DEF TypeOK, SendLine
    <3> QED
      BY <3>1, <3>2, <3>3 DEF TypeOK, SendLine
  <2>2. CASE SendRest(c)
    <3>1. sent' \in [Conns -> {"nothing", "line", "head", "flood"}]
      BY <2>2 DEF TypeOK, SendRest
    <3> QED
      BY <2>2, <3>1 DEF TypeOK, SendRest
  <2>3. ASSUME NEW s \in Sides, PeerFin(c, s)
        PROVE TypeOK'
    BY <2>3, NestedExcept DEF TypeOK, PeerFin, Links
  <2>4. ASSUME NEW s \in Sides, PeerReset(c, s)
        PROVE TypeOK'
    BY <2>4, NestedExcept DEF TypeOK, PeerReset, Links
  <2>5. ASSUME NEW s \in Sides, PeerTakes(c, s)
        PROVE TypeOK'
    <3>1. buf[c][s] - 1 \in 0..2
      BY <2>5 DEF TypeOK, PeerTakes
    <3>2. buf' \in [Conns -> [Sides -> 0..2]]
      BY <2>5, <3>1, NestedExcept DEF TypeOK, PeerTakes
    <3> QED
      BY <2>5, <3>2 DEF TypeOK, PeerTakes
  <2> QED
    BY <1>3, <2>1, <2>2, <2>3, <2>4, <2>5 DEF Peers
<1>4. ASSUME NEW c \in Conns, Head(c)
      PROVE TypeOK'
  <2>1. CASE BreakOnHost(c) \/ HeadLost(c)
    BY <2>1, TypeRaise DEF BreakOnHost, HeadLost
  <2>2. CASE RefuseRequest(c) \/ Block(c) \/ Dial(c) \/ HeadTooLarge(c) \/ HeadTimeout(c)
    <3>1. verdict[c] \in Verdicts
      BY DEF TypeOK
    <3>2. Decide(c, "INVALID", "refuse") \/ Decide(c, "BLOCK", "refuse")
            \/ Decide(c, verdict[c], "dial") \/ Decide(c, "DROP", "refuse")
      BY <2>2 DEF RefuseRequest, Block, Dial, HeadTooLarge, HeadTimeout
    <3>3. {"INVALID", "BLOCK", "DROP"} \subseteq Verdicts /\ {"refuse", "dial"} \subseteq PCs
      BY DEF Verdicts, PCs
    <3> QED
      BY <3>1, <3>2, <3>3, TypeDecide
  <2> QED
    BY <1>4, <2>1, <2>2 DEF Head
<1>5. ASSUME NEW c \in Conns, Connect(c)
      PROVE TypeOK'
  <2>1. CASE DialFails(c)
    BY <2>1, TypeDecide DEF PCs, Verdicts, DialFails
  <2>2. CASE DialConnects(c)
    <3>1. link' \in [Conns -> [Sides -> Links]]
      BY <2>2, NestedExcept DEF TypeOK, Links, Sides, DialConnects
    <3> QED
      BY <2>2, <3>1 DEF TypeOK, PCs, Verdicts, Records, DialConnects
  <2> QED
    BY <1>5, <2>1, <2>2 DEF Connect
<1>6. ASSUME NEW c \in Conns, Reply(c)
      PROVE TypeOK'
  <2>1. CASE RefuseLost(c) \/ GrantLost(c)
    BY <2>1, TypeRaise DEF RefuseLost, GrantLost
  <2>2. CASE Refuse(c)
    <3>1. reply' \in [Conns -> {0, 200, 400, 403, 502}]
      BY <2>2 DEF TypeOK, Refuse, Status
    <3>2. link' \in [Conns -> [Sides -> Links]]
      BY <2>2, NestedExcept DEF TypeOK, Refuse, Close, Links, Sides, Live
    <3> QED
      BY <2>2, <3>1, <3>2 DEF TypeOK, PCs, Refuse
  <2>3. CASE Grant(c)
    <3>1. reply' \in [Conns -> {0, 200, 400, 403, 502}]
      BY <2>3 DEF TypeOK, Grant, Status
    <3>2. pipe' \in [Conns -> [Pipes -> PipeStates]]
      BY <2>3 DEF TypeOK, Grant, PipeStates
    <3> QED
      BY <2>3, <3>1, <3>2 DEF TypeOK, PCs, Grant
  <2>4. CASE LogRefusal(c)
    <3>1. pc' \in [Conns -> PCs]
      BY <2>4 DEF TypeOK, PCs, LogRefusal
    <3>2. log' \in [Conns -> Records]
      BY <2>4 DEF TypeOK, LogRefusal
    <3> QED
      BY <2>4, <3>1, <3>2 DEF TypeOK, LogRefusal
  <2>5. CASE AbortDone(c)
    BY <2>5 DEF TypeOK, PCs, AbortDone
  <2> QED
    BY <1>6, <2>1, <2>2, <2>3, <2>4, <2>5 DEF Reply
<1>7. ASSUME NEW c \in Conns, Relay(c)
      PROVE TypeOK'
  <2>1. ASSUME NEW p \in Pipes, PipeForward(c, p)
        PROVE TypeOK'
    <3>1. Dst(p) \in Sides
      BY DEF Dst, Sides
    <3>2. PICK b \in 0..2 :
            /\ buf' = [buf EXCEPT ![c][Dst(p)] = b]
            /\ pipe' = [pipe EXCEPT ![c][p] = IF b = 2 THEN "draining" ELSE "reading"]
      BY <2>1 DEF PipeForward
    <3>3. buf' \in [Conns -> [Sides -> 0..2]]
      BY <3>1, <3>2, NestedExcept DEF TypeOK
    <3>4. pipe' \in [Conns -> [Pipes -> PipeStates]]
      BY <3>2, NestedExcept DEF TypeOK, PipeStates
    <3> QED
      BY <2>1, <3>3, <3>4 DEF TypeOK, PipeForward
  <2>2. ASSUME NEW p \in Pipes, PipeDrained(c, p) \/ PipeDone(c, p)
        PROVE TypeOK'
    <3>1. PICK l \in PipeStates : pipe' = [pipe EXCEPT ![c][p] = l]
      BY <2>2 DEF PipeStates, PipeDrained, PipeDone
    <3>2. pipe' \in [Conns -> [Pipes -> PipeStates]]
      BY <3>1, NestedExcept DEF TypeOK
    <3> QED
      BY <2>2, <3>2 DEF TypeOK, PipeDrained, PipeDone
  <2>3. ASSUME NEW p \in Pipes, PipeEnds(c, p) \/ PipeBreaks(c, p)
        PROVE TypeOK'
    <3>1. Dst(p) \in Sides
      BY DEF Dst, Sides
    <3>2. Close(link[c][Dst(p)]) \in Links
      BY <3>1 DEF TypeOK, Close, Links
    <3>3. CloseDst(c, p)
      BY <2>3 DEF PipeEnds, PipeBreaks
    <3>4. link' \in [Conns -> [Sides -> Links]]
      BY <3>1, <3>2, <3>3, NestedExcept DEF TypeOK, CloseDst
    <3>5. pipe' \in [Conns -> [Pipes -> PipeStates]]
      BY <3>3, NestedExcept DEF TypeOK, CloseDst, PipeStates
    <3> QED
      BY <3>3, <3>4, <3>5 DEF TypeOK, CloseDst
  <2>4. CASE RelayDone(c)
    BY <2>4 DEF TypeOK, PCs, RelayDone
  <2> QED
    BY <1>7, <2>1, <2>2, <2>3, <2>4 DEF Relay
<1>8. ASSUME NEW c \in Conns, NEW s \in Sides, LinkClosed(c, s)
      PROVE TypeOK'
  BY <1>8, NestedExcept DEF TypeOK, Links, LinkClosed
<1>9. ASSUME NEW c \in Conns, Finalize(c)
      PROVE TypeOK'
  BY <1>9, NestedExcept DEF TypeOK, Links, Sides, Finalize
<1> QED
  BY <1>1, <1>2, <1>3, <1>4, <1>5, <1>6, <1>7, <1>8, <1>9 DEF Next, Loop

\* The type invariant of the proxy.
THEOREM TypeCorrect == Spec => []TypeOK
<1>1. Init => TypeOK
  BY TypeInit
<1>2. TypeOK /\ [Next]_vars => TypeOK'
  BY TypeNext
<1> QED
  BY <1>1, <1>2, PTL DEF Spec

-----------------------------------------------------------------------------
(* The inductive invariant.                                                *)

\* What a step does not touch of connection d.
Same(d) ==
    /\ pc'[d] = pc[d] /\ sent'[d] = sent[d] /\ req'[d] = req[d]
    /\ verdict'[d] = verdict[d] /\ reply'[d] = reply[d] /\ log'[d] = log[d]
    /\ link'[d] = link[d] /\ buf'[d] = buf[d] /\ pipe'[d] = pipe[d]

\* The invariant of a connection depends on that connection's own state only.
LEMMA SameKeeps ==
    ASSUME NEW d \in Conns, Same(d), ConnInv(d)
    PROVE  ConnInv(d)'
BY DEF Same, ConnInv, VerdictFits, VerdictPhase, ReplyPhase, LogPhase, ClientPhase, UpstreamPhase,
       PipePhase, Dst

\* The handlers share nothing: a step of one connection leaves the others alone.
LEMMA OthersSame ==
    ASSUME TypeOK, NEW c \in Conns, NEW d \in Conns, d # c,
           Accept(c) \/ Peers(c) \/ Loop(c)
    PROVE  Same(d)
<1>1. CASE Accept(c)
  BY <1>1 DEF TypeOK, Accept, Same
<1>2. CASE Peers(c)
  BY <1>2 DEF TypeOK, Peers, SendLine, SendRest, PeerFin, PeerReset, PeerTakes, Same
<1>3. CASE Head(c)
  BY <1>3 DEF TypeOK, Head, RefuseRequest, BreakOnHost, Block, Dial, HeadTooLarge, HeadTimeout,
              HeadLost, Decide, Raise, Same
<1>4. CASE Connect(c)
  BY <1>4 DEF TypeOK, Connect, DialFails, DialConnects, Decide, Same
<1>5. CASE Reply(c)
  BY <1>5 DEF TypeOK, Reply, Refuse, RefuseLost, LogRefusal, Grant, GrantLost, AbortDone, Raise, Same
<1>6. CASE Relay(c)
  BY <1>6 DEF TypeOK, Relay, PipeForward, PipeDrained, PipeEnds, PipeBreaks, PipeDone, RelayDone,
              CloseDst, Same
<1>7. CASE Finalize(c) \/ \E s \in Sides : LinkClosed(c, s)
  BY <1>7 DEF TypeOK, Finalize, LinkClosed, Same
<1> QED
  BY <1>1, <1>2, <1>3, <1>4, <1>5, <1>6, <1>7 DEF Loop

\* Raise, from a point where nothing was written to the client.
LEMMA RaiseKeeps ==
    ASSUME TypeOK, NEW c \in Conns, ConnInv(c), Raise(c), pc[c] \in {"head", "refuse", "grant"}
    PROVE  ConnInv(c)'
<1>1. /\ pc'[c] = "abort" /\ link'[c]["client"] = Close(link[c]["client"])
      /\ link'[c]["upstream"] = link[c]["upstream"]
      /\ verdict'[c] = verdict[c] /\ reply'[c] = reply[c] /\ req'[c] = req[c]
      /\ log'[c] = log[c] /\ pipe'[c] = pipe[c] /\ buf'[c] = buf[c]
  BY DEF TypeOK, Raise, Sides
<1>2. VerdictFits(c)' /\ VerdictPhase(c)' /\ ReplyPhase(c)' /\ LogPhase(c)'
  BY <1>1 DEF ConnInv, VerdictFits, VerdictPhase, ReplyPhase, LogPhase, Refusals
<1>3. ClientPhase(c)' /\ UpstreamPhase(c)'
  BY <1>1 DEF ConnInv, ClientPhase, UpstreamPhase, Close, Live, Over
<1>4. ASSUME NEW p \in Pipes
      PROVE PipePhase(c, p)'
  <2>1. pipe[c][p] = "idle" /\ reply[c] # 200 /\ buf[c][Dst(p)] = 0
    BY <1>4 DEF ConnInv, PipePhase
  <2> QED
    BY <1>1, <2>1 DEF PipePhase, Dst
<1> QED
  BY <1>2, <1>3, <1>4 DEF ConnInv

\* Decide, from the head or the dial.
LEMMA DecideKeeps ==
    ASSUME TypeOK, NEW c \in Conns, ConnInv(c), pc[c] \in {"head", "dial"},
           NEW v \in Verdicts, NEW next \in {"refuse", "dial"}, Decide(c, v, next),
           v = "BLOCK" => req[c] \in Targets \ Allowed,
           v = "FAIL" \/ next = "dial" => req[c] \in Allowed,
           v = "INVALID" => req[c] \notin Targets,
           next = "dial" => v = "none",
           next = "refuse" => v \in Refusals
    PROVE  ConnInv(c)'
<1>1. /\ pc'[c] = next /\ verdict'[c] = v
      /\ link'[c] = link[c] /\ reply'[c] = reply[c] /\ req'[c] = req[c]
      /\ log'[c] = log[c] /\ pipe'[c] = pipe[c] /\ buf'[c] = buf[c]
  BY DEF TypeOK, Decide
<1>2. VerdictFits(c)' /\ VerdictPhase(c)'
  BY <1>1 DEF VerdictFits, VerdictPhase, Refusals
<1>3. reply[c] = 0 /\ log[c] = "none"
  BY DEF ConnInv, VerdictPhase, ReplyPhase, LogPhase
<1>4. ReplyPhase(c)' /\ LogPhase(c)'
  BY <1>1, <1>3 DEF ReplyPhase, LogPhase, Refusals
<1>5. ClientPhase(c)' /\ UpstreamPhase(c)'
  BY <1>1 DEF ConnInv, ClientPhase, UpstreamPhase, VerdictPhase, Refusals
<1>6. ASSUME NEW p \in Pipes
      PROVE PipePhase(c, p)'
  BY <1>1, <1>3 DEF ConnInv, TypeOK, PipePhase, PipeStates
<1> QED
  BY <1>2, <1>4, <1>5, <1>6 DEF ConnInv

\* What happens to a transport by itself: a FIN, a reset, the end of a flush.
LEMMA LinkKeeps ==
    ASSUME TypeOK, NEW c \in Conns, NEW s \in Sides, ConnInv(c),
           PeerFin(c, s) \/ PeerReset(c, s) \/ LinkClosed(c, s)
    PROVE  ConnInv(c)'
<1>1. /\ pc'[c] = pc[c] /\ verdict'[c] = verdict[c] /\ reply'[c] = reply[c]
      /\ req'[c] = req[c] /\ log'[c] = log[c] /\ pipe'[c] = pipe[c]
  BY DEF TypeOK, PeerFin, PeerReset, LinkClosed
<1>2. ASSUME NEW t \in Sides
      PROVE buf'[c][t] = buf[c][t] \/ buf'[c][t] = 0
  BY DEF TypeOK, PeerFin, PeerReset, LinkClosed
<1>3. ASSUME NEW t \in Sides, t # s
      PROVE link'[c][t] = link[c][t]
  BY <1>3 DEF TypeOK, PeerFin, PeerReset, LinkClosed
<1>4. /\ link[c][s] \in Live => link'[c][s] \in {"fin", "reset"}
      /\ link[c][s] = "closing" => link'[c][s] \in Over
      /\ link[c][s] \in Live \cup {"closing"}
  <2>1. CASE PeerFin(c, s)
    BY <2>1 DEF TypeOK, PeerFin, Live, Over
  <2>2. CASE PeerReset(c, s)
    BY <2>2 DEF TypeOK, PeerReset, Live, Over
  <2>3. CASE LinkClosed(c, s)
    BY <2>3 DEF TypeOK, LinkClosed, Live, Over
  <2> QED
    BY <2>1, <2>2, <2>3
<1>5. ASSUME NEW t \in Sides
      PROVE /\ link[c][t] \in Live \cup {"reset"} => link'[c][t] \in Live \cup {"reset"}
            /\ link[c][t] \in {"closing"} \cup Over => link'[c][t] \in {"closing"} \cup Over
            /\ link[c][t] \in Over => link'[c][t] \in Over
            /\ link[c][t] = "none" <=> link'[c][t] = "none"
  BY <1>3, <1>4 DEF Live, Over
<1>6. VerdictFits(c)' /\ VerdictPhase(c)' /\ ReplyPhase(c)' /\ LogPhase(c)'
  BY <1>1 DEF ConnInv, VerdictFits, VerdictPhase, ReplyPhase, LogPhase
<1>7. ClientPhase(c)'
  BY <1>1, <1>5 DEF ConnInv, ClientPhase, Sides
<1>8. UpstreamPhase(c)'
  BY <1>1, <1>5 DEF ConnInv, UpstreamPhase, Sides
<1>9. ASSUME NEW p \in Pipes
      PROVE PipePhase(c, p)'
  <2>1. Dst(p) \in Sides
    BY DEF Dst, Sides
  <2>2. PipePhase(c, p)
    BY DEF ConnInv
  <2>3. Dst(p)' = Dst(p)
    BY DEF Dst
  <2> QED
    BY <1>1, <1>2, <1>5, <2>1, <2>2, <2>3 DEF PipePhase
<1> QED
  BY <1>6, <1>7, <1>8, <1>9 DEF ConnInv

\* Everything else a peer does, the accept and the finalizer.
LEMMA OutsideKeeps ==
    ASSUME TypeOK, NEW c \in Conns, ConnInv(c), Accept(c) \/ Peers(c) \/ Finalize(c)
    PROVE  ConnInv(c)'
<1>1. CASE Accept(c)
  <2>1. /\ pc[c] = "new" /\ pc'[c] = "head" /\ link'[c]["client"] = "open"
        /\ link'[c]["upstream"] = link[c]["upstream"]
        /\ verdict'[c] = verdict[c] /\ reply'[c] = reply[c] /\ req'[c] = req[c]
        /\ log'[c] = log[c] /\ pipe'[c] = pipe[c] /\ buf'[c] = buf[c]
    BY <1>1 DEF TypeOK, Accept, Sides
  <2>2. VerdictFits(c)' /\ VerdictPhase(c)' /\ ReplyPhase(c)' /\ LogPhase(c)'
    BY <2>1 DEF ConnInv, VerdictFits, VerdictPhase, ReplyPhase, LogPhase
  <2>3. ClientPhase(c)' /\ UpstreamPhase(c)'
    BY <2>1 DEF ConnInv, ClientPhase, UpstreamPhase, Live
  <2>4. ASSUME NEW p \in Pipes
        PROVE PipePhase(c, p)'
    <3>1. pipe[c][p] = "idle" /\ reply[c] # 200 /\ buf[c][Dst(p)] = 0
      BY <2>1 DEF ConnInv, PipePhase
    <3> QED
      BY <2>1, <3>1 DEF PipePhase, Dst
  <2> QED
    BY <2>2, <2>3, <2>4 DEF ConnInv
<1>2. CASE (\E r \in Requests : SendLine(c, r)) \/ SendRest(c)
  <2>1. /\ pc[c] = "head" /\ pc'[c] = "head" /\ link'[c] = link[c]
        /\ verdict'[c] = verdict[c] /\ reply'[c] = reply[c]
        /\ log'[c] = log[c] /\ pipe'[c] = pipe[c] /\ buf'[c] = buf[c]
    BY <1>2 DEF TypeOK, SendLine, SendRest
  <2>2. verdict[c] = "none"
    BY <2>1 DEF ConnInv, VerdictPhase
  <2>3. VerdictFits(c)' /\ VerdictPhase(c)' /\ ReplyPhase(c)' /\ LogPhase(c)'
    BY <2>1, <2>2 DEF ConnInv, VerdictFits, VerdictPhase, ReplyPhase, LogPhase
  <2>4. ClientPhase(c)' /\ UpstreamPhase(c)'
    BY <2>1 DEF ConnInv, ClientPhase, UpstreamPhase
  <2>5. ASSUME NEW p \in Pipes
        PROVE PipePhase(c, p)'
    BY <2>1 DEF ConnInv, PipePhase, Dst
  <2> QED
    BY <2>3, <2>4, <2>5 DEF ConnInv
<1>3. ASSUME NEW s \in Sides, PeerFin(c, s) \/ PeerReset(c, s)
      PROVE ConnInv(c)'
  BY <1>3, LinkKeeps
<1>4. ASSUME NEW s \in Sides, PeerTakes(c, s)
      PROVE ConnInv(c)'
  <2>1. /\ pc'[c] = pc[c] /\ verdict'[c] = verdict[c] /\ reply'[c] = reply[c]
        /\ req'[c] = req[c] /\ log'[c] = log[c] /\ pipe'[c] = pipe[c] /\ link'[c] = link[c]
    BY <1>4 DEF TypeOK, PeerTakes
  <2>2. ASSUME NEW t \in Sides, buf[c][t] = 0
        PROVE buf'[c][t] = 0
    BY <1>4, <2>2 DEF TypeOK, PeerTakes
  <2>3. VerdictFits(c)' /\ VerdictPhase(c)' /\ ReplyPhase(c)' /\ LogPhase(c)'
    BY <2>1 DEF ConnInv, VerdictFits, VerdictPhase, ReplyPhase, LogPhase
  <2>4. ClientPhase(c)' /\ UpstreamPhase(c)'
    BY <2>1 DEF ConnInv, ClientPhase, UpstreamPhase
  <2>5. ASSUME NEW p \in Pipes
        PROVE PipePhase(c, p)'
    <3>1. Dst(p) \in Sides /\ Dst(p)' = Dst(p)
      BY DEF Dst, Sides
    <3> QED
      BY <2>1, <2>2, <3>1 DEF ConnInv, PipePhase
  <2> QED
    BY <2>3, <2>4, <2>5 DEF ConnInv
<1>5. CASE Finalize(c)
  <2>1. /\ pc[c] = "done" /\ link[c]["upstream"] \in Live /\ link'[c]["upstream"] = "closing"
        /\ link'[c]["client"] = link[c]["client"]
        /\ pc'[c] = pc[c] /\ verdict'[c] = verdict[c] /\ reply'[c] = reply[c]
        /\ req'[c] = req[c] /\ log'[c] = log[c] /\ pipe'[c] = pipe[c] /\ buf'[c] = buf[c]
    BY <1>5 DEF TypeOK, Finalize, Sides
  <2>2. VerdictFits(c)' /\ VerdictPhase(c)' /\ ReplyPhase(c)' /\ LogPhase(c)'
    BY <2>1 DEF ConnInv, VerdictFits, VerdictPhase, ReplyPhase, LogPhase
  <2>3. ClientPhase(c)' /\ UpstreamPhase(c)'
    BY <2>1 DEF ConnInv, ClientPhase, UpstreamPhase, Live
  <2>4. ASSUME NEW p \in Pipes
        PROVE pipe[c][p] = "idle"
    <3>1. PipePhase(c, p) /\ PipePhase(c, "up") /\ pipe[c]["up"] \in PipeStates
      BY DEF ConnInv, Pipes, TypeOK
    <3>2. pipe[c]["up"] = "idle"
      BY <2>1, <3>1 DEF PipePhase, PipeStates, Dst, Live, Over
    <3>3. reply[c] # 200
      BY <3>1, <3>2 DEF PipePhase
    <3> QED
      BY <3>1, <3>3 DEF PipePhase
  <2>5. ASSUME NEW p \in Pipes
        PROVE PipePhase(c, p)'
    BY <2>1, <2>4 DEF ConnInv, PipePhase, Dst
  <2> QED
    BY <2>2, <2>3, <2>5 DEF ConnInv
<1> QED
  BY <1>1, <1>2, <1>3, <1>4, <1>5 DEF Peers

\* From the head to the reply.
LEMMA HandlerKeeps ==
    ASSUME TypeOK, NEW c \in Conns, ConnInv(c), Head(c) \/ Connect(c) \/ Reply(c)
    PROVE  ConnInv(c)'
<1>1. CASE BreakOnHost(c) \/ HeadLost(c) \/ RefuseLost(c) \/ GrantLost(c)
  <2>1. Raise(c) /\ pc[c] \in {"head", "refuse", "grant"}
    BY <1>1 DEF BreakOnHost, HeadRead, HeadLost, RefuseLost, GrantLost
  <2> QED
    BY <2>1, RaiseKeeps
<1>2. CASE RefuseRequest(c)
  <2>1. Decide(c, "INVALID", "refuse") /\ pc[c] = "head" /\ req[c] \notin Targets
    BY <1>2, RequestsAssumption DEF RefuseRequest, HeadRead
  <2> QED
    BY <2>1, DecideKeeps DEF Verdicts, Refusals
<1>3. CASE Block(c)
  <2>1. Decide(c, "BLOCK", "refuse") /\ pc[c] = "head" /\ req[c] \in Targets \ Allowed
    BY <1>3 DEF Block, HeadRead
  <2> QED
    BY <2>1, DecideKeeps DEF Verdicts, Refusals
<1>4. CASE Dial(c)
  <2>1. Decide(c, "none", "dial") /\ pc[c] = "head" /\ req[c] \in Allowed
    BY <1>4 DEF Dial, HeadRead, ConnInv, VerdictPhase
  <2> QED
    BY <2>1, DecideKeeps DEF Verdicts
<1>5. CASE HeadTooLarge(c) \/ HeadTimeout(c)
  <2>1. Decide(c, "DROP", "refuse") /\ pc[c] = "head"
    BY <1>5 DEF HeadTooLarge, HeadTimeout
  <2> QED
    BY <2>1, DecideKeeps DEF Verdicts, Refusals
<1>6. CASE DialFails(c)
  <2>1. Decide(c, "FAIL", "refuse") /\ pc[c] = "dial" /\ req[c] \in Allowed
    BY <1>6 DEF DialFails, ConnInv, VerdictFits
  <2> QED
    BY <2>1, DecideKeeps DEF Verdicts, Refusals
<1>7. CASE DialConnects(c)
  <2>1. /\ pc[c] = "dial" /\ pc'[c] = "grant" /\ verdict'[c] = "ALLOW" /\ log'[c] = "ALLOW"
        /\ link'[c]["upstream"] = "open" /\ link'[c]["client"] = link[c]["client"]
        /\ reply'[c] = reply[c] /\ req'[c] = req[c] /\ pipe'[c] = pipe[c] /\ buf'[c] = buf[c]
    BY <1>7 DEF TypeOK, DialConnects, Sides
  <2>2. reply[c] = 0 /\ req[c] \in Allowed
    BY <2>1 DEF ConnInv, ReplyPhase, VerdictFits
  <2>3. VerdictFits(c)' /\ VerdictPhase(c)' /\ ReplyPhase(c)' /\ LogPhase(c)'
    BY <2>1, <2>2 DEF VerdictFits, VerdictPhase, ReplyPhase, LogPhase, Refusals
  <2>4. ClientPhase(c)' /\ UpstreamPhase(c)'
    BY <2>1 DEF ConnInv, ClientPhase, UpstreamPhase, Live
  <2>5. ASSUME NEW p \in Pipes
        PROVE PipePhase(c, p)'
    <3>1. pipe[c][p] = "idle" /\ buf[c][Dst(p)] = 0
      BY <2>1 DEF ConnInv, PipePhase
    <3> QED
      BY <2>1, <2>2, <3>1 DEF PipePhase, Dst
  <2> QED
    BY <2>3, <2>4, <2>5 DEF ConnInv
<1>8. CASE Refuse(c)
  <2>1. /\ pc[c] = "refuse" /\ pc'[c] = "shut" /\ reply'[c] = Status(verdict[c])
        /\ link[c]["client"] \in Live /\ link'[c]["client"] = "closing"
        /\ link'[c]["upstream"] = link[c]["upstream"]
        /\ verdict'[c] = verdict[c] /\ req'[c] = req[c] /\ log'[c] = log[c]
        /\ pipe'[c] = pipe[c] /\ buf'[c] = buf[c]
    BY <1>8 DEF TypeOK, Refuse, Close, Sides
  <2>2. Status(verdict[c]) \in {400, 403, 502} /\ Status(verdict[c])' = Status(verdict[c])
    BY <2>1 DEF ConnInv, VerdictPhase, Refusals, Status
  <2>3. VerdictFits(c)' /\ VerdictPhase(c)'
    BY <2>1 DEF ConnInv, VerdictFits, VerdictPhase
  <2>4. ReplyPhase(c)' /\ LogPhase(c)'
    BY <2>1, <2>2 DEF ConnInv, VerdictPhase, ReplyPhase, LogPhase, Refusals
  <2>5. ClientPhase(c)' /\ UpstreamPhase(c)'
    BY <2>1 DEF ConnInv, ClientPhase, UpstreamPhase, Live
  <2>6. ASSUME NEW p \in Pipes
        PROVE PipePhase(c, p)'
    <3>1. pipe[c][p] = "idle" /\ buf[c][Dst(p)] = 0
      BY <2>1 DEF ConnInv, PipePhase
    <3> QED
      BY <2>1, <2>2, <3>1 DEF PipePhase, Dst
  <2> QED
    BY <2>3, <2>4, <2>5, <2>6 DEF ConnInv
<1>9. CASE LogRefusal(c)
  <2>1. /\ pc[c] = "shut" /\ pc'[c] = "done" /\ link[c]["client"] \in Over
        /\ link'[c] = link[c] /\ verdict'[c] = verdict[c] /\ req'[c] = req[c]
        /\ log'[c] = IF verdict[c] \in Records THEN verdict[c] ELSE log[c]
        /\ reply'[c] = reply[c] /\ pipe'[c] = pipe[c] /\ buf'[c] = buf[c]
    BY <1>9 DEF TypeOK, LogRefusal
  <2>2. verdict[c] \in Refusals /\ log[c] = "none" /\ reply[c] # 0 /\ reply[c] # 200
    BY <2>1 DEF ConnInv, VerdictPhase, ReplyPhase, LogPhase, Refusals, Status
  <2>3. VerdictFits(c)' /\ VerdictPhase(c)' /\ ReplyPhase(c)'
    BY <2>1, <2>2 DEF ConnInv, VerdictFits, VerdictPhase, ReplyPhase
  <2>4. LogPhase(c)'
    BY <2>1, <2>2 DEF LogPhase, Refusals
  <2>5. ClientPhase(c)' /\ UpstreamPhase(c)'
    BY <2>1 DEF ConnInv, ClientPhase, UpstreamPhase
  <2>6. ASSUME NEW p \in Pipes
        PROVE PipePhase(c, p)'
    <3>1. pipe[c][p] = "idle" /\ buf[c][Dst(p)] = 0
      BY <2>1 DEF ConnInv, PipePhase
    <3> QED
      BY <2>1, <2>2, <3>1 DEF PipePhase, Dst
  <2> QED
    BY <2>3, <2>4, <2>5, <2>6 DEF ConnInv
<1>10. CASE Grant(c)
  <2>1. /\ pc[c] = "grant" /\ pc'[c] = "relay" /\ link[c]["client"] \in Live
        /\ reply'[c] = Status(verdict[c]) /\ \A p \in Pipes : pipe'[c][p] = "reading"
        /\ link'[c] = link[c] /\ verdict'[c] = verdict[c] /\ req'[c] = req[c]
        /\ log'[c] = log[c] /\ buf'[c] = buf[c]
    BY <1>10 DEF TypeOK, Grant
  <2>2. verdict[c] = "ALLOW" /\ reply'[c] = 200 /\ Status(verdict[c])' = 200
    BY <2>1 DEF ConnInv, VerdictPhase, Status
  <2>3. VerdictFits(c)' /\ VerdictPhase(c)' /\ ReplyPhase(c)' /\ LogPhase(c)'
    BY <2>1, <2>2 DEF ConnInv, VerdictFits, VerdictPhase, ReplyPhase, LogPhase
  <2>4. ClientPhase(c)' /\ UpstreamPhase(c)'
    BY <2>1 DEF ConnInv, ClientPhase, UpstreamPhase
  <2>5. ASSUME NEW p \in Pipes
        PROVE PipePhase(c, p)'
    <3>1. link[c][Dst(p)] \in Live \cup {"reset"} /\ Dst(p)' = Dst(p)
      BY <2>1 DEF ConnInv, UpstreamPhase, Dst
    <3> QED
      BY <2>1, <2>2, <3>1 DEF PipePhase
  <2> QED
    BY <2>3, <2>4, <2>5 DEF ConnInv
<1>11. CASE AbortDone(c)
  <2>1. /\ pc[c] = "abort" /\ pc'[c] = "done" /\ link[c]["client"] \in Over
        /\ link'[c] = link[c] /\ verdict'[c] = verdict[c] /\ req'[c] = req[c]
        /\ log'[c] = log[c] /\ reply'[c] = reply[c] /\ pipe'[c] = pipe[c] /\ buf'[c] = buf[c]
    BY <1>11 DEF TypeOK, AbortDone
  <2>2. reply[c] = 0
    BY <2>1 DEF ConnInv, ReplyPhase
  <2>3. VerdictFits(c)' /\ VerdictPhase(c)' /\ ReplyPhase(c)' /\ LogPhase(c)'
    BY <2>1, <2>2 DEF ConnInv, VerdictFits, VerdictPhase, ReplyPhase, LogPhase
  <2>4. ClientPhase(c)' /\ UpstreamPhase(c)'
    BY <2>1 DEF ConnInv, ClientPhase, UpstreamPhase
  <2>5. ASSUME NEW p \in Pipes
        PROVE PipePhase(c, p)'
    <3>1. pipe[c][p] = "idle" /\ buf[c][Dst(p)] = 0
      BY <2>1 DEF ConnInv, PipePhase
    <3> QED
      BY <2>1, <2>2, <3>1 DEF PipePhase, Dst
  <2> QED
    BY <2>3, <2>4, <2>5 DEF ConnInv
<1> QED
  BY <1>1, <1>2, <1>3, <1>4, <1>5, <1>6, <1>7, <1>8, <1>9, <1>10, <1>11 DEF Head, Connect, Reply

\* Pipe p moves: it copies, blocks, closes its destination or is done with it.
LEMMA PipeKeeps ==
    ASSUME TypeOK, NEW c \in Conns, NEW p \in Pipes, ConnInv(c),
           pipe[c][p] # "idle", pipe'[c][p] \in PipeStates \ {"idle"},
           \A q \in Pipes : q # p => pipe'[c][q] = pipe[c][q],
           pc' = pc, verdict' = verdict, reply' = reply, req' = req, log' = log,
           \A t \in Sides : t # Dst(p) => link'[c][t] = link[c][t] /\ buf'[c][t] = buf[c][t],
           pipe'[c][p] \in {"reading", "draining", "closing"} => pipe[c][p] \in {"reading", "draining"},
           link'[c][Dst(p)] = IF pipe'[c][p] = "closing" THEN Close(link[c][Dst(p)]) ELSE link[c][Dst(p)],
           pipe'[c][p] = "done" => link[c][Dst(p)] \in Over
    PROVE  ConnInv(c)'
<1>1. Dst(p) \in Sides /\ PipePhase(c, p) /\ pc[c] \in {"relay", "done"} /\ reply[c] = 200
  BY DEF Dst, Sides, ConnInv, PipePhase
<1>2. VerdictFits(c)' /\ VerdictPhase(c)' /\ ReplyPhase(c)' /\ LogPhase(c)'
  BY DEF ConnInv, VerdictFits, VerdictPhase, ReplyPhase, LogPhase
<1>3. pipe[c][p] \in {"reading", "draining"} => pc[c] = "relay" /\ link[c][Dst(p)] \in Live \cup {"reset"}
  BY <1>1 DEF PipePhase
<1>4. link'[c][Dst(p)] = link[c][Dst(p)] \/ (pc[c] = "relay" /\ link'[c][Dst(p)] \in {"closing", "reset"} /\ link[c][Dst(p)] # "none")
  BY <1>3 DEF Close, Live
<1>5. ClientPhase(c)' /\ UpstreamPhase(c)'
  BY <1>1, <1>4 DEF ConnInv, ClientPhase, UpstreamPhase, Sides
<1>6. PipePhase(c, p)'
  <2>1. Dst(p)' = Dst(p)
    BY DEF Dst
  <2>2. pipe'[c][p] = "closing" => link'[c][Dst(p)] \in {"closing"} \cup Over
    BY <1>3 DEF Close, Live, Over
  <2>3. pipe'[c][p] \in {"reading", "draining", "closing"} => pc[c] = "relay"
    BY <1>1 DEF PipePhase
  <2> QED
    BY <1>1, <1>3, <2>1, <2>2, <2>3 DEF PipePhase
<1>7. ASSUME NEW q \in Pipes, q # p
      PROVE PipePhase(c, q)'
  <2>1. pipe'[c][q] = pipe[c][q] /\ Dst(q)' = Dst(q) /\ PipePhase(c, q)
    BY <1>7 DEF Dst, ConnInv
  <2>2. Dst(q) \in Sides /\ Dst(q) # Dst(p)
    BY <1>7 DEF Dst, Sides, Pipes
  <2> QED
    BY <2>1, <2>2 DEF PipePhase
<1> QED
  BY <1>2, <1>5, <1>6, <1>7 DEF ConnInv

\* The pipes, and the end of _relay.
LEMMA RelayKeeps ==
    ASSUME TypeOK, NEW c \in Conns, ConnInv(c), Relay(c)
    PROVE  ConnInv(c)'
<1>1. CASE RelayDone(c)
  <2>1. /\ pc[c] = "relay" /\ pc'[c] = "done" /\ \A p \in Pipes : pipe[c][p] = "done"
        /\ link' = link /\ verdict' = verdict /\ req' = req
        /\ log' = log /\ reply' = reply /\ pipe' = pipe /\ buf' = buf
    BY <1>1 DEF TypeOK, RelayDone
  <2>2. verdict[c] = "ALLOW" /\ log[c] = "ALLOW" /\ reply[c] # 0
    BY <2>1 DEF ConnInv, VerdictPhase, ReplyPhase, LogPhase
  <2>3. VerdictFits(c)' /\ VerdictPhase(c)' /\ ReplyPhase(c)' /\ LogPhase(c)'
    BY <2>1, <2>2 DEF ConnInv, VerdictFits, VerdictPhase, ReplyPhase, LogPhase, Refusals
  <2>4. link[c]["client"] \in Over
    <3>1. "down" \in Pipes /\ Dst("down") = "client"
      BY DEF Pipes, Dst
    <3> QED
      BY <2>1, <3>1 DEF ConnInv, PipePhase
  <2>5. ClientPhase(c)' /\ UpstreamPhase(c)'
    BY <2>1, <2>4 DEF ConnInv, ClientPhase, UpstreamPhase
  <2>6. ASSUME NEW p \in Pipes
        PROVE PipePhase(c, p)'
    BY <2>1 DEF ConnInv, PipePhase, Dst
  <2> QED
    BY <2>3, <2>5, <2>6 DEF ConnInv
<1>2. ASSUME NEW p \in Pipes, PipeForward(c, p)
      PROVE ConnInv(c)'
  <2>1. PICK b \in 0..2 :
          /\ buf' = [buf EXCEPT ![c][Dst(p)] = b]
          /\ pipe' = [pipe EXCEPT ![c][p] = IF b = 2 THEN "draining" ELSE "reading"]
    BY <1>2 DEF PipeForward
  <2>2. /\ pipe[c][p] = "reading" /\ link' = link
        /\ pc' = pc /\ verdict' = verdict /\ reply' = reply /\ req' = req /\ log' = log
    BY <1>2 DEF PipeForward
  <2>3. \A t \in Sides : t # Dst(p) => buf'[c][t] = buf[c][t]
    BY <2>1 DEF TypeOK
  <2>4. /\ pipe'[c][p] \in {"reading", "draining"}
        /\ \A q \in Pipes : q # p => pipe'[c][q] = pipe[c][q]
    BY <2>1 DEF TypeOK
  <2> QED
    BY <2>2, <2>3, <2>4, PipeKeeps DEF PipeStates
<1>3. ASSUME NEW p \in Pipes, PipeDrained(c, p)
      PROVE ConnInv(c)'
  <2>1. /\ pipe[c][p] = "draining" /\ pipe'[c][p] = "reading" /\ link' = link
        /\ \A q \in Pipes : q # p => pipe'[c][q] = pipe[c][q]
        /\ pc' = pc /\ verdict' = verdict /\ reply' = reply /\ req' = req /\ log' = log /\ buf' = buf
    BY <1>3 DEF TypeOK, PipeDrained
  <2> QED
    BY <2>1, PipeKeeps DEF PipeStates
<1>4. ASSUME NEW p \in Pipes, PipeEnds(c, p) \/ PipeBreaks(c, p)
      PROVE ConnInv(c)'
  <2>1. CloseDst(c, p) /\ pipe[c][p] \in {"reading", "draining"}
    BY <1>4 DEF PipeEnds, PipeBreaks
  <2>2. Dst(p) \in Sides
    BY DEF Dst, Sides
  <2>3. /\ link'[c][Dst(p)] = Close(link[c][Dst(p)])
        /\ \A t \in Sides : t # Dst(p) => link'[c][t] = link[c][t] /\ buf'[c][t] = buf[c][t]
    BY <2>1, <2>2 DEF TypeOK, CloseDst
  <2>4. /\ pipe'[c][p] = "closing" /\ \A q \in Pipes : q # p => pipe'[c][q] = pipe[c][q]
        /\ pc' = pc /\ verdict' = verdict /\ reply' = reply /\ req' = req /\ log' = log
    BY <2>1 DEF TypeOK, CloseDst
  <2> QED
    BY <2>1, <2>3, <2>4, PipeKeeps DEF PipeStates
<1>5. ASSUME NEW p \in Pipes, PipeDone(c, p)
      PROVE ConnInv(c)'
  <2>1. /\ pipe[c][p] = "closing" /\ pipe'[c][p] = "done" /\ link' = link
        /\ \A q \in Pipes : q # p => pipe'[c][q] = pipe[c][q]
        /\ link[c][Dst(p)] \in Over
        /\ pc' = pc /\ verdict' = verdict /\ reply' = reply /\ req' = req /\ log' = log /\ buf' = buf
    BY <1>5 DEF TypeOK, PipeDone
  <2> QED
    BY <2>1, PipeKeeps DEF PipeStates
<1> QED
  BY <1>1, <1>2, <1>3, <1>4, <1>5 DEF Relay

-----------------------------------------------------------------------------
(* The invariant holds, and what follows from it.                          *)

\* No connection has a handler at first, so the invariant holds of each.
LEMMA InvInit == Init => IInv
<1> SUFFICES ASSUME Init PROVE IInv
  OBVIOUS
<1>1. TypeOK
  BY TypeInit
<1>2. ASSUME NEW c \in Conns
      PROVE ConnInv(c)
  <2>1. ASSUME NEW p \in Pipes
        PROVE PipePhase(c, p)
    <3>1. Dst(p) \in Sides
      BY DEF Dst, Sides
    <3> QED
      BY <3>1 DEF Init, PipePhase
  <2> QED
    BY <2>1 DEF Init, ConnInv, VerdictFits, VerdictPhase, ReplyPhase, LogPhase, ClientPhase,
                UpstreamPhase, Sides, Refusals
<1> QED
  BY <1>1, <1>2 DEF IInv

\* Every step keeps the invariant: of the connection it is about, and of the others.
LEMMA InvNext == IInv /\ [Next]_vars => IInv'
<1> SUFFICES ASSUME IInv, [Next]_vars PROVE IInv'
  OBVIOUS
<1>1. TypeOK' /\ TypeOK
  BY TypeNext DEF IInv
<1>2. CASE UNCHANGED vars
  <2>1. ASSUME NEW c \in Conns
        PROVE ConnInv(c)'
    BY <1>2, SameKeeps DEF IInv, Same, vars
  <2> QED
    BY <1>1, <2>1 DEF IInv
<1>3. ASSUME NEW c \in Conns, Accept(c) \/ Peers(c) \/ Loop(c)
      PROVE IInv'
  <2>1. ConnInv(c)'
    <3>1. ASSUME NEW s \in Sides, LinkClosed(c, s)
          PROVE ConnInv(c)'
      BY <1>1, <3>1, LinkKeeps DEF IInv
    <3> QED
      BY <1>1, <1>3, <3>1, OutsideKeeps, HandlerKeeps, RelayKeeps DEF Loop, IInv
  <2>2. ASSUME NEW d \in Conns, d # c
        PROVE ConnInv(d)'
    BY <1>1, <1>3, <2>2, OthersSame, SameKeeps DEF IInv
  <2> QED
    BY <1>1, <2>1, <2>2 DEF IInv
<1> QED
  BY <1>2, <1>3 DEF Next

\* The inductive invariant holds in every reachable state.
THEOREM Invariant == Spec => []IInv
<1>1. Init => IInv
  BY InvInit
<1>2. IInv /\ [Next]_vars => IInv'
  BY InvNext
<1> QED
  BY <1>1, <1>2, PTL DEF Spec

\* What the log says of a connection is what happened on it.
THEOREM LogIsTrue == Spec => []LogTellsTruth
<1>1. ASSUME IInv, NEW c \in Conns
      PROVE /\ log[c] = "ALLOW" => req[c] \in Allowed /\ link[c]["upstream"] # "none"
                                     /\ reply[c] \in {0, 200}
            /\ log[c] = "BLOCK" => req[c] \in Targets \ Allowed /\ link[c]["upstream"] = "none"
                                     /\ reply[c] = 403
            /\ log[c] = "FAIL" => req[c] \in Allowed /\ link[c]["upstream"] = "none"
                                     /\ reply[c] = 502
            /\ log[c] = "DROP" => link[c]["upstream"] = "none" /\ reply[c] = 400
  <2>1. /\ VerdictFits(c) /\ ReplyPhase(c) /\ LogPhase(c) /\ UpstreamPhase(c)
    BY <1>1 DEF IInv, ConnInv
  <2>2. log[c] # "none" => log[c] = verdict[c]
    BY <2>1 DEF LogPhase
  <2>3. log[c] \in Refusals => reply[c] = Status(verdict[c])
    BY <2>1 DEF LogPhase, ReplyPhase
  <2>4. reply[c] # 0 => reply[c] = Status(verdict[c])
    BY <2>1 DEF ReplyPhase
  <2> QED
    BY <2>1, <2>2, <2>3, <2>4 DEF VerdictFits, UpstreamPhase, Refusals, Status
<1>2. IInv => LogTellsTruth
  BY <1>1 DEF LogTellsTruth
<1> QED
  BY <1>2, Invariant, PTL

\* No refused target is ever dialled, connected to or written to.
THEOREM AllowlistHolds == Spec => []OnlyAllowedReached
<1>1. ASSUME IInv, NEW c \in Conns
      PROVE /\ pc[c] = "dial" => req[c] \in Allowed
            /\ (link[c]["upstream"] # "none" \/ buf[c]["upstream"] > 0 \/ pipe[c]["up"] # "idle")
                 => req[c] \in Allowed /\ log[c] = "ALLOW"
  <2>1. ConnInv(c) /\ PipePhase(c, "up") /\ Dst("up") = "upstream"
    BY <1>1 DEF IInv, ConnInv, Pipes, Dst
  <2>2. pipe[c]["up"] # "idle" => verdict[c] = "ALLOW"
    <3>1. pipe[c]["up"] # "idle" => reply[c] = 200 /\ reply[c] = Status(verdict[c])
      BY <2>1 DEF ConnInv, PipePhase, ReplyPhase
    <3> QED
      BY <3>1 DEF Status
  <2>3. pipe[c]["up"] = "idle" => buf[c]["upstream"] = 0
    BY <2>1 DEF PipePhase
  <2> QED
    BY <2>1, <2>2, <2>3 DEF ConnInv, VerdictFits, LogPhase, UpstreamPhase
<1>2. IInv => OnlyAllowedReached
  BY <1>1 DEF OnlyAllowedReached
<1> QED
  BY <1>2, Invariant, PTL

\* A handler that has returned leaves no transport behind, save the orphan.
THEOREM HandlerCleansUp == Spec => []NothingLeftOpen
<1>1. ASSUME IInv, NEW c \in Conns, pc[c] = "done"
      PROVE /\ link[c]["client"] \in Over
            /\ link[c]["upstream"] \in Live \cup {"closing"} => reply[c] = 0
  <2>1. ConnInv(c) /\ PipePhase(c, "up") /\ Dst("up") = "upstream" /\ pipe[c]["up"] \in PipeStates
    BY <1>1 DEF IInv, ConnInv, Pipes, Dst, TypeOK
  <2>2. reply[c] = 200 => link[c]["upstream"] \in Over
    BY <1>1, <2>1 DEF PipePhase, PipeStates
  <2>3. link[c]["upstream"] # "none" => verdict[c] = "ALLOW"
    BY <2>1 DEF ConnInv, UpstreamPhase
  <2>4. reply[c] # 0 /\ verdict[c] = "ALLOW" => reply[c] = 200
    BY <2>1 DEF ConnInv, ReplyPhase, Status
  <2> QED
    BY <1>1, <2>1, <2>2, <2>3, <2>4 DEF ConnInv, ClientPhase, Live, Over
<1>2. IInv => NothingLeftOpen
  BY <1>1 DEF NothingLeftOpen
<1> QED
  BY <1>2, Invariant, PTL

\* A CONNECT that was answered is on record once its handler has returned.
THEOREM AnswersAreLogged == Spec => []AnsweredIsLogged
<1>1. ASSUME IInv, NEW c \in Conns, pc[c] = "done", reply[c] # 0, req[c] \in Targets
      PROVE log[c] # "none"
  <2>1. ConnInv(c) /\ verdict[c] \in Verdicts
    BY <1>1 DEF IInv, TypeOK
  <2>2. verdict[c] \in Records \ {"none"}
    BY <1>1, <2>1 DEF ConnInv, ReplyPhase, VerdictFits, Verdicts, Records
  <2> QED
    BY <1>1, <2>1, <2>2 DEF ConnInv, LogPhase, Records
<1>2. IInv => AnsweredIsLogged
  BY <1>1 DEF AnsweredIsLogged
<1> QED
  BY <1>2, Invariant, PTL

\* A leg that was closed is never written to or reopened.
Ended(c, s) == link[c][s] \in Over \cup {"closing"}

-----------------------------------------------------------------------------
(* The proxy is a gatekeeper.                                              *)

\* A client that has sent nothing has asked for nothing.
Heard == \A c \in Conns : sent[c] = "nothing" => req[c] = NoReq

\* The request line comes first, and nothing else sets the request.
LEMMA HeardNext == TypeOK /\ Heard /\ [Next]_vars => Heard'
<1> SUFFICES ASSUME TypeOK, Heard, [Next]_vars PROVE Heard'
  OBVIOUS
<1>1. CASE UNCHANGED <<sent, req>>
  BY <1>1 DEF Heard
<1>2. ASSUME NEW c \in Conns, NEW r \in Requests, SendLine(c, r)
      PROVE Heard'
  BY <1>2 DEF Heard, SendLine, TypeOK
<1>3. ASSUME NEW c \in Conns, SendRest(c)
      PROVE Heard'
  BY <1>3 DEF Heard, SendRest, TypeOK
<1>4. ASSUME NEW c \in Conns, Accept(c) \/ Loop(c)
      PROVE UNCHANGED <<sent, req>>
  BY <1>4 DEF Accept, Loop, Head, Connect, Reply, Relay, RefuseRequest, BreakOnHost, Block, Dial, HeadTooLarge,
              HeadTimeout, HeadLost, Decide, Raise, DialFails, DialConnects, Refuse, RefuseLost, LogRefusal,
              Grant, GrantLost, AbortDone, PipeForward, PipeDrained, PipeEnds, PipeBreaks, PipeDone, CloseDst,
              RelayDone, LinkClosed, Finalize
<1>5. ASSUME NEW c \in Conns, NEW s \in Sides, PeerFin(c, s) \/ PeerReset(c, s) \/ PeerTakes(c, s)
      PROVE UNCHANGED <<sent, req>>
  BY <1>5 DEF PeerFin, PeerReset, PeerTakes
<1> QED
  BY <1>1, <1>2, <1>3, <1>4, <1>5 DEF Next, Peers, vars

\* What the gatekeeper of a connection sees of its handler.
Reached == [c \in Conns |-> link[c]["upstream"] # "none"]
Passing == [c \in Conns |-> pipe[c]["up"] # "idle"]
Left == [c \in Conns |-> pc[c] = "done"]

\* Two functions that differ in one place only.
LEMMA OnePlace ==
    ASSUME NEW S, NEW f, NEW g, f = [x \in S |-> f[x]], g = [x \in S |-> g[x]], NEW a \in S,
           \A x \in S : x # a => g[x] = f[x]
    PROVE  g = [f EXCEPT ![a] = g[a]]
OBVIOUS

\* A step of a connection changes what is seen of that connection.
LEMMA SeenOfOne ==
    ASSUME TypeOK, TypeOK', NEW c \in Conns, \A d \in Conns : d # c => Same(d)
    PROVE  /\ req' = [req EXCEPT ![c] = req'[c]]
           /\ verdict' = [verdict EXCEPT ![c] = verdict'[c]]
           /\ reply' = [reply EXCEPT ![c] = reply'[c]]
           /\ log' = [log EXCEPT ![c] = log'[c]]
           /\ Reached' = [Reached EXCEPT ![c] = Reached'[c]]
           /\ Passing' = [Passing EXCEPT ![c] = Passing'[c]]
           /\ Left' = [Left EXCEPT ![c] = Left'[c]]
<1>1. req' = [req EXCEPT ![c] = req'[c]] /\ verdict' = [verdict EXCEPT ![c] = verdict'[c]]
  BY OnePlace DEF TypeOK, Same
<1>2. reply' = [reply EXCEPT ![c] = reply'[c]] /\ log' = [log EXCEPT ![c] = log'[c]]
  BY OnePlace DEF TypeOK, Same
<1>3. \A d \in Conns : d # c => Reached'[d] = Reached[d] /\ Passing'[d] = Passing[d] /\ Left'[d] = Left[d]
  BY DEF Reached, Passing, Left, Same
<1>4. Reached' = [Reached EXCEPT ![c] = Reached'[c]]
  BY <1>3, OnePlace DEF Reached
<1>5. Passing' = [Passing EXCEPT ![c] = Passing'[c]]
  BY <1>3, OnePlace DEF Passing
<1>6. Left' = [Left EXCEPT ![c] = Left'[c]]
  BY <1>3, OnePlace DEF Left
<1> QED
  BY <1>1, <1>2, <1>4, <1>5, <1>6

\* What the gatekeeper sees of connection c does not change.
Unseen(c) ==
    /\ req'[c] = req[c] /\ verdict'[c] = verdict[c] /\ reply'[c] = reply[c] /\ log'[c] = log[c]
    /\ link'[c]["upstream"] # "none" <=> link[c]["upstream"] # "none"
    /\ pipe'[c]["up"] # "idle" <=> pipe[c]["up"] # "idle"
    /\ pc'[c] = "done" <=> pc[c] = "done"

\* A step that only takes a handler or a transport further.
LEMMA UnseenStutters ==
    ASSUME TypeOK, TypeOK', NEW c \in Conns, \A d \in Conns : d # c => Same(d), Unseen(c)
    PROVE  UNCHANGED G!vars
<1>1. UNCHANGED <<req, verdict, reply, log>>
  BY DEF TypeOK, Same, Unseen
<1>2. \A d \in Conns : Reached'[d] = Reached[d] /\ Passing'[d] = Passing[d] /\ Left'[d] = Left[d]
  <2>1. ASSUME NEW d \in Conns, d # c
        PROVE  Reached'[d] = Reached[d] /\ Passing'[d] = Passing[d] /\ Left'[d] = Left[d]
    BY <2>1 DEF Same, Reached, Passing, Left
  <2>2. Reached'[c] = Reached[c] /\ Passing'[c] = Passing[c] /\ Left'[c] = Left[c]
    BY DEF Unseen, Reached, Passing, Left
  <2> QED
    BY <2>1, <2>2
<1>3. Reached' = Reached /\ Passing' = Passing /\ Left' = Left
  BY <1>2 DEF Reached, Passing, Left
<1> QED
  BY <1>1, <1>3 DEF G!vars, Reached, Passing, Left

\* What peers do goes unseen, but for the first request line.
LEMMA PeersAsk ==
    ASSUME IInv, Heard, TypeOK', NEW c \in Conns, Peers(c)
    PROVE  Unseen(c) \/ G!Ask(c)
<1>1. TypeOK /\ ConnInv(c)
  BY DEF IInv
<1>2. CASE SendRest(c)
  BY <1>2 DEF SendRest, Unseen
<1>3. ASSUME NEW s \in Sides, PeerFin(c, s) \/ PeerReset(c, s) \/ PeerTakes(c, s)
      PROVE  Unseen(c)
  BY <1>1, <1>3 DEF PeerFin, PeerReset, PeerTakes, Unseen, TypeOK, Sides, Live
<1>4. ASSUME NEW r \in Requests, SendLine(c, r)
      PROVE  G!Ask(c)
  <2>1. pc[c] = "head" /\ req[c] = NoReq /\ verdict[c] = "none"
    BY <1>1, <1>4 DEF SendLine, Heard, ConnInv, VerdictPhase
  <2>2. UNCHANGED <<verdict, reply, log, link, pipe, pc>>
    BY <1>4 DEF SendLine
  <2>3. req' = [req EXCEPT ![c] = r]
    BY <1>4 DEF SendLine
  <2> QED
    BY <2>1, <2>2, <2>3 DEF G!Ask, G!Undecided
<1> QED
  BY <1>2, <1>3, <1>4 DEF Peers

\* The gatekeeper refuses with v.
LEMMA DecideRefuses ==
    ASSUME TypeOK, NEW c \in Conns, pc[c] \in {"head", "dial"}, verdict[c] = "none",
           NEW v \in G!Refusals(req[c]), Decide(c, v, "refuse")
    PROVE  G!Refuse(c)
<1>1. UNCHANGED <<req, reply, log, link, pipe>> /\ verdict' = [verdict EXCEPT ![c] = v]
  BY DEF Decide
<1>2. [d \in Conns |-> pc[d] = "done"]' = [d \in Conns |-> pc[d] = "done"]
  <2>1. \A d \in Conns : pc'[d] = "done" <=> pc[d] = "done"
    BY DEF Decide, TypeOK
  <2> QED
    BY <2>1
<1>3. G!Undecided(c)
  BY DEF G!Undecided
<1> QED
  BY <1>1, <1>2, <1>3 DEF G!Refuse

\* A handler that returns leaves what the gatekeeper leaves.
LEMMA LeavesOnRecord ==
    ASSUME TypeOK, TypeOK', NEW c \in Conns, \A d \in Conns : d # c => Same(d),
           pc[c] # "done", pc'[c] = "done", UNCHANGED <<req, verdict, reply, link, pipe>>,
           log' = [log EXCEPT ![c] = IF reply[c] # 0 /\ verdict[c] # "INVALID" THEN verdict[c] ELSE @]
    PROVE  G!Leave(c)
<1>1. Left'[c] = TRUE /\ ~Left[c]
  BY DEF Left
<1>2. Left' = [Left EXCEPT ![c] = TRUE]
  BY <1>1, SeenOfOne
<1>3. Reached' = Reached /\ Passing' = Passing
  BY DEF Reached, Passing
<1> QED
  BY <1>1, <1>2, <1>3 DEF G!Leave, Reached, Passing, Left

\* A handler refuses, dials, or is dropped at its head.
LEMMA HeadRefuses ==
    ASSUME IInv, TypeOK', NEW c \in Conns, Head(c)
    PROVE  Unseen(c) \/ G!Refuse(c)
<1>1. TypeOK /\ ConnInv(c) /\ pc[c] = "head" /\ verdict[c] = "none"
  BY DEF IInv, ConnInv, VerdictPhase, Head, RefuseRequest, BreakOnHost, Block, Dial, HeadTooLarge,
         HeadTimeout, HeadLost, HeadRead
<1>2. CASE BreakOnHost(c) \/ HeadLost(c)
  BY <1>1, <1>2 DEF BreakOnHost, HeadLost, Raise, Unseen, TypeOK, Sides
<1>3. CASE Dial(c)
  BY <1>1, <1>3 DEF Dial, Decide, Unseen, TypeOK
<1>4. CASE RefuseRequest(c)
  <2>1. "INVALID" \in G!Refusals(req[c])
    BY <1>4, RequestsAssumption, AllowedAssumption DEF RefuseRequest, G!Refusals
  <2> QED
    BY <1>1, <1>4, <2>1, DecideRefuses DEF RefuseRequest
<1>5. CASE Block(c)
  <2>1. "BLOCK" \in G!Refusals(req[c])
    BY <1>5 DEF Block, G!Refusals
  <2> QED
    BY <1>1, <1>5, <2>1, DecideRefuses DEF Block
<1>6. CASE HeadTooLarge(c) \/ HeadTimeout(c)
  <2>1. "DROP" \in G!Refusals(req[c])
    BY DEF G!Refusals
  <2> QED
    BY <1>1, <1>6, <2>1, DecideRefuses DEF HeadTooLarge, HeadTimeout
<1> QED
  BY <1>2, <1>3, <1>4, <1>5, <1>6 DEF Head

\* A dial ends in a refusal, or the target is admitted.
LEMMA ConnectAdmits ==
    ASSUME IInv, TypeOK', NEW c \in Conns, Connect(c), \A d \in Conns : d # c => Same(d)
    PROVE  G!Refuse(c) \/ G!Admit(c)
<1>1. TypeOK /\ ConnInv(c) /\ pc[c] = "dial" /\ verdict[c] = "none" /\ req[c] \in Allowed
  BY DEF IInv, ConnInv, VerdictPhase, VerdictFits, Connect, DialFails, DialConnects
<1>2. CASE DialFails(c)
  <2>1. "FAIL" \in G!Refusals(req[c])
    BY <1>1 DEF G!Refusals
  <2> QED
    BY <1>1, <1>2, <2>1, DecideRefuses DEF DialFails
<1>3. CASE DialConnects(c)
  <2>1. Reached'[c] = TRUE /\ Passing'[c] = Passing[c] /\ Left'[c] = Left[c]
    <3>1. link'[c]["upstream"] = "open"
      BY <1>1, <1>3 DEF DialConnects, TypeOK, Sides
    <3>2. pipe' = pipe /\ pc'[c] = "grant"
      BY <1>1, <1>3 DEF DialConnects, TypeOK
    <3> QED
      BY <1>1, <3>1, <3>2 DEF Reached, Passing, Left
  <2>2. /\ Reached' = [Reached EXCEPT ![c] = TRUE]
        /\ Passing' = [Passing EXCEPT ![c] = Passing[c]]
        /\ Left' = [Left EXCEPT ![c] = Left[c]]
    BY <1>1, <2>1, SeenOfOne
  <2>3. Passing' = Passing /\ Left' = Left
    BY <2>2 DEF Passing, Left
  <2>4. /\ verdict' = [verdict EXCEPT ![c] = "ALLOW"] /\ log' = [log EXCEPT ![c] = "ALLOW"]
        /\ UNCHANGED <<req, reply>>
    BY <1>3 DEF DialConnects
  <2> QED
    BY <1>1, <2>2, <2>3, <2>4 DEF G!Admit, G!Undecided, Reached, Passing, Left
<1> QED
  BY <1>2, <1>3 DEF Connect

\* The handler answers once, and leaves with a refusal on record.
LEMMA ReplyAnswers ==
    ASSUME IInv, TypeOK', NEW c \in Conns, Reply(c), \A d \in Conns : d # c => Same(d)
    PROVE  Unseen(c) \/ G!Answer(c) \/ G!Leave(c)
<1>1. TypeOK /\ ConnInv(c) /\ TypeOK' /\ {"up", "down"} = Pipes
  BY DEF IInv, Pipes
<1>2. CASE RefuseLost(c) \/ GrantLost(c)
  BY <1>1, <1>2 DEF RefuseLost, GrantLost, Raise, Unseen, TypeOK, Sides
<1>3. CASE Refuse(c) \/ Grant(c)
  <2>1. /\ verdict[c] # "none" /\ pc[c] # "done" /\ pc'[c] # "done"
        /\ reply' = [reply EXCEPT ![c] = Status(verdict[c])]
        /\ UNCHANGED <<req, verdict, log>>
    BY <1>1, <1>3 DEF ConnInv, VerdictPhase, Refusals, Refuse, Grant, TypeOK
  <2>2. reply[c] = 0
    BY <1>1, <1>3 DEF ConnInv, ReplyPhase, Refuse, Grant
  <2>3. link'[c]["upstream"] = link[c]["upstream"]
    BY <1>1, <1>3 DEF Refuse, Grant, TypeOK, Sides
  <2>4. pipe'[c]["up"] # "idle" <=> verdict[c] = "ALLOW"
    <3>1. CASE Grant(c)
      BY <1>1, <3>1 DEF Grant, TypeOK, ConnInv, VerdictPhase
    <3>2. CASE Refuse(c)
      <4>1. pipe[c]["up"] = "idle"
        BY <1>1, <3>2 DEF Refuse, ConnInv, PipePhase
      <4> QED
        BY <1>1, <3>2, <4>1 DEF Refuse, ConnInv, VerdictPhase, Refusals
    <3> QED
      BY <1>3, <3>1, <3>2
  <2>5. Passing'[c] = (verdict[c] = "ALLOW") /\ Reached'[c] = Reached[c] /\ Left'[c] = Left[c]
    BY <2>1, <2>3, <2>4 DEF Passing, Reached, Left
  <2>6. /\ Passing' = [Passing EXCEPT ![c] = Passing'[c]]
        /\ Reached' = [Reached EXCEPT ![c] = Reached[c]]
        /\ Left' = [Left EXCEPT ![c] = Left[c]]
    BY <1>1, <2>5, SeenOfOne
  <2>7. Reached' = Reached /\ Left' = Left
    BY <2>6 DEF Reached, Left
  <2>8. Passing' = [Passing EXCEPT ![c] = (verdict[c] = "ALLOW")]
    BY <2>5, <2>6
  <2>9. G!Status(verdict[c]) = Status(verdict[c])
    BY DEF G!Status, Status
  <2> QED
    BY <2>1, <2>2, <2>7, <2>8, <2>9 DEF G!Answer, Passing, Reached, Left
<1>4. CASE LogRefusal(c) \/ AbortDone(c)
  <2>1. /\ pc[c] # "done" /\ pc'[c] = "done"
        /\ UNCHANGED <<req, verdict, reply, link, pipe>>
    BY <1>1, <1>4 DEF LogRefusal, AbortDone, TypeOK
  <2>2. log' = [log EXCEPT ![c] = IF reply[c] # 0 /\ verdict[c] # "INVALID" THEN verdict[c] ELSE @]
    <3>1. CASE LogRefusal(c)
      <4>1. reply[c] # 0 /\ verdict[c] \in Refusals
        BY <1>1, <3>1 DEF LogRefusal, ConnInv, ReplyPhase, VerdictPhase
      <4> QED
        BY <3>1, <4>1 DEF LogRefusal, Refusals, Records, Verdicts
    <3>2. CASE AbortDone(c)
      <4>1. reply[c] = 0
        BY <1>1, <3>2 DEF AbortDone, ConnInv, ReplyPhase
      <4> QED
        BY <1>1, <3>2, <4>1 DEF AbortDone, TypeOK
    <3> QED
      BY <1>4, <3>1, <3>2
  <2> QED
    BY <1>1, <2>1, <2>2, LeavesOnRecord
<1> QED
  BY <1>2, <1>3, <1>4 DEF Reply

\* The tunnel goes unseen, and its end leaves ALLOW on record.
LEMMA RelayLeaves ==
    ASSUME IInv, TypeOK', NEW c \in Conns, Relay(c), \A d \in Conns : d # c => Same(d)
    PROVE  Unseen(c) \/ G!Leave(c)
<1>1. TypeOK /\ ConnInv(c)
  BY DEF IInv
<1>2. CASE RelayDone(c)
  <2>1. /\ pc[c] # "done" /\ pc'[c] = "done"
        /\ UNCHANGED <<req, verdict, reply, link, pipe>>
    BY <1>1, <1>2 DEF RelayDone, TypeOK
  <2>2. verdict[c] = "ALLOW" /\ log[c] = "ALLOW"
    BY <1>1, <1>2 DEF RelayDone, ConnInv, VerdictPhase, LogPhase
  <2>3. log' = [log EXCEPT ![c] = IF reply[c] # 0 /\ verdict[c] # "INVALID" THEN verdict[c] ELSE @]
    BY <1>1, <1>2, <2>2 DEF RelayDone, TypeOK
  <2> QED
    BY <1>1, <2>1, <2>3, LeavesOnRecord
<1>3. ASSUME NEW p \in Pipes,
             PipeForward(c, p) \/ PipeDrained(c, p) \/ PipeEnds(c, p) \/ PipeBreaks(c, p) \/ PipeDone(c, p)
      PROVE  Unseen(c)
  <2>1. UNCHANGED <<pc, req, verdict, reply, log>>
    BY <1>3 DEF PipeForward, PipeDrained, PipeEnds, PipeBreaks, PipeDone, CloseDst
  <2>2. pipe'[c]["up"] # "idle" <=> pipe[c]["up"] # "idle"
    <3>1. pipe[c][p] # "idle" /\ pipe'[c][p] # "idle"
      BY <1>1, <1>3 DEF PipeForward, PipeDrained, PipeEnds, PipeBreaks, PipeDone, CloseDst, TypeOK
    <3>2. p # "up" => pipe'[c]["up"] = pipe[c]["up"]
      BY <1>1, <1>3 DEF PipeForward, PipeDrained, PipeEnds, PipeBreaks, PipeDone, CloseDst, TypeOK, Pipes
    <3> QED
      BY <3>1, <3>2
  <2>3. link'[c]["upstream"] # "none" <=> link[c]["upstream"] # "none"
    <3>1. CASE PipeForward(c, p) \/ PipeDrained(c, p) \/ PipeDone(c, p)
      BY <3>1 DEF PipeForward, PipeDrained, PipeDone
    <3>2. CASE PipeEnds(c, p) \/ PipeBreaks(c, p)
      <4>1. CloseDst(c, p) /\ Dst(p) \in Sides
        BY <3>2 DEF PipeEnds, PipeBreaks, Dst, Sides
      <4>2. CASE Dst(p) = "upstream"
        BY <1>1, <4>1, <4>2 DEF CloseDst, TypeOK, Close, Live, Sides
      <4>3. CASE Dst(p) # "upstream"
        BY <1>1, <4>1, <4>3 DEF CloseDst, TypeOK, Sides
      <4> QED
        BY <4>2, <4>3
    <3> QED
      BY <1>3, <3>1, <3>2
  <2> QED
    BY <2>1, <2>2, <2>3 DEF Unseen
<1> QED
  BY <1>2, <1>3 DEF Relay

\* Every step of a connection is one of its gatekeeper, or none.
LEMMA GatekeeperNext == IInv /\ Heard /\ [Next]_vars => [G!Next]_(G!vars)
<1> SUFFICES ASSUME IInv, Heard, [Next]_vars PROVE [G!Next]_(G!vars)
  OBVIOUS
<1>1. TypeOK /\ TypeOK'
  BY TypeNext DEF IInv
<1>2. CASE UNCHANGED vars
  BY <1>2 DEF vars, G!vars
<1>3. ASSUME NEW c \in Conns, Accept(c) \/ Peers(c) \/ Loop(c)
      PROVE  [G!Next]_(G!vars)
  <2>1. \A d \in Conns : d # c => Same(d)
    BY <1>1, <1>3, OthersSame
  <2>2. CASE Unseen(c)
    BY <1>1, <2>1, <2>2, UnseenStutters
  <2>3. CASE Accept(c)
    BY <1>1, <2>2, <2>3 DEF Accept, Unseen, TypeOK, Sides
  <2>4. CASE Peers(c)
    BY <1>1, <2>2, <2>4, PeersAsk DEF G!Next
  <2>5. CASE Head(c)
    BY <1>1, <2>2, <2>5, HeadRefuses DEF G!Next
  <2>6. CASE Connect(c)
    BY <1>1, <2>1, <2>6, ConnectAdmits DEF G!Next
  <2>7. CASE Reply(c)
    BY <1>1, <2>1, <2>2, <2>7, ReplyAnswers DEF G!Next
  <2>8. CASE Relay(c)
    BY <1>1, <2>1, <2>2, <2>8, RelayLeaves DEF G!Next
  <2>9. CASE Finalize(c) \/ \E s \in Sides : LinkClosed(c, s)
    BY <1>1, <2>2, <2>9 DEF Finalize, LinkClosed, Unseen, TypeOK, Sides, Live
  <2> QED
    BY <1>3, <2>3, <2>4, <2>5, <2>6, <2>7, <2>8, <2>9 DEF Loop
<1> QED
  BY <1>2, <1>3 DEF Next

\* Nobody has asked, and nothing is decided, at first.
LEMMA GatekeeperInit == Init => G!Init /\ Heard
<1> SUFFICES ASSUME Init PROVE G!Init /\ Heard
  OBVIOUS
<1>1. ASSUME NEW c \in Conns
      PROVE  link[c]["upstream"] = "none" /\ pipe[c]["up"] = "idle" /\ pc[c] = "new"
  <2>1. "upstream" \in Sides /\ "up" \in Pipes
    BY DEF Sides, Pipes
  <2> QED
    BY <2>1 DEF Init
<1>2. /\ Reached = [c \in Conns |-> FALSE]
      /\ Passing = [c \in Conns |-> FALSE]
      /\ Left = [c \in Conns |-> FALSE]
  <2>1. Reached = [c \in Conns |-> FALSE]
    BY <1>1 DEF Reached
  <2>2. Passing = [c \in Conns |-> FALSE]
    BY <1>1 DEF Passing
  <2>3. Left = [c \in Conns |-> FALSE]
    BY <1>1 DEF Left
  <2> QED
    BY <2>1, <2>2, <2>3
<1>3. Heard
  BY DEF Init, Heard
<1> QED
  BY <1>2, <1>3 DEF Init, G!Init, Reached, Passing, Left

\* The proxy keeps the gatekeeper's promise on every connection: one decision on
\* one request, the answer and the record that go with it, and no target otherwise.
THEOREM ImplementsGatekeeper == Spec => ProxyIsGatekeeper
<1>1. IInv /\ Heard /\ [Next]_vars => Heard'
  BY HeardNext DEF IInv
<1> QED
  BY <1>1, GatekeeperInit, Invariant, GatekeeperNext, PTL DEF Spec, ProxyIsGatekeeper, G!Spec

\* One step neither reopens a transport that is closing or lost nor adds to its buffer.
LEMMA EndedStays ==
    ASSUME IInv, NEW c \in Conns, NEW s \in Sides, Ended(c, s),
           Accept(c) \/ Peers(c) \/ Loop(c)
    PROVE  Ended(c, s)' /\ buf'[c][s] <= buf[c][s]
<1>1. /\ TypeOK /\ ConnInv(c) /\ link[c][s] \notin Live \cup {"none"}
      /\ buf[c][s] \in 0..2 /\ buf[c][s] <= buf[c][s]
  BY DEF IInv, TypeOK, Ended, Live, Over
<1>2. CASE Accept(c)
  <2>1. s # "client"
    BY <1>1, <1>2 DEF ConnInv, ClientPhase, Accept
  <2> QED
    BY <1>1, <1>2, <2>1 DEF Accept, Ended, TypeOK
<1>3. CASE Peers(c)
  <2>1. CASE (\E r \in Requests : SendLine(c, r)) \/ SendRest(c)
    BY <1>1, <2>1 DEF SendLine, SendRest, Ended
  <2>2. ASSUME NEW t \in Sides, PeerFin(c, t)
        PROVE Ended(c, s)' /\ buf'[c][s] <= buf[c][s]
    BY <1>1, <2>2 DEF PeerFin, Ended, TypeOK, Live
  <2>3. ASSUME NEW t \in Sides, PeerReset(c, t)
        PROVE Ended(c, s)' /\ buf'[c][s] <= buf[c][s]
    BY <1>1, <2>3 DEF PeerReset, Ended, TypeOK, Over
  <2>4. ASSUME NEW t \in Sides, PeerTakes(c, t)
        PROVE Ended(c, s)' /\ buf'[c][s] <= buf[c][s]
    BY <1>1, <2>4 DEF PeerTakes, Ended, TypeOK
  <2> QED
    BY <1>3, <2>1, <2>2, <2>3, <2>4 DEF Peers
<1>4. CASE Raise(c)
  BY <1>1, <1>4 DEF Raise, Close, Ended, TypeOK
<1>5. ASSUME NEW v, NEW next, Decide(c, v, next)
      PROVE Ended(c, s)' /\ buf'[c][s] <= buf[c][s]
  BY <1>1, <1>5 DEF Decide, Ended
<1>6. CASE Head(c)
  BY <1>4, <1>5, <1>6 DEF Head, RefuseRequest, BreakOnHost, Block, Dial, HeadTooLarge, HeadTimeout, HeadLost
<1>7. CASE Connect(c)
  <2>1. CASE DialFails(c)
    BY <1>5, <2>1 DEF DialFails
  <2>2. CASE DialConnects(c)
    <3>1. s # "upstream"
      BY <1>1, <2>2 DEF ConnInv, VerdictPhase, UpstreamPhase, DialConnects
    <3> QED
      BY <1>1, <2>2, <3>1 DEF DialConnects, Ended, TypeOK
  <2> QED
    BY <1>7, <2>1, <2>2 DEF Connect
<1>8. CASE Reply(c)
  <2>1. CASE RefuseLost(c) \/ GrantLost(c)
    BY <1>4, <2>1 DEF RefuseLost, GrantLost
  <2>2. CASE Refuse(c)
    BY <1>1, <2>2 DEF Refuse, Close, Ended, TypeOK
  <2>3. CASE LogRefusal(c) \/ Grant(c) \/ AbortDone(c)
    BY <1>1, <2>3 DEF LogRefusal, Grant, AbortDone, Ended
  <2> QED
    BY <1>8, <2>1, <2>2, <2>3 DEF Reply
<1>9. CASE Relay(c)
  <2>1. ASSUME NEW p \in Pipes, PipeForward(c, p)
        PROVE Ended(c, s)' /\ buf'[c][s] <= buf[c][s]
    <3>1. s # Dst(p) /\ link' = link
      BY <1>1, <2>1 DEF PipeForward
    <3>2. PICK b \in 0..2 : buf' = [buf EXCEPT ![c][Dst(p)] = b]
      BY <2>1 DEF PipeForward
    <3>3. buf'[c][s] = buf[c][s]
      BY <1>1, <3>1, <3>2 DEF TypeOK
    <3> QED
      BY <1>1, <3>1, <3>3 DEF Ended
  <2>2. ASSUME NEW p \in Pipes, PipeDrained(c, p) \/ PipeDone(c, p)
        PROVE Ended(c, s)' /\ buf'[c][s] <= buf[c][s]
    BY <1>1, <2>2 DEF PipeDrained, PipeDone, Ended
  <2>3. ASSUME NEW p \in Pipes, CloseDst(c, p)
        PROVE Ended(c, s)' /\ buf'[c][s] <= buf[c][s]
    BY <1>1, <2>3 DEF CloseDst, Close, Ended, TypeOK
  <2>4. CASE RelayDone(c)
    BY <1>1, <2>4 DEF RelayDone, Ended
  <2> QED
    BY <1>9, <2>1, <2>2, <2>3, <2>4 DEF Relay, PipeEnds, PipeBreaks
<1>10. ASSUME NEW t \in Sides, LinkClosed(c, t)
       PROVE Ended(c, s)' /\ buf'[c][s] <= buf[c][s]
  BY <1>1, <1>10 DEF LinkClosed, Ended, TypeOK, Over
<1>11. CASE Finalize(c)
  BY <1>1, <1>11 DEF Finalize, Ended, TypeOK
<1> QED
  BY <1>2, <1>3, <1>6, <1>7, <1>8, <1>9, <1>10, <1>11 DEF Loop

\* The relay's two copying loops never write to a leg that was closed.
THEOREM ClosedStaysClosed == Spec => NothingWrittenAfterClose
<1>1. ASSUME IInv, [Next]_vars, NEW c \in Conns, NEW s \in Sides, link[c][s] \in Over \cup {"closing"}
      PROVE link'[c][s] \in Over \cup {"closing"} /\ buf'[c][s] <= buf[c][s]
  <2>1. buf[c][s] \in 0..2 /\ buf[c][s] <= buf[c][s] /\ Ended(c, s)
    BY <1>1 DEF IInv, TypeOK, Ended
  <2>2. CASE UNCHANGED vars
    BY <1>1, <2>1, <2>2 DEF vars
  <2>3. ASSUME NEW d \in Conns, Accept(d) \/ Peers(d) \/ Loop(d)
        PROVE link'[c][s] \in Over \cup {"closing"} /\ buf'[c][s] <= buf[c][s]
    <3>1. CASE d = c
      BY <1>1, <2>1, <2>3, <3>1, EndedStays DEF Ended
    <3>2. CASE d # c
      BY <1>1, <2>1, <2>3, <3>2, OthersSame DEF IInv, Same
    <3> QED
      BY <3>1, <3>2
  <2> QED
    BY <1>1, <2>2, <2>3 DEF Next
<1>2. IInv /\ [Next]_vars =>
        [\A c \in Conns, s \in Sides :
           link[c][s] \in Over \cup {"closing"} =>
             /\ link'[c][s] \in Over \cup {"closing"}
             /\ buf'[c][s] <= buf[c][s]]_vars
  BY <1>1
<1> QED
  BY <1>2, Invariant, PTL DEF Spec, NothingWrittenAfterClose

-----------------------------------------------------------------------------
(* The list.                                                               *)

\* The code finds the address that will be dialled, in the spellings it recognises.
LEMMA AddressIsDialled ==
    /\ \A h : IpAddress(h) = IF h.text \in Recognised THEN Dials[h.text] ELSE NoAddress
    /\ \A t \in Recognised : Dials[t] # NoAddress /\ IpAddress(Str[Dials[t]]) = Dials[t]
<1>1. \A h : IpAddress(h) = IF h.text \in Recognised THEN Dials[h.text] ELSE NoAddress
  BY AddressesAssumption DEF IpAddress, Unmapped, Recognised
<1>2. \A t \in Recognised : Dials[Str[Dials[t]].text] = Dials[t] /\ Str[Dials[t]].text \in Recognised
  BY AddressesAssumption DEF Unmapped, Recognised
<1> QED
  BY <1>1, <1>2, AddressesAssumption

LEMMA PortIsNamed ==
    ASSUME NEW p, NEW t
    PROVE  (PortsOf(p) = {} \/ Port(t) \in PortsOf(p)) <=> NamesPort(p, t)
<1>1. CASE p.port = NoPort
  BY <1>1, HostsAssumption DEF PortsOf, Port, DefaultPorts, NamesPort
<1>2. CASE p.port = AnyPort
  BY <1>2, HostsAssumption DEF PortsOf, NamesPort
<1>3. CASE p.port \notin {AnyPort, NoPort}
  BY <1>3 DEF PortsOf, Port, NamesPort
<1> QED
  BY <1>1, <1>2, <1>3

LEMMA NameIsNamed ==
    ASSUME NEW t \in Targets, NEW p
    PROVE  /\ FnMatch(Lower(t.host), p) => NamesText(p, t)
           /\ NamesText(p, t) /\ ~t.host.dot => FnMatch(Lower(t.host), p)
<1> DEFINE host == t.host
<1>1. /\ Lower(host) \in [text : {host.text}, caps : {FALSE}, dot : BOOLEAN]
      /\ Lower(host).dot = host.dot
  <2>1. host \in [text : {host.text}, caps : BOOLEAN, dot : BOOLEAN]
    BY HostsAssumption
  <2> HIDE DEF host
  <2> QED
    BY <2>1 DEF Lower
<1>2. FnMatch(Lower(t.host), p) <=> p.text \in DOMAIN Globs /\ Lower(t.host) \in Globs[p.text]
  BY DEF FnMatch
<1>3. ASSUME p.text \in DOMAIN Globs, ~host.dot, NEW h \in Globs[p.text], h.text = host.text, h.dot => host.dot
      PROVE  h = Lower(host)
  <2>1. h \in [text : {h.text}, caps : {FALSE}, dot : BOOLEAN]
    BY <1>3, HostsAssumption
  <2> DEFINE low == Lower(host)
  <2>2. low \in [text : {host.text}, caps : {FALSE}, dot : BOOLEAN] /\ low.dot = host.dot
    BY <1>1
  <2>3. h.text = host.text /\ ~host.dot /\ ~h.dot
    BY <1>3
  <2> HIDE DEF host, low
  <2>4. h.text = low.text /\ h.caps = low.caps
    BY <2>1, <2>2, <2>3
  <2>5. h.dot = low.dot
    BY <2>1, <2>2, <2>3
  <2>6. h = [text |-> h.text, caps |-> h.caps, dot |-> h.dot]
    BY <2>1
  <2>7. low = [text |-> low.text, caps |-> low.caps, dot |-> low.dot]
    BY <2>2
  <2> QED
    BY <2>4, <2>5, <2>6, <2>7 DEF low
<1>4. Lower(host).text = host.text /\ (Lower(host).dot => host.dot)
  BY <1>1
<1> QED
  BY <1>2, <1>3, <1>4 DEF NamesText

LEMMA AcceptedIsListed ==
    ASSUME NEW t \in Targets
    PROVE  LET listed == IF Disguised(t) THEN ListedAsName(t) ELSE Listed(t)
           IN  /\ Accepts(t) => listed
               /\ listed => Accepts(t) \/ t.host.dot
<1> DEFINE ports(p) == PortsOf(p) = {} \/ Port(t) \in PortsOf(p)
<1>1. CASE t.host.text \in Recognised
  <2> DEFINE a == Dials[t.host.text]
  <2>1. IpAddress(t.host) = a /\ a # NoAddress /\ IpAddress(Str[a]) = a
    BY <1>1, AddressIsDialled
  <2>2. Accepts(t) <=> \E p \in Patterns : ports(p) /\ InNetwork(a, p)
    BY <2>1 DEF Accepts, DomainMatches
  <2>3. \A p : NamesPort(p, t) /\ NamesAddress(p, t) <=> ports(p) /\ InNetwork(a, p)
    BY PortIsNamed DEF NamesAddress, InNetwork
  <2>4. t.host.text \in DOMAIN Dials /\ ~Disguised(t)
    BY <1>1, AddressesAssumption DEF Disguised
  <2> QED
    BY <2>2, <2>3, <2>4 DEF Listed
<1>2. CASE t.host.text \notin Recognised
  <2>1. IpAddress(t.host) = NoAddress
    BY <1>2, AddressIsDialled
  <2>2. Accepts(t) <=> \E p \in Patterns : ports(p) /\ FnMatch(Lower(t.host), p)
    BY <2>1 DEF Accepts, DomainMatches
  <2>3. \A p : /\ ports(p) /\ FnMatch(Lower(t.host), p) => NamesPort(p, t) /\ NamesText(p, t)
               /\ NamesPort(p, t) /\ NamesText(p, t) => (ports(p) /\ FnMatch(Lower(t.host), p)) \/ t.host.dot
    BY PortIsNamed, NameIsNamed
  <2>4. /\ Accepts(t) => ListedAsName(t)
        /\ ListedAsName(t) => Accepts(t) \/ t.host.dot
    BY <2>2, <2>3 DEF ListedAsName
  <2>5. CASE Disguised(t)
    BY <2>4, <2>5
  <2>6. CASE ~Disguised(t)
    <3>1. Listed(t) <=> ListedAsName(t)
      BY <1>2, <2>6 DEF Disguised, Listed, ListedAsName
    <3> QED
      BY <2>4, <2>6, <3>1
  <2> QED
    BY <2>5, <2>6
<1> QED
  BY <1>1, <1>2

\* Whatever the list, a host the proxy recognises as an address is decided by
\* the networks that hold what is dialled for it, and any other by its text.
THEOREM ListDecides == Spec => []DecidedAsListed
<1> DEFINE listed(t) == IF Disguised(t) THEN ListedAsName(t) ELSE Listed(t)
<1>1. ASSUME IInv, NEW c \in Conns, req[c] \in Targets
      PROVE  /\ pc[c] = "dial" \/ verdict[c] \in {"ALLOW", "FAIL"} => listed(req[c])
             /\ verdict[c] = "BLOCK" => ~listed(req[c]) \/ req[c].host.dot
  <2>1. /\ pc[c] = "dial" \/ verdict[c] \in {"ALLOW", "FAIL"} => req[c] \in Allowed
        /\ verdict[c] = "BLOCK" => req[c] \notin Allowed
    BY <1>1 DEF IInv, ConnInv, VerdictFits
  <2>2. req[c] \in Allowed <=> Accepts(req[c])
    BY <1>1, AllowedIsAccepted
  <2>3. /\ Accepts(req[c]) => listed(req[c])
        /\ listed(req[c]) => Accepts(req[c]) \/ req[c].host.dot
    BY <1>1, AcceptedIsListed
  <2> QED
    BY <2>1, <2>2, <2>3
<1>2. IInv => DecidedAsListed
  BY <1>1 DEF DecidedAsListed
<1> QED
  BY <1>2, Invariant, PTL
=============================================================================
