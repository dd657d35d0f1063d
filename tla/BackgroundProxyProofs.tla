----------------------- MODULE BackgroundProxyProofs -----------------------
(* Proofs about BackgroundProxy, for every set of connections, targets and  *)
(* allowed targets.                                                        *)
EXTENDS BackgroundProxy, ConnectProxyProofs

(***************************************************************************)
(* The inductive invariant: that of the proxy, whose handlers take the     *)
(* same steps under a BackgroundProxy, and what the main thread, the       *)
(* loop's thread and the stop coroutine may infer from one another.        *)
(***************************************************************************)

\* The thread is there from __enter__ on, and ready is set by it alone.
ThreadPhase ==
    /\ thread = "none" <=> main = "before"
    /\ ready <=> thread \in {"running", "ended"}
    /\ main \in {"body", "stopping", "joining", "exited", "no_stop"} => ready

\* Only __exit__ schedules stop(), and it stops the loop once stop() is done.
StopPhase ==
    /\ main \in {"before", "entering", "body", "no_start"} => stopper = "none"
    /\ main \in {"before", "entering", "body", "stopping", "no_start"} => ~halt
    /\ halt => stopper = "finished"
    /\ thread = "ended" => halt
    /\ main = "exited" => thread = "ended"
    /\ stopper = "waiting" => waits
    /\ main = "no_stop" => slow \/ waits

\* The server listens from bind until stop() closes it.
ServerPhase ==
    /\ thread \in {"bound", "running", "ended"} /\ stopper \in {"none", "scheduled"} => listening
    /\ stopper \in {"waiting", "finished"} => ~listening /\ ready

\* Where wait_closed waits, stop() is done once no client is connected.
HaltPhase == stopper = "finished" /\ waits => Attached = {}

\* The client's transport is closed after the reply, or by the exception that a
\* host raises.
Answered(c) == link[c]["client"] \in {"closing", "closed"} => reply[c] # 0 \/ req[c] = BadHost
AnswerPhase == \A c \in Conns : Answered(c)

BInv == BTypeOK /\ IInv /\ ThreadPhase /\ StopPhase /\ ServerPhase /\ HaltPhase /\ AnswerPhase

-----------------------------------------------------------------------------
(* What a step of a connection does to the proxy's part of the invariant.   *)

\* A step of the loop or of a peer is one of the proxy.
LEMMA ProxyKeeps ==
    ASSUME IInv, NEW c \in Conns, Accept(c) \/ Peers(c) \/ Loop(c)
    PROVE  IInv'
BY InvNext DEF Next

\* A connection that was accepted has a client.
LEMMA Accepted ==
    ASSUME IInv, NEW c \in Conns, link[c]["client"] = "none"
    PROVE  pc[c] = "new"
<1>1. TypeOK /\ ConnInv(c)
  BY DEF IInv
<1>2. pc[c] # "relay"
  <2> SUFFICES ASSUME pc[c] = "relay" PROVE FALSE
    OBVIOUS
  <2>1. reply[c] = 200
    BY <1>1 DEF ConnInv, ReplyPhase, VerdictPhase, Status
  <2>2. "down" \in Pipes /\ Dst("down") = "client" /\ pipe[c]["down"] \in PipeStates
    BY <1>1 DEF Pipes, Dst, TypeOK
  <2>3. PipePhase(c, "down")
    BY <1>1, <2>2 DEF ConnInv
  <2> QED
    BY <2>1, <2>2, <2>3 DEF PipePhase, PipeStates, Live, Over
<1> QED
  BY <1>1, <1>2 DEF ConnInv, ClientPhase, TypeOK, PCs, Live, Over

\* No step but Accept attaches a client: a transport that has ended stays so.
LEMMA AttachedShrinks ==
    ASSUME IInv, NEW c \in Conns, Peers(c) \/ Loop(c)
    PROVE  Attached' \subseteq Attached
<1> SUFFICES ASSUME NEW d \in Conns, link[d]["client"] \notin Live \cup {"closing"}
             PROVE  link'[d]["client"] \notin Live \cup {"closing"}
  <2>1. \A d \in Conns : d \in Attached <=> link[d]["client"] \in Live \cup {"closing"}
    BY DEF Attached
  <2>2. \A d \in Conns : d \in Attached' <=> link'[d]["client"] \in Live \cup {"closing"}
    BY DEF Attached
  <2>3. Attached' \subseteq Conns
    BY DEF Attached
  <2> QED
    BY <2>1, <2>2, <2>3
<1>1. TypeOK /\ ConnInv(d)
  BY DEF IInv
<1>2. CASE d # c
  BY <1>1, <1>2, OthersSame DEF Same
<1>3. CASE d = c /\ link[d]["client"] = "none"
  <2>1. pc[c] = "new"
    BY <1>3, Accepted
  <2>2. \A p \in Pipes : pipe[c][p] = "idle"
    BY <1>1, <1>3, <2>1 DEF ConnInv, PipePhase
  <2>3. link[c]["upstream"] # "open" /\ link[c]["upstream"] # "fin"
    BY <1>1, <1>3, <2>1 DEF ConnInv, UpstreamPhase, VerdictPhase
  <2>4. CASE Peers(c)
    BY <1>1, <1>3, <2>4 DEF Peers, SendLine, SendRest, PeerFin, PeerReset, PeerTakes, TypeOK, Sides, Live
  <2>5. CASE Head(c) \/ Connect(c) \/ Reply(c)
    BY <2>1, <2>5 DEF Head, Connect, Reply, RefuseRequest, BreakOnHost, Block, Dial, HeadTooLarge,
                HeadTimeout, HeadLost, HeadRead, DialFails, DialConnects, Refuse, RefuseLost,
                LogRefusal, Grant, GrantLost, AbortDone
  <2>6. CASE Relay(c)
    BY <2>1, <2>2, <2>6 DEF Relay, PipeForward, PipeDrained, PipeEnds, PipeBreaks, PipeDone, RelayDone
  <2>7. CASE Finalize(c) \/ \E s \in Sides : LinkClosed(c, s)
    BY <1>1, <1>3, <2>1, <2>7 DEF Finalize, LinkClosed, TypeOK, Sides, Live
  <2> QED
    BY <2>4, <2>5, <2>6, <2>7 DEF Loop
<1>4. CASE d = c /\ link[d]["client"] # "none"
  <2>1. link[c]["client"] \in Over
    BY <1>1, <1>4 DEF TypeOK, Links, Live, Over, Sides
  <2>2. \A p \in Pipes : Dst(p) \in Sides
    BY DEF Dst, Sides
  <2>3. CASE Peers(c)
    BY <1>1, <1>4, <2>1, <2>3 DEF Peers, SendLine, SendRest, PeerFin, PeerReset, PeerTakes, TypeOK, Sides,
                                  Live, Over
  <2>4. CASE Head(c)
    BY <1>1, <1>4, <2>1, <2>4 DEF Head, RefuseRequest, BreakOnHost, Block, Dial, HeadTooLarge, HeadTimeout,
                                  HeadLost, Decide, Raise, Close, TypeOK, Live, Over
  <2>5. CASE Connect(c) \/ Reply(c)
    BY <1>1, <1>4, <2>1, <2>5 DEF Connect, Reply, DialFails, DialConnects, Decide, Refuse, RefuseLost,
                                  LogRefusal, Grant, GrantLost, AbortDone, Raise, Close, TypeOK, Live,
                                  Over, Sides
  <2>6. CASE Relay(c)
    <3>1. CASE RelayDone(c)
      BY <1>4, <2>1, <3>1 DEF RelayDone, Live, Over
    <3>2. ASSUME NEW p \in Pipes, PipeForward(c, p) \/ PipeDrained(c, p) \/ PipeDone(c, p)
          PROVE  link' = link
      BY <3>2 DEF PipeForward, PipeDrained, PipeDone
    <3>3. ASSUME NEW p \in Pipes, PipeEnds(c, p) \/ PipeBreaks(c, p)
          PROVE  link'[c]["client"] \in Over
      <4>1. link' = [link EXCEPT ![c][Dst(p)] = Close(@)]
        BY <3>3 DEF PipeEnds, PipeBreaks, CloseDst
      <4>2. Close(link[c]["client"]) \in Over
        BY <2>1 DEF Close, Live, Over
      <4> QED
        BY <1>1, <2>1, <2>2, <4>1, <4>2 DEF TypeOK, Sides
    <3> QED
      BY <1>4, <2>1, <2>6, <3>1, <3>2, <3>3 DEF Relay, Live, Over
  <2>7. CASE Finalize(c) \/ \E s \in Sides : LinkClosed(c, s)
    <3>1. CASE Finalize(c)
      BY <1>1, <1>4, <2>1, <3>1 DEF Finalize, TypeOK, Live, Over, Sides
    <3>2. ASSUME NEW s \in Sides, LinkClosed(c, s)
          PROVE  link'[c]["client"] \in Over
      BY <1>1, <2>1, <3>2 DEF LinkClosed, TypeOK, Over, Sides
    <3> QED
      BY <1>4, <2>7, <3>1, <3>2 DEF Live, Over
  <2> QED
    BY <2>3, <2>4, <2>5, <2>6, <2>7 DEF Loop
<1> QED
  BY <1>2, <1>3, <1>4

\* No step closes the transport of a client that has no answer, but for BadHost.
LEMMA AnswersKept ==
    ASSUME IInv, NEW c \in Conns, Accept(c) \/ Peers(c) \/ Loop(c), NEW d \in Conns, Answered(d)
    PROVE  Answered(d)'
<1>1. TypeOK /\ ConnInv(c)
  BY DEF IInv
<1>2. CASE d # c
  BY <1>1, <1>2, OthersSame DEF Same, Answered
<1> SUFFICES ASSUME d = c PROVE Answered(c)'
  BY <1>2
<1>3. CASE Accept(c)
  BY <1>1, <1>3 DEF Accept, Answered, TypeOK, Sides
<1>4. CASE Peers(c)
  <2>1. ASSUME NEW r \in Requests, SendLine(c, r) PROVE Answered(c)'
    BY <2>1 DEF SendLine, Answered
  <2>2. CASE SendRest(c)
    BY <2>2 DEF SendRest, Answered
  <2>3. ASSUME NEW s \in Sides, PeerFin(c, s) \/ PeerReset(c, s) PROVE Answered(c)'
    BY <1>1, <2>3 DEF PeerFin, PeerReset, Answered, TypeOK, Sides
  <2>4. ASSUME NEW s \in Sides, PeerTakes(c, s) PROVE Answered(c)'
    BY <2>4 DEF PeerTakes, Answered
  <2> QED
    BY <1>4, <2>1, <2>2, <2>3, <2>4 DEF Peers
<1>5. ASSUME NEW v, NEW next, Decide(c, v, next) PROVE Answered(c)'
  BY <1>5 DEF Decide, Answered
<1>6. ASSUME Raise(c), link[c]["client"] = "reset" PROVE Answered(c)'
  BY <1>1, <1>6 DEF Raise, Close, Live, Answered, TypeOK, Sides
<1>7. CASE BreakOnHost(c)
  BY <1>7 DEF BreakOnHost, Raise, Answered
<1>8. CASE Head(c)
  BY <1>5, <1>6, <1>7, <1>8 DEF Head, RefuseRequest, Block, Dial, HeadTooLarge, HeadTimeout, HeadLost
<1>9. CASE Connect(c)
  <2>1. CASE DialFails(c)
    BY <1>5, <2>1 DEF DialFails
  <2>2. CASE DialConnects(c)
    BY <1>1, <2>2 DEF DialConnects, Answered, TypeOK, Sides
  <2> QED
    BY <1>9, <2>1, <2>2 DEF Connect
<1>10. CASE Reply(c)
  <2>1. CASE Refuse(c) \/ Grant(c)
    BY <1>1, <2>1 DEF Refuse, Grant, Status, Answered, TypeOK
  <2>2. CASE RefuseLost(c) \/ GrantLost(c)
    BY <1>6, <2>2 DEF RefuseLost, GrantLost
  <2>3. CASE LogRefusal(c) \/ AbortDone(c)
    BY <2>3 DEF LogRefusal, AbortDone, Answered
  <2> QED
    BY <1>10, <2>1, <2>2, <2>3 DEF Reply
<1>11. CASE Relay(c)
  <2>1. ASSUME NEW p \in Pipes, PipeForward(c, p) \/ PipeDrained(c, p) \/ PipeDone(c, p) PROVE Answered(c)'
    BY <2>1 DEF PipeForward, PipeDrained, PipeDone, Answered
  <2>2. ASSUME NEW p \in Pipes, PipeEnds(c, p) \/ PipeBreaks(c, p) PROVE Answered(c)'
    <3>1. pipe[c][p] # "idle" /\ reply' = reply
      BY <2>2 DEF PipeEnds, PipeBreaks, CloseDst
    <3>2. reply'[c] # 0
      BY <1>1, <3>1 DEF ConnInv, PipePhase
    <3> QED
      BY <3>2 DEF Answered
  <2>3. CASE RelayDone(c)
    BY <2>3 DEF RelayDone, Answered
  <2> QED
    BY <1>11, <2>1, <2>2, <2>3 DEF Relay
<1>12. ASSUME NEW s \in Sides, LinkClosed(c, s) PROVE Answered(c)'
  BY <1>1, <1>12 DEF LinkClosed, Answered, TypeOK, Sides
<1>13. CASE Finalize(c)
  BY <1>1, <1>13 DEF Finalize, Answered, TypeOK, Sides
<1> QED
  BY <1>3, <1>4, <1>8, <1>9, <1>10, <1>11, <1>12, <1>13 DEF Loop

-----------------------------------------------------------------------------
(* The invariant.                                                          *)

\* It holds before __enter__.
LEMMA BInvInit == BInit => BInv
<1> SUFFICES ASSUME BInit PROVE BInv
  OBVIOUS
<1>1. IInv /\ AnswerPhase
  BY InvInit DEF BInit, Init, AnswerPhase, Answered, Sides
<1> QED
  BY <1>1 DEF BInit, BInv, BTypeOK, IInv, ThreadPhase, StopPhase, ServerPhase, HaltPhase, Mains, Threads,
              Stoppers

\* A handler moves only while the loop runs, and a peer attaches nothing.
LEMMA ServeKeeps ==
    ASSUME BInv, NEW c \in Conns, Serve(c) \/ PeersAct(c)
    PROVE  BInv'
<1>1. UNCHANGED bvars /\ (Accept(c) \/ Peers(c) \/ Loop(c))
  BY DEF Serve, PeersAct
<1>2. IInv'
  BY <1>1, ProxyKeeps DEF BInv
<1>3. BTypeOK' /\ ThreadPhase' /\ StopPhase' /\ ServerPhase'
  BY <1>1, <1>2 DEF BInv, BTypeOK, IInv, ThreadPhase, StopPhase, ServerPhase, bvars, host
<1>4. HaltPhase'
  <2>1. CASE Serve(c)
    <3>1. ASSUME stopper = "finished" PROVE Attached' \subseteq Attached
      <4>1. Loop(c)
        BY <2>1, <3>1 DEF Serve, BInv, ServerPhase
      <4> QED
        BY <4>1, AttachedShrinks DEF BInv
    <3> QED
      BY <1>1, <3>1 DEF BInv, HaltPhase, bvars, host
  <2>2. CASE PeersAct(c)
    <3>1. Attached' \subseteq Attached
      BY <2>2, AttachedShrinks DEF PeersAct, BInv
    <3> QED
      BY <1>1, <3>1 DEF BInv, HaltPhase, bvars, host
  <2> QED
    BY <2>1, <2>2
<1>5. AnswerPhase'
  BY <1>1, AnswersKept DEF BInv, AnswerPhase
<1> QED
  BY <1>2, <1>3, <1>4, <1>5 DEF BInv

\* The loop's thread.
LEMMA ThreadKeeps ==
    ASSUME BInv, Thread
    PROVE  BInv'
<1> USE DEF BInv, ThreadPhase, StopPhase, ServerPhase, HaltPhase
<1>1. vars' = vars /\ UNCHANGED <<main, waits, slow>>
  BY DEF Thread, StartServer, StartFails, SetReady, StopServer, StopResumes, LoopHalts, vars, host
<1>2. IInv' /\ TypeOK' /\ AnswerPhase' /\ Attached' = Attached
  BY <1>1, InvNext DEF IInv, vars, Attached, AnswerPhase, Answered
<1>3. BTypeOK'
  BY <1>1, <1>2 DEF BTypeOK, Thread, StartServer, StartFails, SetReady, StopServer, StopResumes, LoopHalts,
                    Threads, Stoppers
<1>4. CASE StartServer \/ StartFails
  BY <1>1, <1>2, <1>3, <1>4 DEF StartServer, StartFails
<1>5. CASE SetReady
  BY <1>1, <1>2, <1>3, <1>5 DEF SetReady
<1>6. CASE StopServer \/ StopResumes
  BY <1>1, <1>2, <1>3, <1>6 DEF StopServer, StopResumes
<1>7. CASE LoopHalts
  BY <1>1, <1>2, <1>3, <1>7 DEF LoopHalts
<1> QED
  BY <1>4, <1>5, <1>6, <1>7 DEF Thread

\* The main thread.
LEMMA MainKeeps ==
    ASSUME BInv, Main
    PROVE  BInv'
<1> USE DEF BInv, ThreadPhase, StopPhase, ServerPhase, HaltPhase
<1>1. vars' = vars /\ UNCHANGED <<waits, slow>>
  BY DEF Main, Enter, Entered, EnterTimeout, Exit, ExitStopped, ExitTimeout, Joined, JoinTimeout, vars, host
<1>2. IInv' /\ TypeOK' /\ AnswerPhase' /\ Attached' = Attached
  BY <1>1, InvNext DEF IInv, vars, Attached, AnswerPhase, Answered
<1>3. BTypeOK'
  BY <1>1, <1>2 DEF BTypeOK, Main, Enter, Entered, EnterTimeout, Exit, ExitStopped, ExitTimeout, Joined,
                    JoinTimeout, Mains, Threads, Stoppers
<1>4. CASE Enter \/ Entered \/ EnterTimeout
  BY <1>1, <1>2, <1>3, <1>4 DEF Enter, Entered, EnterTimeout
<1>5. CASE Exit
  BY <1>1, <1>2, <1>3, <1>5 DEF Exit
<1>6. CASE ExitStopped \/ ExitTimeout
  BY <1>1, <1>2, <1>3, <1>6 DEF ExitStopped, ExitTimeout
<1>7. CASE Joined \/ JoinTimeout
  BY <1>1, <1>2, <1>3, <1>7 DEF Joined, JoinTimeout
<1> QED
  BY <1>4, <1>5, <1>6, <1>7 DEF Main

\* Every step keeps the invariant.
LEMMA BInvNext == BInv /\ [BNext]_allvars => BInv'
<1> SUFFICES ASSUME BInv, [BNext]_allvars PROVE BInv'
  OBVIOUS
<1>1. CASE UNCHANGED allvars
  <2>1. IInv'
    BY <1>1, InvNext DEF BInv, allvars
  <2> QED
    BY <1>1, <2>1 DEF BInv, BTypeOK, IInv, ThreadPhase, StopPhase, ServerPhase, HaltPhase, AnswerPhase,
                      Answered, Attached, allvars, vars, bvars, host
<1> QED
  BY <1>1, ServeKeeps, ThreadKeeps, MainKeeps DEF BNext

\* The inductive invariant is one.
THEOREM BackgroundInvariant == BSpec => []BInv
BY BInvInit, BInvNext, PTL DEF BSpec

-----------------------------------------------------------------------------
(* What it implies.                                                        *)

\* __enter__: in the body of the with block the server listens and its loop runs.
THEOREM Listens == BSpec => []ListeningInBody
<1>1. BInv => ListeningInBody
  BY DEF BInv, BTypeOK, ThreadPhase, StopPhase, ServerPhase, ListeningInBody
<1> QED
  BY <1>1, BackgroundInvariant, PTL

\* __exit__, where wait_closed does not wait and five seconds are plenty: the
\* loop has halted when it returns or raises.
THEOREM StopsPrompt == BSpec => []StopsWherePrompt
<1>1. BInv => StopsWherePrompt
  BY DEF BInv, StopPhase, StopsWherePrompt, StopsOnExit, LoopRuns
<1> QED
  BY <1>1, BackgroundInvariant, PTL

\* Where wait_closed waits and __exit__ returns, no client it found connected
\* was cut off or left without an answer.
THEOREM StopCutsNobodyOff == BSpec => []NobodyCutOff
<1>1. ASSUME BInv, waits, main = "exited", NEW c \in Conns, pc[c] # "new"
      PROVE  /\ link[c]["client"] \in Over
             /\ link[c]["client"] = "closed" => reply[c] # 0 \/ req[c] = BadHost
  <2>1. Attached = {}
    BY <1>1 DEF BInv, StopPhase, HaltPhase
  <2>2. link[c]["client"] \in Links \ (Live \cup {"closing"})
    BY <1>1, <2>1 DEF Attached, BInv, IInv, TypeOK, Sides
  <2>3. link[c]["client"] # "none"
    BY <1>1, Accepted DEF BInv
  <2> QED
    BY <1>1, <2>2, <2>3 DEF Links, Live, Over, BInv, AnswerPhase, Answered
<1>2. BInv => NobodyCutOff
  BY <1>1 DEF NobodyCutOff
<1> QED
  BY <1>2, BackgroundInvariant, PTL

\* Once __exit__ has returned, the records the audit counts are final: no
\* connection is accepted, answered or logged any more.
THEOREM RecordsFinal == BSpec => NoRecordAfterExit
<1>1. ASSUME BInv, [BNext]_allvars, main = "exited"
      PROVE  log' = log /\ reply' = reply /\ \A c \in Conns : pc[c] = "new" => pc'[c] = "new"
  <2>1. thread = "ended"
    BY <1>1 DEF BInv, StopPhase
  <2>2. ~\E c \in Conns : Serve(c)
    BY <2>1 DEF Serve, LoopRuns
  <2>3. ASSUME NEW c \in Conns, PeersAct(c)
        PROVE  UNCHANGED <<pc, log, reply>>
    BY <2>3 DEF PeersAct, Peers, SendLine, SendRest, PeerFin, PeerReset, PeerTakes
  <2>4. ASSUME Thread \/ Main
        PROVE  UNCHANGED vars
    BY <2>4 DEF Thread, StartServer, StartFails, SetReady, StopServer, StopResumes, LoopHalts, Main, Enter,
                Entered, EnterTimeout, Exit, ExitStopped, ExitTimeout, Joined, JoinTimeout, vars
  <2> QED
    BY <1>1, <2>2, <2>3, <2>4 DEF BNext, allvars, vars
<1> QED
  BY <1>1, BackgroundInvariant, PTL DEF BSpec, NoRecordAfterExit

\* A step of the threads is none of the proxy's.
LEMMA ProxySteps == [BNext]_allvars => [Next]_vars
<1> SUFFICES ASSUME [BNext]_allvars PROVE [Next]_vars
  OBVIOUS
<1>1. CASE UNCHANGED allvars
  BY <1>1 DEF allvars
<1>2. CASE Thread
  BY <1>2 DEF Thread, StartServer, StartFails, SetReady, StopServer, StopResumes, LoopHalts
<1>3. CASE Main
  BY <1>3 DEF Main, Enter, Entered, EnterTimeout, Exit, ExitStopped, ExitTimeout, Joined, JoinTimeout
<1>4. ASSUME NEW c \in Conns, Serve(c) \/ PeersAct(c)
      PROVE  Next
  BY <1>4 DEF Serve, PeersAct, Next
<1> QED
  BY <1>1, <1>2, <1>3, <1>4 DEF BNext

\* On its thread, wherever the loop is halted and whatever becomes of the stop,
\* the proxy is the gatekeeper that it is on a loop of its own.
THEOREM BackgroundIsGatekeeper == BSpec => ProxyIsGatekeeper
<1>1. BInit => G!Init /\ Heard
  BY GatekeeperInit DEF BInit
<1>2. BInv /\ Heard /\ [BNext]_allvars => Heard' /\ [G!Next]_(G!vars)
  BY ProxySteps, HeardNext, GatekeeperNext DEF BInv, IInv
<1> QED
  BY <1>1, <1>2, BackgroundInvariant, PTL DEF BSpec, ProxyIsGatekeeper, G!Spec
=============================================================================
