------------------------ MODULE SeatbeltHelperProofs ------------------------
(* Proofs about SeatbeltHelper.                                            *)
EXTENDS SeatbeltHelper, TLAPS

(***************************************************************************)
(* The inductive invariant: what each process may take for granted about   *)
(* the other. Nobody waits for anybody but through the pipe, so it says    *)
(* what the pipe tells: the helper holds its write end until it has told   *)
(* the port or is gone, and a caller that was told has a helper that serves*)
(* until the caller has ended.                                             *)
(***************************************************************************)
Waiting == caller \in {"forked", "handshake"}
Serving == caller \in {"invoke", "chdir", "command", "finishing"}

\* Before the fork there is only the caller, which makes the directories.
BeforeFork ==
    /\ caller \in {"start", "scratch", "dirs"} => helper = "none"
    /\ Waiting \/ Serving => helper # "none"
    /\ caller = "dirs" => dirs = Dirs
    /\ helper = "none" => ~told

\* Only the helper removes them, as the last thing it does, unless Ctrl-C
\* reaches it while it has no session of its own.
HelperPhase ==
    /\ helper \in Helpers \ {"none", "gone", "killed"} => dirs = Dirs
    /\ helper = "gone" => dirs = {} \/ (tty /\ ~session /\ ~Waiting /\ ~Serving)
    /\ helper \in {"started", "replied", "polling"} /\ network = "proxy" => proxy

\* While the caller waits, a helper that has not told it anything holds the pipe.
PipePhase ==
    Waiting /\ ~told =>
      /\ helper \in {"forked", "try", "starting", "started", "cleaning", "gone", "killed"}
      /\ helper \in {"forked", "try", "starting", "started", "cleaning"} => "helper" \in writers

\* A helper that told its port goes on serving while the caller, or the command
\* the caller has become, is there.
ToldPhase ==
    /\ Serving => told
    /\ told /\ (Waiting \/ Serving) => helper \in {"replied", "polling", "killed"}

IInv == TypeOK /\ BeforeFork /\ HelperPhase /\ PipePhase /\ ToldPhase

\* The invariant holds when exec is called.
LEMMA InitInv == Init => IInv
BY DEF Init, IInv, TypeOK, fixed, BeforeFork, HelperPhase, PipePhase, ToldPhase, Waiting, Serving,
       Callers, Helpers, Dirs

\* A step of the caller, or of the command it has become, keeps it.
LEMMA CallerKeeps ==
    ASSUME IInv, Caller \/ Finish \/ CallerEnds
    PROVE  IInv'
<1> USE DEF IInv, TypeOK, BeforeFork, HelperPhase, PipePhase, ToldPhase, Waiting, Serving, fixed
<1>1. CASE MakeDirs
  BY <1>1 DEF MakeDirs, Callers, Helpers, Dirs
<1>2. CASE Fork
  BY <1>2 DEF Fork, Callers, Helpers, Dirs
<1>3. CASE CloseWrite
  BY <1>3 DEF CloseWrite, Callers
<1>4. CASE ReadReply
  BY <1>4 DEF ReadReply, Callers
<1>5. CASE Invoke
  BY <1>5 DEF Invoke, Callers
<1>6. CASE CallerExits \/ CallerEnds
  <2>1. /\ caller' = "gone" /\ writers' \subseteq writers
        /\ UNCHANGED <<helper, network, tty, reaps, dirs, proxy, session, told>>
    BY <1>6 DEF CallerExits, CallerEnds
  <2>2. TypeOK' /\ BeforeFork' /\ PipePhase' /\ ToldPhase'
    BY <2>1 DEF Callers
  <2>3. HelperPhase'
    BY <2>1, Zenon
  <2> QED
    BY <2>2, <2>3
<1>7. CASE Finish
  BY <1>7 DEF Finish, Callers
<1> QED
  BY <1>1, <1>2, <1>3, <1>4, <1>5, <1>6, <1>7 DEF Caller

\* A step of the helper keeps it.
LEMMA HelperKeeps ==
    ASSUME IInv, Helper \/ KillHelper
    PROVE  IInv'
<1> USE DEF IInv, TypeOK, BeforeFork, HelperPhase, PipePhase, ToldPhase, Waiting, Serving, fixed
<1>1. CASE EnterTry
  BY <1>1 DEF EnterTry, Helpers
<1>2. CASE NewSession
  BY <1>2 DEF NewSession, Helpers
<1>3. CASE StartProxy
  <2>1. /\ helper = "starting" /\ helper' = "started"
        /\ proxy' \in BOOLEAN /\ (network = "proxy" => proxy')
        /\ UNCHANGED <<caller, network, tty, reaps, dirs, session, told, writers>>
    BY <1>3 DEF StartProxy
  <2> QED
    BY <2>1 DEF Helpers
<1>10. CASE StartFails
  BY <1>10 DEF StartFails, Helpers
<1>4. CASE Reply
  BY <1>4 DEF Reply, Helpers
<1>5. CASE StartPolling
  BY <1>5 DEF StartPolling, Helpers
<1>6. CASE Poll
  BY <1>6 DEF Poll, Helpers
<1>7. CASE StopProxy
  BY <1>7 DEF StopProxy, Helpers
<1>8. CASE Clean
  BY <1>8 DEF Clean, Helpers
<1>9. CASE KillHelper
  BY <1>9 DEF KillHelper, Helpers
<1> QED
  BY <1>1, <1>2, <1>3, <1>4, <1>5, <1>6, <1>7, <1>8, <1>9, <1>10 DEF Helper

\* Ctrl-C keeps it: it ends a caller that is not yet the command, and a helper
\* that serves is past the point where it could reach it.
LEMMA CtrlCKeeps ==
    ASSUME IInv, CtrlC
    PROVE  IInv'
<1>1. /\ caller' = "gone" \/ (caller \in {"command", "finishing"} /\ caller' = caller)
      /\ helper' \in {helper, "gone", "cleaning"}
      /\ helper' = "cleaning" => helper \in {"try", "cleaning"}
      /\ helper' = "gone" => helper = "gone" \/ (tty /\ ~session /\ helper \in {"forked", "cleaning"})
      /\ writers' \subseteq writers
      /\ UNCHANGED <<fixed, dirs, proxy, session, told>>
  BY DEF CtrlC
<1> QED
  BY <1>1 DEF IInv, TypeOK, BeforeFork, HelperPhase, PipePhase, ToldPhase, Waiting, Serving, fixed,
              Callers, Helpers, Dirs

\* Every step keeps the invariant.
LEMMA NextInv == IInv /\ [Next]_vars => IInv'
<1> SUFFICES ASSUME IInv, [Next]_vars PROVE IInv'
  OBVIOUS
<1>1. CASE UNCHANGED vars
  BY <1>1 DEF IInv, TypeOK, BeforeFork, HelperPhase, PipePhase, ToldPhase, Waiting, Serving, vars, fixed
<1> QED
  BY <1>1, CallerKeeps, HelperKeeps, CtrlCKeeps DEF Next

\* The inductive invariant is one.
THEOREM InvCorrect == Spec => []IInv
BY InitInv, NextInv, PTL DEF Spec

\* exec of the Seatbelt backend: from the handshake to its end, the command has
\* its directories and, in proxy mode, its proxy, unless the helper is killed.
THEOREM CommandServed == Spec => []CommandIsServed
<1>1. IInv => CommandIsServed
  BY DEF IInv, HelperPhase, ToldPhase, Serving, CommandIsServed, Helpers
<1> QED
  BY <1>1, InvCorrect, PTL

\* _start_helper: a helper that was not killed leaves no directory behind, and
\* the caller sees the pipe end only when it has removed them, except that Ctrl-C
\* may end one that has no session of its own yet.
THEOREM CleanedUp == Spec => []CleansUp
<1>1. IInv => CleansUp
  BY DEF IInv, HelperPhase, PipePhase, Waiting, CleansUp, LeavesNothing
<1> QED
  BY <1>1, InvCorrect, PTL
=============================================================================
