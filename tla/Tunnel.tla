------------------------------- MODULE Tunnel -------------------------------
(***************************************************************************)
(* One connection from a sandboxed command to its target: the command, the *)
(* two relay threads of src/hozo/bridge.py, the two pipes of _relay in     *)
(* src/hozo/proxy.py, and the target, with a socket between each two.      *)
(* The head of the request and the answer to it are ConnectProxy's.        *)
(*                                                                         *)
(* A direction of a socket is a queue of bytes, everything from the        *)
(* sender's buffer to the receiver's; a byte is its number in the stream.  *)
(* The bridge shuts a direction down, the proxy closes the socket.         *)
(***************************************************************************)
EXTENDS Naturals, SequencesExt

CONSTANTS
    MaxBytes,  \* bound on what each end sends
    Capacity   \* what a direction of a socket holds

ASSUME BoundsAssumption == MaxBytes \in Nat /\ Capacity \in Nat \ {0}

Hops == {"client", "unix", "target"}   \* command--bridge, bridge--proxy, proxy--target
Directions == {"up", "down"}           \* to the target, to the command
Lines == Hops \X Directions
Relays == {"bridge", "proxy"}
Flip(d) == IF d = "up" THEN "down" ELSE "up"

\* The line a relay reads in a direction, and the one it writes.
Src(r, d) == <<CASE r = "bridge" -> IF d = "up" THEN "client" ELSE "unix"
                 [] r = "proxy" -> IF d = "up" THEN "unix" ELSE "target", d>>
Dst(r, d) == <<Src(r, Flip(d))[1], d>>

VARIABLES
    q,       \* what is under way on each line
    fin,     \* whether the writer of a line has ended it, or reset its connection
    deaf,    \* the reader of a line has closed its socket
    relay,   \* each relay's thread or pipe, per direction: "on" or "done"
    closed,  \* handle has closed the command's connection
    sent, got, ended,   \* as in Streams
    quit,    \* directions whose sender has shut them down or gone
    gone     \* directions whose sender has closed its socket

vars == <<q, fin, deaf, relay, closed, sent, got, ended, quit, gone>>

Init ==
    /\ q = [l \in Lines |-> <<>>]
    /\ fin = [l \in Lines |-> "open"] /\ deaf = [l \in Lines |-> FALSE]
    /\ relay = [r \in Relays |-> [d \in Directions |-> "on"]]
    /\ closed = FALSE
    /\ sent = [d \in Directions |-> 0] /\ got = [d \in Directions |-> 0]
    /\ ended = [d \in Directions |-> "no"]
    /\ quit = {} /\ gone = {}

\* Closing the socket of hop h at the end that writes in direction d. What it
\* has not read is dropped, at once or as far as it was not buffered yet. Over
\* TCP that may reset the connection, and with it drop what it wrote.
CloseSocket(h, d) ==
    LET out == <<h, d>>
        in == <<h, Flip(d)>>
    IN  /\ deaf' = [deaf EXCEPT ![in] = TRUE]
        /\ \E how \in {"end", "reset"}, mine \in Prefixes(q[out]), theirs \in Prefixes(q[in]) :
             /\ how = "reset" => h # "unix" /\ q[in] # <<>>
             /\ how = "end" => mine = q[out]
             /\ q' = [q EXCEPT ![out] = mine, ![in] = theirs]
             /\ fin' = [fin EXCEPT ![out] = IF @ = "open" \/ how = "reset" THEN how ELSE @]

-----------------------------------------------------------------------------
(* The ends: "up" is sent by the command, "down" by the target.            *)

Entry(d) == <<IF d = "up" THEN "client" ELSE "target", d>>
Outlet(d) == <<IF d = "up" THEN "target" ELSE "client", d>>

Send(d) ==
    /\ d \notin quit /\ sent[d] < MaxBytes
    /\ Len(q[Entry(d)]) < Capacity \/ deaf[Entry(d)]
    /\ sent' = [sent EXCEPT ![d] = @ + 1]
    /\ q' = IF deaf[Entry(d)] THEN q ELSE [q EXCEPT ![Entry(d)] = Append(@, sent[d] + 1)]
    /\ UNCHANGED <<fin, deaf, relay, closed, got, ended, quit, gone>>

\* shutdown(SHUT_WR): the sender goes on receiving.
Shutdown(d) ==
    /\ d \notin quit
    /\ quit' = quit \cup {d}
    /\ fin' = [fin EXCEPT ![Entry(d)] = "end"]
    /\ UNCHANGED <<q, deaf, relay, closed, sent, got, ended, gone>>

Receive(d) ==
    /\ Flip(d) \notin gone /\ ended[d] = "no" /\ q[Outlet(d)] # <<>>
    /\ got' = [got EXCEPT ![d] = IF Head(q[Outlet(d)]) = got[d] + 1 THEN @ + 1 ELSE MaxBytes + 1]
    /\ q' = [q EXCEPT ![Outlet(d)] = Tail(@)]
    /\ UNCHANGED <<fin, deaf, relay, closed, sent, ended, quit, gone>>

ReceiveEnd(d) ==
    /\ Flip(d) \notin gone /\ ended[d] = "no" /\ q[Outlet(d)] = <<>> /\ fin[Outlet(d)] # "open"
    /\ ended' = [ended EXCEPT ![d] = fin[Outlet(d)]]
    /\ UNCHANGED <<q, fin, deaf, relay, closed, sent, got, quit, gone>>

\* The end that sends in direction d closes its socket, or its process ends.
Gone(d) ==
    /\ d \notin gone
    /\ gone' = gone \cup {d} /\ quit' = quit \cup {d}
    /\ CloseSocket(Entry(d)[1], d)
    /\ UNCHANGED <<relay, closed, sent, got, ended>>

-----------------------------------------------------------------------------
(* The relays.                                                             *)

Done(r, d) == relay' = [relay EXCEPT ![r][d] = "done"]

\* Mutant: what was read stays in the buffer and is sent once more.
ForwardTwice(r, d) ==
    /\ relay[r][d] = "on" /\ q[Src(r, d)] # <<>>
    /\ ~deaf[Dst(r, d)] /\ fin[Dst(r, d)] = "open" /\ Len(q[Dst(r, d)]) < Capacity
    /\ \E rest \in {q[Src(r, d)], Tail(q[Src(r, d)])} :
         q' = [q EXCEPT ![Src(r, d)] = rest, ![Dst(r, d)] = Append(@, Head(q[Src(r, d)]))]
    /\ UNCHANGED <<fin, deaf, relay, closed, sent, got, ended, quit, gone>>

\* recv and sendall, read and write.
Forward(r, d) ==
    /\ relay[r][d] = "on" /\ q[Src(r, d)] # <<>>
    /\ ~deaf[Dst(r, d)] /\ fin[Dst(r, d)] = "open" /\ Len(q[Dst(r, d)]) < Capacity
    /\ q' = [q EXCEPT ![Src(r, d)] = Tail(@), ![Dst(r, d)] = Append(@, Head(q[Src(r, d)]))]
    /\ UNCHANGED <<fin, deaf, relay, closed, sent, got, ended, quit, gone>>

\* There is nothing to read and never will be; for the proxy, whose other pipe
\* may have closed the transport, also where its own end is the closed one.
AtEnd(r, d) ==
    relay[r][d] = "on" /\ q[Src(r, d)] = <<>> /\ (fin[Src(r, d)] # "open" \/ deaf[Src(r, d)])

\* A byte is read that nobody takes. It is lost like those behind it, and is
\* left in its line with them.
Breaks(r, d) ==
    relay[r][d] = "on" /\ q[Src(r, d)] # <<>> /\ (deaf[Dst(r, d)] \/ fin[Dst(r, d)] # "open")

\* Mutant: the other side is not told of the end.
BridgeEndsSilently(d) ==
    /\ AtEnd("bridge", d) \/ Breaks("bridge", d)
    /\ Done("bridge", d)
    /\ UNCHANGED <<q, fin, deaf, closed, sent, got, ended, quit, gone>>

\* The finally clause of relay: dst.shutdown(SHUT_WR).
BridgeEnds(d) ==
    /\ AtEnd("bridge", d) \/ Breaks("bridge", d)
    /\ Done("bridge", d)
    /\ fin' = [fin EXCEPT ![Dst("bridge", d)] = IF @ = "open" THEN "end" ELSE @]
    /\ UNCHANGED <<q, deaf, closed, sent, got, ended, quit, gone>>

\* Mutant: only one thread is joined.
HandleEndsEarly ==
    /\ ~closed /\ relay["bridge"]["up"] = "done"
    /\ closed' = TRUE
    /\ CloseSocket("client", "down")
    /\ UNCHANGED <<relay, sent, got, ended, quit, gone>>

\* Both threads have been joined: client.close().
HandleEnds ==
    /\ ~closed /\ \A d \in Directions : relay["bridge"][d] = "done"
    /\ closed' = TRUE
    /\ CloseSocket("client", "down")
    /\ UNCHANGED <<relay, sent, got, ended, quit, gone>>

\* The other socket is closed by the collector, once the frame of handle is gone.
FrameGoes ==
    /\ closed /\ ~deaf[<<"unix", "down">>]
    /\ CloseSocket("unix", "up")
    /\ UNCHANGED <<relay, closed, sent, got, ended, quit, gone>>

\* Mutant: a pipe that breaks leaves its destination open.
PipeEndsOpen(d) ==
    /\ AtEnd("proxy", d) \/ Breaks("proxy", d)
    /\ Done("proxy", d)
    /\ UNCHANGED <<q, fin, deaf, closed, sent, got, ended, quit, gone>>

\* The finally clause of pipe: dst is closed, both ways, once it is flushed.
PipeEnds(d) ==
    /\ AtEnd("proxy", d) \/ Breaks("proxy", d)
    /\ Done("proxy", d)
    /\ CloseSocket(Dst("proxy", d)[1], d)
    /\ UNCHANGED <<closed, sent, got, ended, quit, gone>>

Relaying(d) == Forward("bridge", d) \/ Forward("proxy", d) \/ BridgeEnds(d) \/ PipeEnds(d)

Next ==
    \/ HandleEnds \/ FrameGoes
    \/ \E d \in Directions :
         \/ Relaying(d)
         \/ Send(d) \/ Shutdown(d) \/ Receive(d) \/ ReceiveEnd(d) \/ Gone(d)

\* Threads and tasks run, and both ends read what there is for them.
Fairness ==
    /\ WF_vars(HandleEnds \/ FrameGoes)
    /\ \A d \in Directions :
         WF_vars(Relaying(d)) /\ WF_vars(Receive(d) \/ ReceiveEnd(d))

Spec == Init /\ [][Next]_vars /\ Fairness

-----------------------------------------------------------------------------
(* Properties.                                                             *)

\* The types; no line holds more than it may, whoever has stopped reading.
TypeOK ==
    /\ q \in [Lines -> Seq(1..MaxBytes)] /\ \A l \in Lines : Len(q[l]) <= Capacity
    /\ fin \in [Lines -> {"open", "end", "reset"}] /\ deaf \in [Lines -> BOOLEAN]
    /\ relay \in [Relays -> [Directions -> {"on", "done"}]]
    /\ closed \in BOOLEAN
    /\ sent \in [Directions -> 0..MaxBytes]
    /\ ended \in [Directions -> {"no", "end", "reset"}]
    /\ quit \subseteq Directions /\ gone \subseteq quit

\* The chain of sockets, threads and pipes is the pair of streams of Streams:
\* nothing is reordered, invented, repeated or delivered after the end.
S == INSTANCE Streams WITH ended <- [d \in Directions |-> ended[d] # "no"]
TunnelIsStreams == S!Spec

\* Whoever reads an end, and no error, has the whole of what the other side sent,
\* unless it had ended its own direction, or the sender has gone and left
\* unread something that it was sent. So a command that half-closes may lose its
\* answer, but its request arrives whole.
NoSilentTruncation ==
    \A d \in Directions :
      ended[d] = "end" /\ got[d] < sent[d] =>
        Flip(d) \in quit \/ (d \in gone /\ got[Flip(d)] < sent[Flip(d)])

\* As long as neither end goes away, the command keeps its direction open, and
\* the target ends its own with nothing of the command's still unread, all that
\* the target sent arrives, and then the end.
ResponseArrives ==
    []/\ gone = {} /\ "up" \notin quit
      /\ "down" \in quit => got["up"] = sent["up"]
    => ("down" \in quit ~> (got["down"] = sent["down"] /\ ended["down"] = "end"))

\* Each relay has given up reading the Unix socket, which is full both ways, and
\* waits for the other one to read.
Jammed ==
    /\ relay["bridge"] = [d \in Directions |-> IF d = "up" THEN "on" ELSE "done"]
    /\ relay["proxy"] = [d \in Directions |-> IF d = "up" THEN "done" ELSE "on"]
    /\ \A d \in Directions : Len(q[<<"unix", d>>]) = Capacity

\* Once both ends are gone, every thread and pipe ends and the bridge has closed
\* the connection, so that no thread is left behind in the sandbox; except where
\* the two relays wait for each other.
TunnelEnds ==
    gone = Directions ~>
      \/ closed /\ \A r \in Relays, d \in Directions : relay[r][d] = "done"
      \/ Jammed
=============================================================================
