---------------------------- MODULE BridgeProofs ----------------------------
(* Proofs about Tunnel and Bridge, for streams of any length and sockets of *)
(* any capacity.                                                           *)
EXTENDS Bridge, SequenceTheorems, TLAPS

-----------------------------------------------------------------------------
(* The lines of a direction.                                               *)

Middle(d) == <<"unix", d>>
LinesOf(d) == {Entry(d), Middle(d), Outlet(d)}

\* Each direction has three lines of its own.
LEMMA Lanes ==
    ASSUME NEW d \in Directions
    PROVE  /\ LinesOf(d) \subseteq Lines /\ Flip(d) \in Directions /\ Flip(d) # d
           /\ Entry(d) # Middle(d) /\ Entry(d) # Outlet(d) /\ Middle(d) # Outlet(d)
           /\ \A l \in LinesOf(d) : l[2] = d
           /\ Entry(d)[1] \in Hops /\ Entry(d) = <<Entry(d)[1], d>>
BY DEF LinesOf, Entry, Middle, Outlet, Lines, Hops, Directions, Flip

\* A relay takes from one of them and adds to the next.
LEMMA Route ==
    ASSUME NEW d \in Directions, NEW r \in Relays
    PROVE  /\ \/ Src(r, d) = Entry(d) /\ Dst(r, d) = Middle(d)
              \/ Src(r, d) = Middle(d) /\ Dst(r, d) = Outlet(d)
           /\ Dst(r, d)[1] \in Hops /\ Dst(r, d) = <<Dst(r, d)[1], d>>
BY DEF Entry, Middle, Outlet, Directions, Flip, Src, Dst, Relays, Hops

\* A prefix is a sequence that agrees with the whole.
LEMMA PrefixOf ==
    ASSUME NEW Vals, NEW s \in Seq(Vals), NEW p \in Prefixes(s)
    PROVE  p \in Seq(Vals) /\ Len(p) \in 0..Len(s) /\ \A i \in 1..Len(p) : p[i] = s[i]
<1>1. PICK n \in 0..Len(s) : p = SubSeq(s, 1, n)
  BY DEF Prefixes
<1>2. Len(s) \in Nat /\ \A i \in 1..n : s[i] \in Vals
  BY ElementOfSeq
<1>3. /\ p \in Seq(Vals)
      /\ Len(p) = IF 1 <= n THEN n - 1 + 1 ELSE 0
      /\ \A i \in 1..n - 1 + 1 : p[i] = s[1 + i - 1]
  BY <1>1, <1>2, SubSeqProperties
<1>4. Len(p) = n
  BY <1>2, <1>3
<1>5. \A i \in 1..n : i \in 1..n - 1 + 1 /\ 1 + i - 1 = i
  BY <1>2
<1> QED
  BY <1>3, <1>4, <1>5

-----------------------------------------------------------------------------
(***************************************************************************)
(* The inductive invariant. A line is live until its writer ends it or its *)
(* reader is gone, and nothing is added to it later. What is on the last   *)
(* line are the bytes due next; as long as that one is live, those on the  *)
(* line before it are due after them, and so on to the sender. Of a line   *)
(* behind a dead one no byte can be delivered any more.                    *)
(***************************************************************************)
Live(l) == ~deaf[l] /\ fin[l] = "open"

Run(s, n) == \A i \in 1..Len(s) : s[i] = n + i

InOrder(d) ==
    /\ Run(q[Outlet(d)], got[d])
    /\ Live(Outlet(d)) => Run(q[Middle(d)], got[d] + Len(q[Outlet(d)]))
    /\ Live(Outlet(d)) /\ Live(Middle(d)) =>
         Run(q[Entry(d)], got[d] + Len(q[Outlet(d)]) + Len(q[Middle(d)]))
    /\ Live(Outlet(d)) /\ Live(Middle(d)) /\ Live(Entry(d)) =>
         sent[d] = got[d] + Len(q[Outlet(d)]) + Len(q[Middle(d)]) + Len(q[Entry(d)])

Bounded(d) ==
    /\ got[d] \in 0..sent[d]
    /\ \A l \in LinesOf(d) : \A i \in 1..Len(q[l]) : q[l][i] <= sent[d]
    /\ d \notin quit => fin[Entry(d)] = "open"

TInv ==
    /\ TypeOK
    /\ got \in [Directions -> Nat]
    /\ \A d \in Directions : InOrder(d) /\ Bounded(d)

LEMMA TInit == Init => TInv
<1> SUFFICES ASSUME Init PROVE TInv
  OBVIOUS
<1>1. TypeOK
  <2>1. <<>> \in Seq(1..MaxBytes) /\ Len(<<>>) = 0
    BY EmptySeq
  <2>2. q \in [Lines -> Seq(1..MaxBytes)] /\ \A l \in Lines : Len(q[l]) <= Capacity
    BY <2>1, BoundsAssumption DEF Init
  <2>3. relay \in [Relays -> [Directions -> {"on", "done"}]]
    BY DEF Init
  <2>4. sent \in [Directions -> 0..MaxBytes]
    BY BoundsAssumption DEF Init
  <2> QED
    BY <2>2, <2>3, <2>4 DEF Init, TypeOK
<1>2. got \in [Directions -> Nat]
  BY DEF Init
<1>3. ASSUME NEW d \in Directions PROVE InOrder(d) /\ Bounded(d)
  <2>1. \A l \in LinesOf(d) : q[l] = <<>> /\ fin[l] = "open" /\ ~deaf[l]
    BY Lanes DEF Init
  <2>2. got[d] = 0 /\ sent[d] = 0 /\ Len(<<>>) = 0
    BY DEF Init
  <2>3. \A n : Run(<<>>, n)
    BY <2>2 DEF Run
  <2>5. q[Entry(d)] = <<>> /\ q[Middle(d)] = <<>> /\ q[Outlet(d)] = <<>>
    BY <2>1 DEF LinesOf
  <2>4. InOrder(d)
    BY <2>2, <2>3, <2>5 DEF InOrder
  <2> QED
    BY <2>1, <2>2, <2>4 DEF Bounded, LinesOf
<1> QED
  BY <1>1, <1>2, <1>3 DEF TInv

-----------------------------------------------------------------------------
(* Steps that end, cut short or close lines.                               *)

\* No byte is added, and a line that stays live keeps what it has.
Wanes ==
    /\ q' \in [Lines -> Seq(1..MaxBytes)]
    /\ \A l \in Lines :
         /\ Len(q'[l]) <= Len(q[l]) /\ \A i \in 1..Len(q'[l]) : q'[l][i] = q[l][i]
         /\ Live(l)' => Live(l) /\ q'[l] = q[l]
    /\ fin' \in [Lines -> {"open", "end", "reset"}] /\ deaf' \in [Lines -> BOOLEAN]
    /\ \A d \in Directions : d \notin quit' => d \notin quit /\ fin'[Entry(d)] = fin[Entry(d)]
    /\ UNCHANGED <<sent, got>>

LEMMA WanesKeeps ==
    ASSUME TInv, Wanes, TypeOK'
    PROVE  TInv'
<1> SUFFICES ASSUME NEW d \in Directions PROVE InOrder(d)' /\ Bounded(d)'
  BY DEF TInv, Wanes
<1> DEFINE a == Entry(d)
           b == Middle(d)
           c == Outlet(d)
<1>1. {a, b, c} \subseteq Lines /\ LinesOf(d) = {a, b, c}
  BY Lanes DEF LinesOf
<1>2. InOrder(d) /\ Bounded(d) /\ \A l \in {a, b, c} : Len(q[l]) \in Nat /\ Len(q'[l]) \in Nat
  BY <1>1 DEF TInv, TypeOK, Wanes
<1> HIDE DEF a, b, c
<1>3. ASSUME NEW l \in {a, b, c}, NEW n, Run(q[l], n) PROVE Run(q'[l], n)
  BY <1>1, <1>2, <1>3 DEF Wanes, Run
<1>4. InOrder(d)'
  <2>1. UNCHANGED <<got, sent>> /\ \A l \in {a, b, c} : Live(l)' => Live(l) /\ q'[l] = q[l]
    BY <1>1 DEF Wanes
  <2> QED
    BY <1>2, <1>3, <2>1 DEF InOrder, a, b, c
<1>5. Bounded(d)'
  BY <1>1, <1>2 DEF Bounded, Wanes
<1> QED
  BY <1>4, <1>5

\* Closing a socket is such a step, for the lines of its hop.
LEMMA Closing ==
    ASSUME TypeOK, NEW h \in Hops, NEW d \in Directions, CloseSocket(h, d),
           UNCHANGED <<sent, got>>, quit \subseteq quit',
           \A e \in Directions : <<h, d>> = Entry(e) => e \in quit'
    PROVE  Wanes
<1> DEFINE out == <<h, d>>
           in == <<h, Flip(d)>>
<1>1. out \in Lines /\ in \in Lines /\ out # in
  BY DEF Lines, Directions, Flip
<1>2. PICK how \in {"end", "reset"}, mine \in Prefixes(q[out]), theirs \in Prefixes(q[in]) :
        /\ q' = [q EXCEPT ![out] = mine, ![in] = theirs]
        /\ fin' = [fin EXCEPT ![out] = IF fin[out] = "open" \/ how = "reset" THEN how ELSE fin[out]]
        /\ deaf' = [deaf EXCEPT ![in] = TRUE]
  BY DEF CloseSocket
<1> HIDE DEF out, in
<1>3. ASSUME NEW l \in Lines, NEW p \in Prefixes(q[l])
      PROVE  p \in Seq(1..MaxBytes) /\ Len(p) <= Len(q[l]) /\ \A i \in 1..Len(p) : p[i] = q[l][i]
  BY PrefixOf DEF TypeOK
<1>4. /\ mine \in Seq(1..MaxBytes) /\ Len(mine) <= Len(q[out]) /\ \A i \in 1..Len(mine) : mine[i] = q[out][i]
      /\ theirs \in Seq(1..MaxBytes) /\ Len(theirs) <= Len(q[in]) /\ \A i \in 1..Len(theirs) : theirs[i] = q[in][i]
  BY <1>1, <1>3
<1>5. /\ q' \in [Lines -> Seq(1..MaxBytes)] /\ q'[out] = mine /\ q'[in] = theirs
      /\ \A l \in Lines : l \notin {out, in} => q'[l] = q[l]
  BY <1>1, <1>2, <1>4 DEF TypeOK
<1>6. /\ fin' \in [Lines -> {"open", "end", "reset"}] /\ fin'[out] # "open"
      /\ \A l \in Lines : l # out => fin'[l] = fin[l]
  BY <1>1, <1>2 DEF TypeOK
<1>7. /\ deaf' \in [Lines -> BOOLEAN] /\ deaf'[in]
      /\ \A l \in Lines : l # in => deaf'[l] = deaf[l]
  BY <1>1, <1>2 DEF TypeOK
<1>8. ASSUME NEW l \in Lines
      PROVE  /\ Len(q'[l]) <= Len(q[l]) /\ \A i \in 1..Len(q'[l]) : q'[l][i] = q[l][i]
             /\ Live(l)' => Live(l) /\ q'[l] = q[l]
  <2>1. Len(q[l]) \in Nat
    BY DEF TypeOK
  <2>2. CASE l \in {out, in}
    BY <1>4, <1>5, <1>6, <1>7, <2>2 DEF Live
  <2>3. CASE l \notin {out, in}
    BY <1>5, <1>6, <1>7, <2>1, <2>3 DEF Live
  <2> QED
    BY <2>2, <2>3
<1>9. ASSUME NEW e \in Directions, e \notin quit' PROVE fin'[Entry(e)] = fin[Entry(e)]
  <2>1. Entry(e) # out /\ Entry(e) \in Lines
    BY <1>9, Lanes DEF out, LinesOf
  <2> QED
    BY <1>6, <2>1
<1> QED
  BY <1>5, <1>6, <1>7, <1>8, <1>9 DEF Wanes

LEMMA WanesType ==
    ASSUME TypeOK, Wanes,
           relay' \in [Relays -> [Directions -> {"on", "done"}]], closed' \in BOOLEAN,
           ended' \in [Directions -> {"no", "end", "reset"}], quit' \subseteq Directions, gone' \subseteq quit'
    PROVE  TypeOK'
<1>1. \A l \in Lines : Len(q'[l]) \in Nat /\ Len(q[l]) \in Nat
  BY DEF TypeOK, Wanes
<1>2. \A l \in Lines : Len(q'[l]) <= Capacity
  BY <1>1, BoundsAssumption DEF TypeOK, Wanes
<1> QED
  BY <1>2 DEF TypeOK, Wanes

\* The steps that touch no queue but by closing a socket.
LEMMA ClosingSteps ==
    ASSUME TypeOK,
           \/ HandleEnds \/ FrameGoes
           \/ \E d \in Directions : Gone(d) \/ PipeEnds(d)
    PROVE  Wanes /\ TypeOK'
<1> DEFINE Closes(h, d) ==
        /\ CloseSocket(h, d) /\ UNCHANGED <<sent, got, ended>>
        /\ quit' \in {quit, quit \cup {d}} /\ gone' \in {gone, gone \cup {d}} /\ gone' \subseteq quit'
        /\ <<h, d>> = Entry(d) => d \in quit'
        /\ closed' \in BOOLEAN /\ relay' \in [Relays -> [Directions -> {"on", "done"}]]
<1>1. PICK h \in Hops, d \in Directions : Closes(h, d)
  <2>1. ASSUME HandleEnds PROVE Closes("client", "down") /\ "client" \in Hops /\ "down" \in Directions
    <3>1. "client" \in Hops /\ "down" \in Directions /\ <<"client", "down">> # Entry("down")
      BY DEF Hops, Directions, Entry
    <3> QED
      BY <2>1, <3>1 DEF HandleEnds, TypeOK
  <2>2. ASSUME FrameGoes PROVE Closes("unix", "up") /\ "unix" \in Hops /\ "up" \in Directions
    <3>1. "unix" \in Hops /\ "up" \in Directions /\ <<"unix", "up">> # Entry("up")
      BY DEF Hops, Directions, Entry
    <3> QED
      BY <2>2, <3>1 DEF FrameGoes, TypeOK
  <2>3. ASSUME NEW d \in Directions, Gone(d) PROVE Closes(Entry(d)[1], d)
    <3>1. Entry(d)[1] \in Hops
      BY Lanes
    <3>2. /\ CloseSocket(Entry(d)[1], d) /\ UNCHANGED <<relay, closed, sent, got, ended>>
          /\ quit' = quit \cup {d} /\ gone' = gone \cup {d}
      BY <2>3 DEF Gone
    <3> QED
      BY <3>1, <3>2 DEF TypeOK
  <2>4. ASSUME NEW d \in Directions, PipeEnds(d) PROVE Closes(Dst("proxy", d)[1], d)
    <3>1. /\ Dst("proxy", d)[1] \in Hops /\ Dst("proxy", d) \in {Middle(d), Outlet(d)}
          /\ <<Dst("proxy", d)[1], d>> = Dst("proxy", d)
      BY Route DEF Relays
    <3>2. <<Dst("proxy", d)[1], d>> # Entry(d)
      BY <3>1, Lanes
    <3>3. /\ CloseSocket(Dst("proxy", d)[1], d) /\ UNCHANGED <<closed, sent, got, ended, quit, gone>>
          /\ relay' = [relay EXCEPT !["proxy"][d] = "done"]
      BY <2>4 DEF PipeEnds, Done
    <3>4. relay' \in [Relays -> [Directions -> {"on", "done"}]]
      BY <3>3 DEF TypeOK, Relays
    <3> QED
      BY <3>1, <3>2, <3>3, <3>4 DEF TypeOK
  <2>5. ASSUME NEW d \in Directions
        PROVE  Entry(d)[1] \in Hops /\ Dst("proxy", d)[1] \in Hops
    BY Lanes, Route DEF Relays
  <2> HIDE DEF Closes
  <2> QED
    BY <2>1, <2>2, <2>3, <2>4, <2>5
<1>2. \A e \in Directions : <<h, d>> = Entry(e) => e \in quit'
  BY <1>1, Lanes
<1>3. Wanes
  BY <1>1, <1>2, Closing
<1> QED
  BY <1>1, <1>3, WanesType DEF TypeOK

\* The steps that end a line, or see its end.
LEMMA EndingSteps ==
    ASSUME TypeOK, NEW d \in Directions, Shutdown(d) \/ ReceiveEnd(d) \/ BridgeEnds(d)
    PROVE  Wanes /\ TypeOK'
<1>1. UNCHANGED <<q, deaf, closed, sent, got, gone>>
  BY DEF Shutdown, ReceiveEnd, BridgeEnds
<1>2. PICK l \in LinesOf(d) :
        /\ fin' = fin \/ fin' = [fin EXCEPT ![l] = "end"]
        /\ l = Entry(d) => d \in quit' \/ fin' = fin
        /\ quit' \in {quit, quit \cup {d}}
  <2>1. CASE Shutdown(d)
    BY <2>1 DEF Shutdown, LinesOf
  <2>2. CASE ReceiveEnd(d)
    BY <2>2 DEF ReceiveEnd, LinesOf
  <2>3. CASE BridgeEnds(d)
    <3>1. Dst("bridge", d) \in LinesOf(d) /\ Dst("bridge", d) # Entry(d) /\ Dst("bridge", d) \in Lines
      BY Route, Lanes DEF LinesOf, Relays
    <3>2. fin' = [fin EXCEPT ![Dst("bridge", d)] = IF fin[Dst("bridge", d)] = "open" THEN "end" ELSE fin[Dst("bridge", d)]]
      BY <2>3 DEF BridgeEnds
    <3>3. fin' = fin \/ fin' = [fin EXCEPT ![Dst("bridge", d)] = "end"]
      BY <3>1, <3>2 DEF TypeOK
    <3> QED
      BY <2>3, <3>1, <3>3 DEF BridgeEnds
  <2> QED
    BY <2>1, <2>2, <2>3
<1>3. l \in Lines
  BY Lanes
<1>4. /\ fin' \in [Lines -> {"open", "end", "reset"}]
      /\ \A x \in Lines : fin'[x] = fin[x] \/ (fin'[x] # "open" /\ x = l /\ fin' # fin)
  <2>1. CASE fin' = fin
    BY <2>1 DEF TypeOK
  <2>2. CASE fin' = [fin EXCEPT ![l] = "end"]
    BY <1>3, <2>2 DEF TypeOK
  <2> QED
    BY <1>2, <2>1, <2>2
<1>5. ASSUME NEW e \in Directions, e \notin quit' PROVE fin'[Entry(e)] = fin[Entry(e)]
  <2>1. Entry(e) \in Lines /\ (Entry(e) = l => e = d)
    BY Lanes DEF LinesOf
  <2> QED
    BY <1>2, <1>4, <1>5, <2>1
<1>6. Wanes
  <2>1. \A x \in Lines : Live(x)' => Live(x)
    BY <1>1, <1>4 DEF Live
  <2>2. \A x \in Lines : Len(q[x]) \in Nat
    BY DEF TypeOK
  <2> QED
    BY <1>1, <1>2, <1>4, <1>5, <2>1, <2>2 DEF Wanes, TypeOK
<1>7. relay' \in [Relays -> [Directions -> {"on", "done"}]]
  BY DEF TypeOK, Shutdown, ReceiveEnd, BridgeEnds, Done, Relays
<1>8. ended' \in [Directions -> {"no", "end", "reset"}]
  <2>1. CASE ReceiveEnd(d)
    <3>1. Outlet(d) \in Lines
      BY Lanes DEF LinesOf
    <3>2. fin[Outlet(d)] \in {"end", "reset"}
      BY <2>1, <3>1 DEF TypeOK, ReceiveEnd
    <3> QED
      BY <2>1, <3>2 DEF TypeOK, ReceiveEnd
  <2>2. CASE ~ReceiveEnd(d)
    BY <2>2 DEF TypeOK, Shutdown, BridgeEnds
  <2> QED
    BY <2>1, <2>2
<1> QED
  BY <1>1, <1>2, <1>6, <1>7, <1>8, WanesType DEF TypeOK

-----------------------------------------------------------------------------
(* Steps that move a byte.                                                 *)

\* A run of consecutive numbers goes on with its next, or without its first.
LEMMA RunAppend ==
    ASSUME NEW Vals \in SUBSET Nat, NEW s \in Seq(Vals), NEW n \in Nat, NEW x \in Vals,
           Run(s, n), x = n + Len(s) + 1
    PROVE  /\ Run(Append(s, x), n) /\ Append(s, x) \in Seq(Vals)
           /\ Len(Append(s, x)) = Len(s) + 1
<1>1. /\ Append(s, x) \in Seq(Vals) /\ Len(Append(s, x)) = Len(s) + 1 /\ Len(s) \in Nat
      /\ \A i \in 1..Len(s) : Append(s, x)[i] = s[i]
      /\ Append(s, x)[Len(s) + 1] = x
  BY AppendProperties
<1>2. ASSUME NEW i \in 1..Len(s) + 1 PROVE Append(s, x)[i] = n + i
  <2>1. CASE i \in 1..Len(s)
    BY <1>1, <2>1 DEF Run
  <2>2. CASE i = Len(s) + 1
    BY <1>1, <2>2
  <2> QED
    BY <1>1, <2>1, <2>2
<1> QED
  BY <1>1, <1>2 DEF Run

LEMMA RunTail ==
    ASSUME NEW Vals \in SUBSET Nat, NEW s \in Seq(Vals), NEW n \in Nat, Run(s, n), s # <<>>
    PROVE  /\ Head(s) = n + 1 /\ Run(Tail(s), n + 1)
           /\ Tail(s) \in Seq(Vals) /\ Len(Tail(s)) = Len(s) - 1
<1>1. /\ Tail(s) \in Seq(Vals) /\ Len(Tail(s)) = Len(s) - 1
      /\ \A i \in 1..Len(Tail(s)) : Tail(s)[i] = s[i + 1]
  BY HeadTailProperties
<1>2. Len(s) \in Nat /\ Len(s) > 0 /\ Head(s) = s[1]
  BY EmptySeq
<1>3. ASSUME NEW i \in 1..Len(Tail(s)) PROVE Tail(s)[i] = n + 1 + i
  <2>1. i + 1 \in 1..Len(s) /\ Tail(s)[i] = s[i + 1]
    BY <1>1, <1>2
  <2>2. s[i + 1] = n + (i + 1)
    BY <2>1 DEF Run
  <2> QED
    BY <2>1, <2>2
<1> QED
  BY <1>1, <1>2, <1>3 DEF Run

\* What is on the lines of the other direction is not touched.
LEMMA Elsewhere ==
    ASSUME TInv, NEW d \in Directions, NEW e \in Directions, e # d,
           UNCHANGED <<fin, deaf, quit>>, got'[e] = got[e], sent'[e] = sent[e],
           \A l \in Lines : l \notin LinesOf(d) => q'[l] = q[l]
    PROVE  InOrder(e)' /\ Bounded(e)'
<1>1. \A l \in LinesOf(e) : l \in Lines /\ l \notin LinesOf(d)
  BY Lanes
<1>2. \A l \in LinesOf(e) : q'[l] = q[l]
  BY <1>1
<1>3. q'[Entry(e)] = q[Entry(e)] /\ q'[Middle(e)] = q[Middle(e)] /\ q'[Outlet(e)] = q[Outlet(e)]
  BY <1>2 DEF LinesOf
<1>4. InOrder(e) /\ Bounded(e)
  BY DEF TInv
<1>5. InOrder(e)'
  BY <1>3, <1>4 DEF InOrder, Live
<1>6. Bounded(e)'
  BY <1>2, <1>4 DEF Bounded
<1> QED
  BY <1>5, <1>6

\* A bound on the elements is kept by both.
LEMMA AtMost ==
    ASSUME NEW Vals \in SUBSET Nat, NEW s \in Seq(Vals), NEW m \in Nat, \A i \in 1..Len(s) : s[i] <= m
    PROVE  /\ s # <<>> => Head(s) \in Vals /\ Head(s) <= m /\ \A i \in 1..Len(Tail(s)) : Tail(s)[i] <= m
           /\ \A x \in Vals : x <= m => \A i \in 1..Len(Append(s, x)) : Append(s, x)[i] <= m
<1>1. ASSUME s # <<>>
      PROVE  Head(s) \in Vals /\ Head(s) <= m /\ \A i \in 1..Len(Tail(s)) : Tail(s)[i] <= m
  <2>1. /\ Head(s) \in Vals /\ Len(Tail(s)) = Len(s) - 1
        /\ \A i \in 1..Len(Tail(s)) : Tail(s)[i] = s[i + 1]
    BY <1>1, HeadTailProperties
  <2>2. Len(s) \in Nat /\ Len(s) > 0 /\ Head(s) = s[1]
    BY <1>1, EmptySeq
  <2>3. \A i \in 1..Len(Tail(s)) : i + 1 \in 1..Len(s)
    BY <2>1, <2>2
  <2> QED
    BY <2>1, <2>2, <2>3
<1>2. ASSUME NEW x \in Vals, x <= m, NEW i \in 1..Len(Append(s, x)) PROVE Append(s, x)[i] <= m
  <2>1. /\ Len(Append(s, x)) = Len(s) + 1 /\ Len(s) \in Nat
        /\ \A j \in 1..Len(s) : Append(s, x)[j] = s[j]
        /\ Append(s, x)[Len(s) + 1] = x
    BY AppendProperties
  <2>2. i \in 1..Len(s) \/ i = Len(s) + 1
    BY <1>2, <2>1
  <2> QED
    BY <1>2, <2>1, <2>2
<1> QED
  BY <1>1, <1>2

\* A relay reads a byte and writes it.
LEMMA ForwardKeeps ==
    ASSUME TInv, NEW r \in Relays, NEW d \in Directions, Forward(r, d)
    PROVE  TInv'
<1> DEFINE a == Entry(d)
           b == Middle(d)
           c == Outlet(d)
           src == Src(r, d)
           dst == Dst(r, d)
           x == Head(q[src])
<1>1. /\ {a, b, c} \subseteq Lines /\ LinesOf(d) = {a, b, c} /\ a # b /\ a # c /\ b # c
      /\ (src = a /\ dst = b) \/ (src = b /\ dst = c)
  BY Lanes, Route DEF LinesOf
<1>2. /\ q[src] # <<>> /\ Live(dst) /\ Len(q[dst]) < Capacity
      /\ q' = [q EXCEPT ![src] = Tail(q[src]), ![dst] = Append(q[dst], x)]
      /\ UNCHANGED <<fin, deaf, relay, closed, sent, got, ended, quit, gone>>
  BY DEF Forward, Live
<1> HIDE DEF a, b, c, src, dst, x
<1>3. /\ \A l \in Lines : q[l] \in Seq(1..MaxBytes) /\ Len(q[l]) \in Nat
      /\ (1..MaxBytes) \in SUBSET Nat /\ got[d] \in Nat /\ sent[d] \in Nat
      /\ src \in Lines /\ dst \in Lines /\ src # dst
      /\ InOrder(d) /\ Bounded(d)
  BY <1>1, BoundsAssumption DEF TInv, TypeOK
<1>4. /\ x \in 1..MaxBytes /\ x <= sent[d]
      /\ \A i \in 1..Len(Tail(q[src])) : Tail(q[src])[i] <= sent[d]
      /\ \A i \in 1..Len(Append(q[dst], x)) : Append(q[dst], x)[i] <= sent[d]
  <2>1. \A l \in {src, dst} : l \in LinesOf(d) /\ \A i \in 1..Len(q[l]) : q[l][i] <= sent[d]
    BY <1>1, <1>3 DEF Bounded
  <2>2. x \in 1..MaxBytes /\ x <= sent[d] /\ \A i \in 1..Len(Tail(q[src])) : Tail(q[src])[i] <= sent[d]
    BY <1>2, <1>3, <2>1, AtMost DEF x
  <2> QED
    BY <1>3, <2>1, <2>2, AtMost
<1>5. /\ Tail(q[src]) \in Seq(1..MaxBytes) /\ Len(Tail(q[src])) = Len(q[src]) - 1 /\ Len(q[src]) > 0
      /\ Append(q[dst], x) \in Seq(1..MaxBytes) /\ Len(Append(q[dst], x)) = Len(q[dst]) + 1
  <2>1. Tail(q[src]) \in Seq(1..MaxBytes) /\ Len(Tail(q[src])) = Len(q[src]) - 1
    BY <1>2, <1>3, HeadTailProperties
  <2>2. Len(q[src]) > 0
    BY <1>2, <1>3, EmptySeq
  <2>3. Append(q[dst], x) \in Seq(1..MaxBytes) /\ Len(Append(q[dst], x)) = Len(q[dst]) + 1
    BY <1>3, <1>4, AppendProperties
  <2> QED
    BY <2>1, <2>2, <2>3
<1>6. /\ q'[src] = Tail(q[src]) /\ q'[dst] = Append(q[dst], x)
      /\ \A l \in Lines : l # src /\ l # dst => q'[l] = q[l]
      /\ q' \in [Lines -> Seq(1..MaxBytes)]
  BY <1>2, <1>3, <1>5 DEF TInv, TypeOK
<1>7. TypeOK'
  <2>1. Len(q'[src]) <= Capacity /\ Len(q'[dst]) <= Capacity
    <3>1. Len(q[src]) \in Nat /\ Len(q[dst]) \in Nat /\ Len(q[src]) <= Capacity /\ Capacity \in Nat
      BY <1>3, BoundsAssumption DEF TInv, TypeOK
    <3>2. Len(q'[src]) = Len(q[src]) - 1 /\ Len(q'[dst]) = Len(q[dst]) + 1 /\ Len(q[dst]) < Capacity
      BY <1>2, <1>5, <1>6
    <3> QED
      BY <3>1, <3>2
  <2>2. ASSUME NEW l \in Lines PROVE Len(q'[l]) <= Capacity
    BY <1>6, <2>1 DEF TInv, TypeOK
  <2> QED
    BY <1>2, <1>6, <2>2 DEF TInv, TypeOK
<1>8. ASSUME NEW n \in Nat, Run(q[src], n)
      PROVE  x = n + 1 /\ Run(Tail(q[src]), n + 1)
  BY <1>2, <1>3, <1>8, RunTail DEF x
<1>9. ASSUME NEW n \in Nat, Run(q[dst], n), x = n + Len(q[dst]) + 1
      PROVE  Run(Append(q[dst], x), n)
  BY <1>3, <1>4, <1>9, RunAppend
<1>10. InOrder(d)'
  <2>1. /\ Run(q[c], got[d])
        /\ Live(c) => Run(q[b], got[d] + Len(q[c]))
        /\ Live(c) /\ Live(b) => Run(q[a], got[d] + Len(q[c]) + Len(q[b]))
        /\ Live(c) /\ Live(b) /\ Live(a) => sent[d] = got[d] + Len(q[c]) + Len(q[b]) + Len(q[a])
    BY <1>3 DEF InOrder, a, b, c
  <2>2. /\ got' = got /\ sent' = sent
        /\ \A l \in {a, b, c} : Live(l)' <=> Live(l)
    BY <1>2 DEF Live
  <2>5. got[d] \in Nat /\ Len(q[a]) \in Nat /\ Len(q[b]) \in Nat /\ Len(q[c]) \in Nat
    BY <1>1, <1>3
  <2>6. PICK g \in Nat, k \in Nat, m \in Nat, n \in Nat :
          g = got[d] /\ k = Len(q[c]) /\ m = Len(q[b]) /\ n = Len(q[a])
    BY <2>5
  <2>3. CASE src = a /\ dst = b
    <3>1. q'[a] = Tail(q[a]) /\ q'[b] = Append(q[b], x) /\ q'[c] = q[c]
      BY <1>1, <1>6, <2>3
    <3>2. Len(q'[a]) = Len(q[a]) - 1 /\ Len(q'[b]) = Len(q[b]) + 1
      BY <1>5, <2>3, <3>1
    <3>3. ASSUME Live(c)
          PROVE  Run(q'[b], got[d] + Len(q[c])) /\ Run(q'[a], got[d] + Len(q[c]) + Len(q[b]) + 1)
      <4>1. got[d] + Len(q[c]) \in Nat /\ got[d] + Len(q[c]) + Len(q[b]) \in Nat
        BY <2>5
      <4>2. Run(q[src], got[d] + Len(q[c]) + Len(q[b]))
        BY <1>2, <2>1, <2>3, <3>3
      <4> QED
        BY <1>8, <1>9, <2>1, <2>3, <3>1, <3>3, <4>1, <4>2
    <3>4. got[d] + Len(q[c]) + Len(q[b]) + 1 = got[d] + Len(q[c]) + (Len(q[b]) + 1)
      <4>1. g + k + m + 1 = g + k + (m + 1)
        OBVIOUS
      <4> QED
        BY <2>6, <4>1
    <3>5. got[d] + Len(q[c]) + Len(q[b]) + Len(q[a]) = got[d] + Len(q[c]) + (Len(q[b]) + 1) + (Len(q[a]) - 1)
      <4>1. g + k + m + n = g + k + (m + 1) + (n - 1)
        OBVIOUS
      <4> QED
        BY <2>6, <4>1
    <3> QED
      BY <2>1, <2>2, <3>1, <3>2, <3>3, <3>4, <3>5 DEF InOrder, a, b, c
  <2>4. CASE src = b /\ dst = c
    <3>1. q'[b] = Tail(q[b]) /\ q'[c] = Append(q[c], x) /\ q'[a] = q[a]
      BY <1>1, <1>6, <2>4
    <3>2. Len(q'[b]) = Len(q[b]) - 1 /\ Len(q'[c]) = Len(q[c]) + 1
      BY <1>5, <2>4, <3>1
    <3>3. Run(q'[c], got[d]) /\ Run(q'[b], got[d] + Len(q[c]) + 1)
      <4>1. got[d] + Len(q[c]) \in Nat
        BY <2>5
      <4>2. Run(q[src], got[d] + Len(q[c])) /\ Run(q[dst], got[d])
        BY <1>2, <2>1, <2>4
      <4> QED
        BY <1>3, <1>8, <1>9, <2>4, <3>1, <4>1, <4>2
    <3>4. /\ got[d] + Len(q[c]) + 1 = got[d] + (Len(q[c]) + 1)
          /\ got[d] + Len(q[c]) + Len(q[b]) = got[d] + (Len(q[c]) + 1) + (Len(q[b]) - 1)
      <4>1. g + k + 1 = g + (k + 1) /\ g + k + m = g + (k + 1) + (m - 1)
        OBVIOUS
      <4> QED
        BY <2>6, <4>1
    <3> QED
      BY <2>1, <2>2, <3>1, <3>2, <3>3, <3>4 DEF InOrder, a, b, c
  <2> QED
    BY <1>1, <2>3, <2>4
<1>11. Bounded(d)'
  <2>1. ASSUME NEW l \in LinesOf(d), NEW i \in 1..Len(q'[l]) PROVE q'[l][i] <= sent[d]
    BY <1>1, <1>3, <1>4, <1>6, <2>1 DEF Bounded
  <2> QED
    BY <1>2, <1>3, <2>1 DEF Bounded
<1>12. \A l \in Lines : l \notin LinesOf(d) => q'[l] = q[l]
  BY <1>1, <1>6
<1>13. ASSUME NEW e \in Directions PROVE InOrder(e)' /\ Bounded(e)'
  BY <1>2, <1>10, <1>11, <1>12, Elsewhere
<1> QED
  BY <1>2, <1>7, <1>13 DEF TInv

\* The sender sends a byte, or into a connection its peer has closed.
LEMMA SendKeeps ==
    ASSUME TInv, NEW d \in Directions, Send(d)
    PROVE  TInv' /\ sent'[d] = sent[d] + 1
<1> DEFINE a == Entry(d)
           b == Middle(d)
           c == Outlet(d)
<1>1. /\ {a, b, c} \subseteq Lines /\ LinesOf(d) = {a, b, c} /\ a # b /\ a # c /\ b # c
  BY Lanes DEF LinesOf
<1>2. /\ d \notin quit /\ sent[d] < MaxBytes
      /\ Len(q[a]) < Capacity \/ deaf[a]
      /\ sent' = [sent EXCEPT ![d] = sent[d] + 1]
      /\ q' = IF deaf[a] THEN q ELSE [q EXCEPT ![a] = Append(q[a], sent[d] + 1)]
      /\ UNCHANGED <<fin, deaf, relay, closed, got, ended, quit, gone>>
  BY DEF Send
<1> HIDE DEF a, b, c
<1>3. /\ q[a] \in Seq(1..MaxBytes) /\ (1..MaxBytes) \in SUBSET Nat /\ sent[d] \in Nat /\ MaxBytes \in Nat
      /\ got[d] \in Nat /\ Len(q[a]) \in Nat /\ Len(q[b]) \in Nat /\ Len(q[c]) \in Nat
      /\ InOrder(d) /\ Bounded(d) /\ fin[a] = "open"
  <2>1. Bounded(d) /\ InOrder(d) /\ fin[a] = "open"
    BY <1>2 DEF TInv, Bounded, a
  <2> QED
    BY <1>1, <2>1, BoundsAssumption DEF TInv, TypeOK
<1>4. /\ sent'[d] = sent[d] + 1 /\ sent' \in [Directions -> 0..MaxBytes]
      /\ \A e \in Directions : e # d => sent'[e] = sent[e]
  BY <1>2, <1>3 DEF TInv, TypeOK
<1>5. sent[d] + 1 \in 1..MaxBytes
  BY <1>2, <1>3
<1>6. /\ Append(q[a], sent[d] + 1) \in Seq(1..MaxBytes)
      /\ Len(Append(q[a], sent[d] + 1)) = Len(q[a]) + 1
  BY <1>3, <1>5, AppendProperties
<1>7. /\ q' \in [Lines -> Seq(1..MaxBytes)] /\ \A l \in Lines : l # a => q'[l] = q[l]
      /\ q'[a] = IF deaf[a] THEN q[a] ELSE Append(q[a], sent[d] + 1)
  BY <1>1, <1>2, <1>6 DEF TInv, TypeOK
<1>8. TypeOK'
  <2>1. Len(q'[a]) <= Capacity
    <3>1. CASE deaf[a]
      BY <1>1, <1>7, <3>1 DEF TInv, TypeOK
    <3>2. CASE ~deaf[a]
      <4>1. Len(q'[a]) = Len(q[a]) + 1 /\ Len(q[a]) < Capacity /\ Capacity \in Nat
        BY <1>2, <1>6, <1>7, <3>2, BoundsAssumption
      <4> QED
        BY <1>3, <4>1
    <3> QED
      BY <3>1, <3>2
  <2>2. \A l \in Lines : Len(q'[l]) <= Capacity
    BY <1>7, <2>1 DEF TInv, TypeOK
  <2> QED
    BY <1>2, <1>4, <1>7, <2>2 DEF TInv, TypeOK
<1>9. /\ Run(q[c], got[d])
      /\ Live(c) => Run(q[b], got[d] + Len(q[c]))
      /\ Live(c) /\ Live(b) => Run(q[a], got[d] + Len(q[c]) + Len(q[b]))
      /\ Live(c) /\ Live(b) /\ Live(a) => sent[d] = got[d] + Len(q[c]) + Len(q[b]) + Len(q[a])
  BY <1>3 DEF InOrder, a, b, c
<1>10. InOrder(d)'
  <2>1. /\ UNCHANGED <<got, deaf, fin>> /\ q'[b] = q[b] /\ q'[c] = q[c]
        /\ \A l \in {a, b, c} : Live(l)' <=> Live(l)
    BY <1>1, <1>2, <1>7 DEF Live
  <2>2. CASE deaf[a]
    <3>1. ~Live(a) /\ q'[a] = q[a]
      BY <1>7, <2>2 DEF Live
    <3> QED
      BY <1>9, <2>1, <3>1 DEF InOrder, a, b, c
  <2>3. CASE ~deaf[a]
    <3>1. q'[a] = Append(q[a], sent[d] + 1) /\ Live(a) /\ Len(q'[a]) = Len(q[a]) + 1
      BY <1>3, <1>6, <1>7, <2>3 DEF Live
    <3>2. ASSUME Live(c), Live(b)
          PROVE  /\ Run(q'[a], got[d] + Len(q[c]) + Len(q[b]))
                 /\ sent'[d] = got[d] + Len(q[c]) + Len(q[b]) + Len(q'[a])
      <4>1. PICK n \in Nat : n = got[d] + Len(q[c]) + Len(q[b])
        BY <1>3
      <4>2. sent[d] = n + Len(q[a]) /\ Run(q[a], n)
        BY <1>9, <3>1, <3>2, <4>1
      <4>3. sent[d] + 1 = n + Len(q[a]) + 1 /\ sent[d] + 1 = n + (Len(q[a]) + 1)
        <5>1. PICK m \in Nat : m = Len(q[a])
          BY <1>3
        <5>2. n + m + 1 = n + (m + 1)
          OBVIOUS
        <5> QED
          BY <4>2, <5>1, <5>2
      <4>4. Run(q'[a], n)
        BY <1>3, <1>5, <3>1, <4>2, <4>3, RunAppend
      <4> QED
        BY <1>4, <3>1, <4>1, <4>3, <4>4
    <3> QED
      BY <1>9, <2>1, <3>1, <3>2 DEF InOrder, a, b, c
  <2> QED
    BY <2>2, <2>3
<1>11. Bounded(d)'
  <2>1. \A l \in {a, b, c} : \A i \in 1..Len(q[l]) : q[l][i] \in Nat /\ q[l][i] <= sent[d] + 1
    <3>1. ASSUME NEW l \in {a, b, c}, NEW i \in 1..Len(q[l]) PROVE q[l][i] \in Nat /\ q[l][i] <= sent[d] + 1
      <4>1. q[l] \in Seq(1..MaxBytes) /\ q[l][i] <= sent[d]
        BY <1>1, <1>3, <3>1 DEF TInv, TypeOK, Bounded
      <4>2. q[l][i] \in 1..MaxBytes
        BY <3>1, <4>1, ElementOfSeq
      <4> QED
        BY <1>3, <4>1, <4>2
    <3> QED
      BY <3>1
  <2>2. \A i \in 1..Len(Append(q[a], sent[d] + 1)) : Append(q[a], sent[d] + 1)[i] <= sent[d] + 1
    BY <1>3, <1>5, <2>1, AtMost
  <2>3. \A l \in {a, b, c} : \A i \in 1..Len(q'[l]) : q'[l][i] <= sent'[d]
    BY <1>1, <1>4, <1>7, <2>1, <2>2
  <2>4. got[d] \in 0..sent'[d]
    BY <1>3, <1>4 DEF Bounded
  <2> QED
    BY <1>1, <1>2, <1>3, <2>3, <2>4 DEF Bounded, a
<1>12. \A l \in Lines : l \notin LinesOf(d) => q'[l] = q[l]
  BY <1>1, <1>7
<1>13. ASSUME NEW e \in Directions PROVE InOrder(e)' /\ Bounded(e)'
  BY <1>2, <1>4, <1>10, <1>11, <1>12, Elsewhere
<1> QED
  BY <1>2, <1>4, <1>8, <1>13 DEF TInv

\* The receiver takes the first byte of the last line, the one that is due.
LEMMA ReceiveKeeps ==
    ASSUME TInv, NEW d \in Directions, Receive(d)
    PROVE  TInv' /\ got' = [got EXCEPT ![d] = got[d] + 1] /\ got[d] < sent[d]
<1> DEFINE a == Entry(d)
           b == Middle(d)
           c == Outlet(d)
<1>1. /\ {a, b, c} \subseteq Lines /\ LinesOf(d) = {a, b, c} /\ a # b /\ a # c /\ b # c
  BY Lanes DEF LinesOf
<1>2. /\ q[c] # <<>>
      /\ got' = [got EXCEPT ![d] = IF Head(q[c]) = got[d] + 1 THEN got[d] + 1 ELSE MaxBytes + 1]
      /\ q' = [q EXCEPT ![c] = Tail(q[c])]
      /\ UNCHANGED <<fin, deaf, relay, closed, sent, ended, quit, gone>>
  BY DEF Receive
<1> HIDE DEF a, b, c
<1>3. /\ q[c] \in Seq(1..MaxBytes) /\ (1..MaxBytes) \in SUBSET Nat /\ sent[d] \in Nat
      /\ got[d] \in Nat /\ Len(q[a]) \in Nat /\ Len(q[b]) \in Nat /\ Len(q[c]) \in Nat
      /\ InOrder(d) /\ Bounded(d)
  BY <1>1, BoundsAssumption DEF TInv, TypeOK
<1>4. /\ Run(q[c], got[d])
      /\ Live(c) => Run(q[b], got[d] + Len(q[c]))
      /\ Live(c) /\ Live(b) => Run(q[a], got[d] + Len(q[c]) + Len(q[b]))
      /\ Live(c) /\ Live(b) /\ Live(a) => sent[d] = got[d] + Len(q[c]) + Len(q[b]) + Len(q[a])
  BY <1>3 DEF InOrder, a, b, c
<1>5. /\ Head(q[c]) = got[d] + 1 /\ Run(Tail(q[c]), got[d] + 1)
      /\ Tail(q[c]) \in Seq(1..MaxBytes) /\ Len(Tail(q[c])) = Len(q[c]) - 1
  BY <1>2, <1>3, <1>4, RunTail
<1>6. Head(q[c]) <= sent[d] /\ \A i \in 1..Len(Tail(q[c])) : Tail(q[c])[i] <= sent[d]
  <2>1. \A i \in 1..Len(q[c]) : q[c][i] <= sent[d]
    BY <1>1, <1>3 DEF Bounded
  <2> QED
    BY <1>2, <1>3, <2>1, AtMost
<1>7. /\ got' = [got EXCEPT ![d] = got[d] + 1] /\ got[d] < sent[d] /\ got'[d] = got[d] + 1
      /\ got' \in [Directions -> Nat] /\ \A e \in Directions : e # d => got'[e] = got[e]
  BY <1>2, <1>3, <1>5, <1>6 DEF TInv
<1>8. /\ q' \in [Lines -> Seq(1..MaxBytes)] /\ \A l \in Lines : l # c => q'[l] = q[l]
      /\ q'[c] = Tail(q[c])
  BY <1>1, <1>2, <1>5 DEF TInv, TypeOK
<1>9. TypeOK'
  <2>1. Len(q[c]) <= Capacity /\ Capacity \in Nat
    BY <1>1, BoundsAssumption DEF TInv, TypeOK
  <2>2. Len(q'[c]) <= Capacity
    BY <1>3, <1>5, <1>8, <2>1
  <2>3. \A l \in Lines : Len(q'[l]) <= Capacity
    BY <1>8, <2>2 DEF TInv, TypeOK
  <2> QED
    BY <1>2, <1>8, <2>3 DEF TInv, TypeOK
<1>10. InOrder(d)'
  <2>1. /\ UNCHANGED sent /\ q'[b] = q[b] /\ q'[a] = q[a]
        /\ \A l \in {a, b, c} : Live(l)' <=> Live(l)
    BY <1>1, <1>2, <1>8 DEF Live
  <2>2. got'[d] + Len(q'[c]) = got[d] + Len(q[c])
    <3>1. PICK g \in Nat, n \in Nat : g = got[d] /\ n = Len(q[c])
      BY <1>3
    <3>2. (g + 1) + (n - 1) = g + n
      OBVIOUS
    <3> QED
      BY <1>5, <1>7, <1>8, <3>1, <3>2
  <2> QED
    BY <1>4, <1>5, <1>7, <1>8, <2>1, <2>2 DEF InOrder, a, b, c
<1>11. Bounded(d)'
  <2>1. got'[d] \in 0..sent[d]
    BY <1>3, <1>7
  <2> QED
    BY <1>1, <1>2, <1>3, <1>6, <1>8, <2>1 DEF Bounded
<1>12. \A l \in Lines : l \notin LinesOf(d) => q'[l] = q[l]
  BY <1>1, <1>8
<1>13. ASSUME NEW e \in Directions PROVE InOrder(e)' /\ Bounded(e)'
  BY <1>2, <1>7, <1>10, <1>11, <1>12, Elsewhere
<1> QED
  BY <1>7, <1>9, <1>13 DEF TInv

-----------------------------------------------------------------------------
(* Every step of the Tunnel, in or out of the Bridge.                      *)

\* Nothing that the invariant is about changes.
LEMMA StutterKeeps ==
    ASSUME TInv, UNCHANGED vars
    PROVE  TInv'
<1>1. UNCHANGED <<q, fin, deaf, relay, closed, sent, got, ended, quit, gone>>
  BY DEF vars
<1>2. TypeOK'
  BY <1>1 DEF TInv, TypeOK
<1>3. Wanes
  <2>1. \A l \in Lines : Len(q[l]) \in Nat
    BY DEF TInv, TypeOK
  <2> QED
    BY <1>1, <2>1 DEF Wanes, TInv, TypeOK, Live
<1> QED
  BY <1>2, <1>3, WanesKeeps

\* The steps in which no byte moves.
Ending ==
    \/ HandleEnds \/ FrameGoes
    \/ \E d \in Directions : Gone(d) \/ PipeEnds(d) \/ Shutdown(d) \/ ReceiveEnd(d) \/ BridgeEnds(d)

LEMMA EndingKeeps ==
    ASSUME TInv, Ending
    PROVE  TInv'
<1>1. Wanes /\ TypeOK'
  BY ClosingSteps, EndingSteps DEF TInv, Ending
<1> QED
  BY <1>1, WanesKeeps

LEMMA TNext == TInv /\ [Next]_vars => TInv'
<1> SUFFICES ASSUME TInv, [Next]_vars PROVE TInv'
  OBVIOUS
<1>1. CASE UNCHANGED vars
  BY <1>1, StutterKeeps
<1>2. CASE Ending
  BY <1>2, EndingKeeps
<1>3. ASSUME NEW d \in Directions, Forward("bridge", d) \/ Forward("proxy", d) PROVE TInv'
  BY <1>3, ForwardKeeps DEF Relays
<1>4. ASSUME NEW d \in Directions, Send(d) PROVE TInv'
  BY <1>4, SendKeeps
<1>5. ASSUME NEW d \in Directions, Receive(d) PROVE TInv'
  BY <1>5, ReceiveKeeps
<1>6. Next => Ending \/ \E d \in Directions :
                Forward("bridge", d) \/ Forward("proxy", d) \/ Send(d) \/ Receive(d)
  BY DEF Next, Relaying, Ending
<1> QED
  BY <1>1, <1>2, <1>3, <1>4, <1>5, <1>6

\* The sudden death of the bridge closes the command's connection, which is
\* one more way to close a socket.
LEMMA LoopDiesKeeps ==
    ASSUME TInv, LoopDies
    PROVE  TInv' /\ UNCHANGED <<sent, got, ended>>
<1>1. CASE conn # "up" \/ closed
  <2>1. UNCHANGED vars
    BY <1>1 DEF LoopDies
  <2> QED
    BY <2>1, StutterKeeps DEF vars
<1>2. CASE conn = "up" /\ ~closed
  <2>1. /\ relay' = [relay EXCEPT !["bridge"] = [d \in Directions |-> "done"]]
        /\ closed' = TRUE /\ CloseSocket("client", "down") /\ UNCHANGED <<sent, got, ended, quit, gone>>
    BY <1>2 DEF LoopDies
  <2>2. "client" \in Hops /\ "down" \in Directions
        /\ \A e \in Directions : <<"client", "down">> # Entry(e)
    BY DEF Hops, Directions, Entry
  <2>3. Wanes
    BY <2>1, <2>2, Closing DEF TInv
  <2>4. relay' \in [Relays -> [Directions -> {"on", "done"}]]
    BY <2>1 DEF TInv, TypeOK
  <2>5. TypeOK'
    BY <2>1, <2>3, <2>4, WanesType DEF TInv, TypeOK
  <2> QED
    BY <2>1, <2>3, <2>5, WanesKeeps
<1> QED
  BY <1>1, <1>2

LEMMA BridgeSteps == BNext => [Next]_vars \/ LoopDies
BY DEF BNext, Starts, ShellGoesOn, Connect, Accept, DialUnix, InTunnel

\* The invariant holds in the Tunnel and in the Bridge around it.
THEOREM TunnelInvariant == (Spec => []TInv) /\ (BSpec => []TInv)
<1>1. Spec => []TInv
  BY TInit, TNext, PTL DEF Spec
<1>2. BInit => TInv
  BY TInit DEF BInit
<1>3. TInv /\ [BNext]_allvars => TInv'
  <2>1. UNCHANGED allvars => UNCHANGED vars
    BY DEF allvars
  <2> QED
    BY <2>1, BridgeSteps, TNext, LoopDiesKeeps, StutterKeeps
<1>4. BSpec => []TInv
  BY <1>2, <1>3, PTL DEF BSpec
<1> QED
  BY <1>1, <1>4

-----------------------------------------------------------------------------
(* The refinement.                                                         *)

\* The streams begin empty.
LEMMA StreamsInit == Init => S!Init
BY DEF Init, S!Init

\* A step that sends, receives or ends is one of the streams, and any other
\* step is none.
LEMMA StreamsNext == TInv /\ [Next]_vars => [S!Next]_<<sent, got, [d \in Directions |-> ended[d] # "no"]>>
<1> SUFFICES ASSUME TInv, [Next]_vars
             PROVE  S!Next \/ (UNCHANGED <<sent, got, ended>>)
  OBVIOUS
<1>1. CASE UNCHANGED vars
  BY <1>1 DEF vars
<1>2. CASE HandleEnds \/ FrameGoes
  BY <1>2 DEF HandleEnds, FrameGoes
<1>3. ASSUME NEW d \in Directions, Relaying(d) \/ Shutdown(d) \/ Gone(d) PROVE UNCHANGED <<sent, got, ended>>
  BY <1>3 DEF Relaying, Forward, BridgeEnds, PipeEnds, Shutdown, Gone
<1>4. ASSUME NEW d \in Directions, Send(d) PROVE S!Next
  <2>1. S!Send(d)
    BY <1>4 DEF Send, S!Send
  <2> QED
    BY <2>1 DEF S!Next
<1>5. ASSUME NEW d \in Directions, Receive(d) PROVE S!Next
  <2>1. got' = [got EXCEPT ![d] = got[d] + 1] /\ got[d] < sent[d]
    BY <1>5, ReceiveKeeps
  <2>2. S!Deliver(d)
    BY <1>5, <2>1 DEF Receive, S!Deliver
  <2> QED
    BY <2>2 DEF S!Next
<1>6. ASSUME NEW d \in Directions, ReceiveEnd(d) PROVE S!Next
  <2>1. Outlet(d) \in Lines
    BY Lanes DEF LinesOf
  <2>2. fin[Outlet(d)] # "no"
    BY <2>1 DEF TInv, TypeOK
  <2>3. /\ ended[d] = "no" /\ ended' = [ended EXCEPT ![d] = fin[Outlet(d)]]
        /\ UNCHANGED <<sent, got>> /\ ended \in [Directions -> {"no", "end", "reset"}]
    BY <1>6 DEF ReceiveEnd, TInv, TypeOK
  <2>4. [x \in Directions |-> ended'[x] # "no"]
          = [[x \in Directions |-> ended[x] # "no"] EXCEPT ![d] = TRUE]
    BY <2>2, <2>3
  <2>5. S!End(d)
    BY <2>3, <2>4 DEF S!End
  <2> QED
    BY <2>5 DEF S!Next
<1> QED
  BY <1>1, <1>2, <1>3, <1>4, <1>5, <1>6 DEF Next

\* The chain of sockets, threads and pipes is a pair of streams, also where the
\* bridge may die: whatever its buffers hold and however much is sent, nothing
\* is reordered, invented, repeated or delivered after the end.
THEOREM ImplementsStreams == (Spec => TunnelIsStreams) /\ (BSpec => TunnelIsStreams)
<1>1. Spec => TunnelIsStreams
  BY StreamsInit, StreamsNext, TunnelInvariant, PTL DEF Spec, TunnelIsStreams, S!Spec
<1>2. TInv /\ [BNext]_allvars => [S!Next]_<<sent, got, [d \in Directions |-> ended[d] # "no"]>>
  <2>1. UNCHANGED allvars => UNCHANGED vars
    BY DEF allvars
  <2>2. TInv /\ LoopDies => UNCHANGED <<sent, got, ended>>
    BY LoopDiesKeeps
  <2> QED
    BY <2>1, <2>2, BridgeSteps, StreamsNext
<1>3. BSpec => TunnelIsStreams
  BY StreamsInit, <1>2, TunnelInvariant, PTL DEF BSpec, BInit, TunnelIsStreams, S!Spec
<1> QED
  BY <1>1, <1>3

-----------------------------------------------------------------------------
(***************************************************************************)
(* Nothing is lost silently while the bridge lives. A direction d is due   *)
(* whole as long as its receiver has not ended the other direction, and    *)
(* its sender has not left unread what it was sent. Then either the proxy  *)
(* still carries it, and what was sent and has not arrived is on its three *)
(* lines; or the proxy has come to the end of it, and it is on the lines   *)
(* behind, to be followed by the end or cut by a reset.                    *)
(***************************************************************************)
Due(d) == Flip(d) \notin quit /\ (d \in gone => got[Flip(d)] >= sent[Flip(d)])

Carried(d) ==
    /\ \A l \in LinesOf(d) : ~deaf[l]
    /\ fin[Outlet(d)] = "open"
    /\ \A r \in Relays : relay[r][Flip(d)] = "on"
    /\ ~closed
    /\ \A l \in LinesOf(Flip(d)) :
         /\ fin[l] = "open"
         /\ deaf[l] => l = Outlet(Flip(d)) /\ d \in gone
         /\ d \in gone => q[l] = <<>>
    /\ \/ fin[Middle(d)] = "open" /\ relay["bridge"][d] = "on"
       \/ relay["bridge"][d] = "done" /\ d = "up" /\ q[Entry(d)] = <<>> /\ d \in quit
    /\ sent[d] = got[d] + Len(q[Outlet(d)]) + Len(q[Middle(d)]) + Len(q[Entry(d)])

Over(d) ==
    /\ d \in quit /\ ~deaf[Outlet(d)]
    /\ \/ /\ relay["bridge"][d] = "on" /\ d = "down" /\ ~closed /\ ~deaf[Middle(d)]
          /\ fin[Outlet(d)] = "open" /\ fin[Middle(d)] # "open"
          /\ sent[d] = got[d] + Len(q[Outlet(d)]) + Len(q[Middle(d)])
       \/ /\ relay["bridge"][d] = "done" /\ fin[Outlet(d)] # "open"
          /\ fin[Outlet(d)] = "reset" \/ sent[d] = got[d] + Len(q[Outlet(d)])

Whole(d) ==
    Due(d) =>
      /\ IF relay["proxy"][d] = "on" THEN Carried(d) ELSE Over(d)
      /\ ended[d] = "end" => got[d] = sent[d] /\ relay["proxy"][d] = "done"

\* The two directions, line by line.
LEMMA Six ==
    ASSUME NEW d \in Directions
    PROVE  LET a == Entry(d)
               b == Middle(d)
               c == Outlet(d)
               x == Entry(Flip(d))
               y == Middle(Flip(d))
               z == Outlet(Flip(d))
           IN  /\ {a, b, c, x, y, z} \subseteq Lines
               /\ a # b /\ a # c /\ b # c /\ x # y /\ x # z /\ y # z
               /\ \A l \in {a, b, c} : l \notin {x, y, z}
               /\ LinesOf(d) = {a, b, c} /\ LinesOf(Flip(d)) = {x, y, z}
               /\ Directions = {d, Flip(d)} /\ Flip(d) # d /\ Flip(Flip(d)) = d
               /\ <<a[1], d>> = a /\ <<a[1], Flip(d)>> = z /\ a[1] # "unix"
BY DEF LinesOf, Entry, Middle, Outlet, Lines, Hops, Directions, Flip

LEMMA Routes ==
    ASSUME NEW d \in Directions
    PROVE  /\ d = "up" =>
                /\ Src("bridge", d) = Entry(d) /\ Dst("bridge", d) = Middle(d)
                /\ Src("proxy", d) = Middle(d) /\ Dst("proxy", d) = Outlet(d)
                /\ Outlet(d) = <<"target", d>> /\ Outlet(Flip(d)) = <<"client", Flip(d)>>
                /\ Entry(Flip(d)) = <<"target", Flip(d)>>
           /\ d = "down" =>
                /\ Src("proxy", d) = Entry(d) /\ Dst("proxy", d) = Middle(d)
                /\ Src("bridge", d) = Middle(d) /\ Dst("bridge", d) = Outlet(d)
                /\ Outlet(d) = <<"client", d>> /\ Outlet(Flip(d)) = <<"target", Flip(d)>>
                /\ Entry(Flip(d)) = <<"client", Flip(d)>>
           /\ d = "up" \/ d = "down"
           /\ d = "up" => Flip(d) = "down"
           /\ d = "down" => Flip(d) = "up"
BY DEF Entry, Middle, Outlet, Directions, Flip, Src, Dst, Relays, Hops

-----------------------------------------------------------------------------
\* What closing a socket does to the two lines of its hop.
Shuts(out, in, how) ==
    /\ how \in {"end", "reset"}
    /\ \A l \in Lines : l # out /\ l # in => q'[l] = q[l]
    /\ q[in] = <<>> => q'[in] = <<>>
    /\ how = "end" => q'[out] = q[out]
    /\ how = "reset" => out[1] # "unix" /\ q[in] # <<>>
    /\ \A l \in Lines : l # out => fin'[l] = fin[l]
    /\ fin'[out] = IF fin[out] = "open" \/ how = "reset" THEN how ELSE fin[out]
    /\ deaf'[in] /\ \A l \in Lines : l # in => deaf'[l] = deaf[l]

LEMMA Shutting ==
    ASSUME TypeOK, NEW h \in Hops, NEW d \in Directions, CloseSocket(h, d)
    PROVE  \E how : Shuts(<<h, d>>, <<h, Flip(d)>>, how)
<1> DEFINE out == <<h, d>>
           in == <<h, Flip(d)>>
<1>1. out \in Lines /\ in \in Lines /\ out # in /\ out[1] = h
  BY DEF Lines, Directions, Flip
<1>2. PICK how \in {"end", "reset"}, mine \in Prefixes(q[out]), theirs \in Prefixes(q[in]) :
        /\ q' = [q EXCEPT ![out] = mine, ![in] = theirs]
        /\ fin' = [fin EXCEPT ![out] = IF fin[out] = "open" \/ how = "reset" THEN how ELSE fin[out]]
        /\ deaf' = [deaf EXCEPT ![in] = TRUE]
        /\ how = "reset" => h # "unix" /\ q[in] # <<>>
        /\ how = "end" => mine = q[out]
  BY DEF CloseSocket
<1> HIDE DEF out, in
<1>3. q[in] \in Seq(1..MaxBytes) /\ theirs \in Seq(1..MaxBytes) /\ Len(theirs) \in 0..Len(q[in])
  BY <1>1, PrefixOf DEF TypeOK
<1>4. q[in] = <<>> => theirs = <<>>
  BY <1>3, EmptySeq
<1>5. /\ q'[out] = mine /\ q'[in] = theirs
      /\ \A l \in Lines : l # out /\ l # in => q'[l] = q[l]
  BY <1>1, <1>2 DEF TypeOK
<1>6. /\ \A l \in Lines : l # out => fin'[l] = fin[l]
      /\ fin'[out] = IF fin[out] = "open" \/ how = "reset" THEN how ELSE fin[out]
  BY <1>1, <1>2 DEF TypeOK
<1>7. deaf'[in] /\ \A l \in Lines : l # in => deaf'[l] = deaf[l]
  BY <1>1, <1>2 DEF TypeOK
<1>8. Shuts(out, in, how)
  BY <1>1, <1>2, <1>4, <1>5, <1>6, <1>7 DEF Shuts
<1> QED
  BY <1>8 DEF out, in

\* Due is only ever lost.
LEMMA DueBefore ==
    ASSUME TInv, Next, NEW d \in Directions, Due(d)'
    PROVE  Due(d) /\ ~Shutdown(Flip(d)) /\ ~Gone(Flip(d)) /\ (Send(Flip(d)) => d \notin gone)
<1> DEFINE f == Flip(d)
<1>1. f \in Directions /\ f # d /\ Flip(f) = d
  BY Six
<1>2. f \notin quit' /\ (d \in gone' => got'[f] >= sent'[f])
  BY DEF Due
<1>3. got[f] \in Nat /\ sent[f] \in Nat /\ got[f] <= sent[f]
  BY <1>1 DEF TInv, TypeOK, Bounded
<1> HIDE DEF f
<1>4. quit \subseteq quit' /\ gone \subseteq gone' /\ ~Shutdown(f) /\ ~Gone(f)
  <2>1. quit \subseteq quit' /\ gone \subseteq gone'
    BY DEF Next, HandleEnds, FrameGoes, Relaying, Forward, BridgeEnds, PipeEnds, Send, Shutdown, Receive, ReceiveEnd, Gone
  <2> QED
    BY <1>1, <1>2, <2>1 DEF Shutdown, Gone
<1>5. ASSUME d \in gone PROVE got[f] >= sent[f] /\ ~Send(f)
  <2>1. d \in gone' /\ got'[f] >= sent'[f]
    BY <1>2, <1>4, <1>5
  <2>2. ASSUME NEW e \in Directions, Send(e) PROVE e # f /\ got[f] >= sent[f]
    <3>1. sent'[e] = sent[e] + 1 /\ sent'[f] = IF e = f THEN sent[e] + 1 ELSE sent[f]
      BY <1>1, <2>2 DEF Send, TInv, TypeOK
    <3>2. got' = got
      BY <2>2 DEF Send
    <3> QED
      BY <1>3, <2>1, <3>1, <3>2
  <2>3. ASSUME NEW e \in Directions, Receive(e) PROVE got[f] >= sent[f]
    <3>1. Flip(e) \notin gone /\ sent' = sent
      BY <2>3 DEF Receive
    <3>2. e # f
      BY <1>1, <1>5, <3>1
    <3>3. got'[f] = got[f]
      BY <1>1, <2>3, <3>2 DEF Receive, TInv
    <3> QED
      BY <2>1, <3>1, <3>3
  <2>4. \/ UNCHANGED <<got, sent>> \/ \E e \in Directions : Send(e) \/ Receive(e)
    BY DEF Next, HandleEnds, FrameGoes, Relaying, Forward, BridgeEnds, PipeEnds, Shutdown, ReceiveEnd, Gone
  <2> QED
    BY <1>1, <2>1, <2>2, <2>3, <2>4
<1> QED
  BY <1>2, <1>4, <1>5 DEF Due, f

\* While the proxy carries a direction, it and the other one stay open, to the end of it.
LEMMA CarriedOn ==
    ASSUME TInv, Next, NEW d \in Directions, Whole(d), Due(d)', relay["proxy"][d] = "on"
    PROVE  /\ IF relay'["proxy"][d] = "on" THEN Carried(d)' ELSE Over(d)'
           /\ ended'[d] # "end"
<1> DEFINE f == Flip(d)
           a == Entry(d)
           b == Middle(d)
           c == Outlet(d)
           x == Entry(f)
           y == Middle(f)
           z == Outlet(f)
<1>1. /\ {a, b, c, x, y, z} \subseteq Lines
      /\ a # b /\ a # c /\ b # c /\ x # y /\ x # z /\ y # z
      /\ \A l \in {a, b, c} : l \notin {x, y, z}
      /\ LinesOf(d) = {a, b, c} /\ LinesOf(f) = {x, y, z}
      /\ Directions = {d, f} /\ f # d /\ Flip(f) = d
  BY Six
<1>2. Due(d) /\ ~Shutdown(f) /\ ~Gone(f) /\ (Send(f) => d \notin gone)
  BY DueBefore
<1>3. Carried(d) /\ ended[d] # "end" /\ InOrder(f) /\ Bounded(d)
  BY <1>1, <1>2 DEF Whole, TInv
<1>4. /\ \A l \in Lines : q[l] \in Seq(1..MaxBytes) /\ Len(q[l]) \in Nat
      /\ got[d] \in Nat /\ sent[d] \in Nat /\ got[f] \in Nat /\ sent[f] \in Nat
      /\ f \in Directions /\ Len(<<>>) = 0
      /\ \A l \in Lines : q[l] = <<>> \/ Len(q[l]) > 0
      /\ \A r \in Relays, e \in Directions : relay[r][e] \in {"on", "done"}
      /\ Relays = {"bridge", "proxy"}
  BY <1>1, EmptySeq DEF TInv, TypeOK, Relays
<1>5. /\ ~deaf[a] /\ ~deaf[b] /\ ~deaf[c] /\ fin[c] = "open"
      /\ relay["bridge"][f] = "on" /\ relay["proxy"][f] = "on" /\ ~closed
      /\ fin[x] = "open" /\ fin[y] = "open" /\ fin[z] = "open"
      /\ ~deaf[x] /\ ~deaf[y] /\ (deaf[z] => d \in gone)
      /\ d \in gone => q[x] = <<>> /\ q[y] = <<>> /\ q[z] = <<>>
      /\ \/ fin[b] = "open" /\ relay["bridge"][d] = "on"
         \/ relay["bridge"][d] = "done" /\ d = "up" /\ q[a] = <<>> /\ d \in quit
      /\ sent[d] = got[d] + Len(q[c]) + Len(q[b]) + Len(q[a])
  BY <1>1, <1>3, <1>4 DEF Carried
<1>6. /\ d = "up" => /\ Src("bridge", d) = a /\ Dst("bridge", d) = b
                     /\ Src("proxy", d) = b /\ Dst("proxy", d) = c
                     /\ Src("proxy", f) = x /\ Dst("proxy", f) = y
                     /\ Src("bridge", f) = y /\ Dst("bridge", f) = z
      /\ d = "down" => /\ Src("proxy", d) = a /\ Dst("proxy", d) = b
                       /\ Src("bridge", d) = b /\ Dst("bridge", d) = c
                       /\ Src("bridge", f) = x /\ Dst("bridge", f) = y
                       /\ Src("proxy", f) = y /\ Dst("proxy", f) = z
      /\ d = "up" \/ d = "down"
  BY <1>1, <1>4, Routes
<1>7. d \notin quit => fin[a] = "open"
  BY <1>3 DEF Bounded
<1>len. PICK g \in Nat, k \in Nat, m \in Nat, n \in Nat :
         g = got[d] /\ k = Len(q[c]) /\ m = Len(q[b]) /\ n = Len(q[a])
  BY <1>1, <1>4
<1> DEFINE NewCarried ==
      /\ ~deaf'[a] /\ ~deaf'[b] /\ ~deaf'[c] /\ fin'[c] = "open"
      /\ relay'["bridge"][f] = "on" /\ relay'["proxy"][f] = "on" /\ ~closed'
      /\ fin'[x] = "open" /\ fin'[y] = "open" /\ fin'[z] = "open"
      /\ ~deaf'[x] /\ ~deaf'[y] /\ (deaf'[z] => d \in gone')
      /\ d \in gone' => q'[x] = <<>> /\ q'[y] = <<>> /\ q'[z] = <<>>
      /\ \/ fin'[b] = "open" /\ relay'["bridge"][d] = "on"
         \/ relay'["bridge"][d] = "done" /\ d = "up" /\ q'[a] = <<>> /\ d \in quit'
      /\ sent'[d] = got'[d] + Len(q'[c]) + Len(q'[b]) + Len(q'[a])
<1>8. NewCarried => Carried(d)'
  BY <1>1, <1>4 DEF Carried
<1> HIDE DEF NewCarried
<1> SUFFICES \/ relay' = relay /\ ended'[d] # "end" /\ NewCarried
             \/ relay'["proxy"][d] = "on" /\ ended'[d] # "end" /\ NewCarried
             \/ relay'["proxy"][d] = "done" /\ ended'[d] # "end" /\ Over(d)'
  BY <1>8
<1> HIDE DEF a, b, c, x, y, z, f
\* Steps that do not touch a line or move a byte.
<1>9. CASE HandleEnds \/ FrameGoes
  BY <1>1, <1>5, <1>9 DEF HandleEnds, FrameGoes
<1>10. ASSUME NEW e \in Directions, Shutdown(e) PROVE relay' = relay /\ ended'[d] # "end" /\ NewCarried
  <2>1. e = d
    BY <1>1, <1>2, <1>10
  <2>2. fin' = [fin EXCEPT ![a] = "end"] /\ quit' = quit \cup {d}
        /\ UNCHANGED <<q, deaf, relay, closed, sent, got, ended, gone>>
    BY <1>10, <2>1 DEF Shutdown, a
  <2>3. \A l \in Lines : l # a => fin'[l] = fin[l]
    BY <2>2 DEF TInv, TypeOK
  <2> QED
    BY <1>1, <1>3, <1>5, <2>2, <2>3 DEF NewCarried
<1>11. ASSUME NEW e \in Directions, ReceiveEnd(e) PROVE FALSE
  BY <1>1, <1>5, <1>11 DEF ReceiveEnd, c, z
\* The receiver or the sender of one of the two directions.
<1>12. ASSUME NEW e \in Directions, Send(e) PROVE relay' = relay /\ ended'[d] # "end" /\ NewCarried
  <2>1. /\ e \notin quit /\ sent' = [sent EXCEPT ![e] = sent[e] + 1]
        /\ q' = IF deaf[Entry(e)] THEN q ELSE [q EXCEPT ![Entry(e)] = Append(q[Entry(e)], sent[e] + 1)]
        /\ UNCHANGED <<fin, deaf, relay, closed, got, ended, quit, gone>> /\ sent[e] + 1 \in 1..MaxBytes
    BY <1>12, BoundsAssumption DEF Send, TInv, TypeOK
  <2>2. CASE e = d
    <3>1. q' = [q EXCEPT ![a] = Append(q[a], sent[d] + 1)] /\ sent'[d] = sent[d] + 1
      BY <1>5, <2>1, <2>2 DEF a, TInv, TypeOK
    <3>2. Len(Append(q[a], sent[d] + 1)) = Len(q[a]) + 1
      BY <1>1, <1>4, <2>1, <2>2, AppendProperties
    <3>3. Len(q'[a]) = Len(q[a]) + 1 /\ \A l \in Lines : l # a => q'[l] = q[l]
      BY <1>1, <3>1, <3>2 DEF TInv, TypeOK
    <3>4. sent'[d] = got'[d] + Len(q'[c]) + Len(q'[b]) + Len(q'[a])
      <4>1. /\ Len(q'[a]) = n + 1 /\ Len(q'[b]) = m /\ Len(q'[c]) = k /\ got'[d] = g
            /\ sent'[d] = (g + k + m + n) + 1
        BY <1>1, <1>5, <1>len, <2>1, <3>1, <3>3
      <4>2. (g + k + m + n) + 1 = g + k + m + (n + 1)
        OBVIOUS
      <4> QED
        BY <4>1, <4>2
    <3> QED
      BY <1>1, <1>3, <1>5, <2>1, <2>2, <3>3, <3>4 DEF NewCarried
  <2>3. CASE e = f
    <3>1. /\ \A l \in Lines : l # x => q'[l] = q[l]
          /\ sent'[d] = sent[d] /\ d \notin gone
      BY <1>1, <1>2, <1>12, <2>1, <2>3 DEF x, TInv, TypeOK
    <3> QED
      BY <1>1, <1>3, <1>5, <2>1, <3>1 DEF NewCarried
  <2> QED
    BY <1>1, <2>2, <2>3
<1>13. ASSUME NEW e \in Directions, Receive(e) PROVE relay' = relay /\ ended'[d] # "end" /\ NewCarried
  <2>1. /\ Flip(e) \notin gone /\ q[Outlet(e)] # <<>> /\ q' = [q EXCEPT ![Outlet(e)] = Tail(q[Outlet(e)])]
        /\ got' = [got EXCEPT ![e] = got[e] + 1]
        /\ UNCHANGED <<fin, deaf, relay, closed, sent, ended, quit, gone>>
    BY <1>13, ReceiveKeeps DEF Receive
  <2>2. CASE e = d
    <3>1. /\ Len(q'[c]) = Len(q[c]) - 1 /\ got'[d] = got[d] + 1
          /\ \A l \in Lines : l # c => q'[l] = q[l]
      BY <1>1, <1>4, <2>1, <2>2, HeadTailProperties DEF c, TInv, TypeOK
    <3>2. sent'[d] = got'[d] + Len(q'[c]) + Len(q'[b]) + Len(q'[a])
      BY <1>1, <1>4, <1>5, <2>1, <3>1
    <3> QED
      BY <1>1, <1>3, <1>5, <2>1, <3>1, <3>2 DEF NewCarried
  <2>3. CASE e = f
    <3>1. got'[d] = got[d] /\ d \notin gone /\ \A l \in Lines : l # z => q'[l] = q[l]
      BY <1>1, <2>1, <2>3 DEF z, TInv, TypeOK
    <3> QED
      BY <1>1, <1>3, <1>5, <2>1, <3>1 DEF NewCarried
  <2> QED
    BY <1>1, <2>2, <2>3
\* A sender that goes has read all it was sent, so that nothing is reset.
<1>14. ASSUME NEW e \in Directions, Gone(e) PROVE relay' = relay /\ ended'[d] # "end" /\ NewCarried
  <2>1. /\ e = d /\ d \notin gone /\ gone' = gone \cup {d} /\ quit' = quit \cup {d}
        /\ CloseSocket(a[1], d) /\ UNCHANGED <<relay, closed, sent, got, ended>>
    BY <1>1, <1>2, <1>14 DEF Gone, a
  <2>2. a[1] \in Hops /\ <<a[1], d>> = a /\ <<a[1], Flip(d)>> = z
    BY Lanes, Six DEF a, z, f
  <2>3. PICK how : Shuts(a, z, how)
    BY <2>1, <2>2, Shutting DEF TInv
  <2>4. q[x] = <<>> /\ q[y] = <<>> /\ q[z] = <<>>
    <3>1. sent[f] = got[f] + Len(q[z]) + Len(q[y]) + Len(q[x])
      BY <1>3, <1>5, <2>1 DEF InOrder, Live, x, y, z
    <3>2. got[f] >= sent[f]
      BY <2>1 DEF Due, f
    <3> QED
      BY <1>1, <1>4, <3>1, <3>2
  <2>5. how = "end" /\ q'[a] = q[a] /\ q'[z] = <<>> /\ \A l \in Lines : l # a /\ l # z => q'[l] = q[l]
    BY <2>3, <2>4 DEF Shuts
  <2>6. /\ \A l \in Lines : l # a => fin'[l] = fin[l]
        /\ \A l \in Lines : l # z => deaf'[l] = deaf[l]
    BY <2>3 DEF Shuts
  <2>7. q'[a] = q[a] /\ q'[b] = q[b] /\ q'[c] = q[c] /\ q'[x] = <<>> /\ q'[y] = <<>> /\ q'[z] = <<>>
    BY <1>1, <2>4, <2>5
  <2>8. sent'[d] = got'[d] + Len(q'[c]) + Len(q'[b]) + Len(q'[a])
    BY <1>5, <2>1, <2>7
  <2> QED
    BY <1>1, <1>3, <1>5, <2>1, <2>6, <2>7, <2>8 DEF NewCarried
\* The relays.
<1>15. ASSUME NEW e \in Directions, NEW r \in Relays, Forward(r, e)
       PROVE  relay' = relay /\ ended'[d] # "end" /\ NewCarried
  <2>1. /\ q[Src(r, e)] # <<>>
        /\ relay[r][e] = "on"
        /\ q' = [q EXCEPT ![Src(r, e)] = Tail(q[Src(r, e)]), ![Dst(r, e)] = Append(q[Dst(r, e)], Head(q[Src(r, e)]))]
        /\ UNCHANGED <<fin, deaf, relay, closed, sent, got, ended, quit, gone>>
    BY <1>15 DEF Forward
  <2>2. PICK src \in Lines, dst \in Lines : src = Src(r, e) /\ dst = Dst(r, e) /\ src # dst
    BY Route, Lanes DEF LinesOf
  <2>3. q[src] # <<>> /\ q' = [q EXCEPT ![src] = Tail(q[src]), ![dst] = Append(q[dst], Head(q[src]))]
    BY <2>1, <2>2
  <2>4. /\ Head(q[src]) \in 1..MaxBytes /\ Len(Tail(q[src])) = Len(q[src]) - 1
        /\ Len(Append(q[dst], Head(q[src]))) = Len(q[dst]) + 1
    <3>1. Head(q[src]) \in 1..MaxBytes /\ Len(Tail(q[src])) = Len(q[src]) - 1
      BY <1>4, <2>3, HeadTailProperties
    <3> QED
      BY <1>4, <3>1, AppendProperties
  <2>5. /\ Len(q'[src]) = Len(q[src]) - 1 /\ Len(q'[dst]) = Len(q[dst]) + 1
        /\ \A l \in Lines : l # src /\ l # dst => q'[l] = q[l]
    BY <2>2, <2>3, <2>4 DEF TInv, TypeOK
  <2>6. CASE e = d
    <3>1. (src = a /\ dst = b) \/ (src = b /\ dst = c)
      BY <2>2, <2>6, Route DEF a, b, c
    <3>2. sent'[d] = got'[d] + Len(q'[c]) + Len(q'[b]) + Len(q'[a])
      <4>1. CASE src = a /\ dst = b
        <5>1. Len(q'[a]) = n - 1 /\ Len(q'[b]) = m + 1 /\ Len(q'[c]) = k /\ got'[d] = g
          BY <1>1, <1>len, <2>1, <2>5, <4>1
        <5>2. g + k + m + n = g + k + (m + 1) + (n - 1)
          OBVIOUS
        <5> QED
          BY <1>5, <1>len, <2>1, <5>1, <5>2
      <4>2. CASE src = b /\ dst = c
        <5>1. Len(q'[a]) = n /\ Len(q'[b]) = m - 1 /\ Len(q'[c]) = k + 1 /\ got'[d] = g
          BY <1>1, <1>len, <2>1, <2>5, <4>2
        <5>2. g + k + m + n = g + (k + 1) + (m - 1) + n
          OBVIOUS
        <5> QED
          BY <1>5, <1>len, <2>1, <5>1, <5>2
      <4> QED
        BY <3>1, <4>1, <4>2
    <3>3. q[a] = <<>> => q'[a] = <<>>
      BY <1>1, <2>3, <2>5, <3>1
    <3>4. /\ \A l \in Lines : l # a /\ l # b /\ l # c => q'[l] = q[l]
          /\ \A l \in {x, y, z} : l # a /\ l # b /\ l # c
      BY <1>1, <2>5, <3>1
    <3>5. q'[x] = q[x] /\ q'[y] = q[y] /\ q'[z] = q[z]
      BY <1>1, <3>4
    <3> QED
      BY <1>3, <1>5, <2>1, <3>2, <3>3, <3>5 DEF NewCarried
  <2>7. CASE e = f
    <3>1. src \in {x, y, z} /\ dst \in {x, y, z}
      BY <1>1, <1>4, <2>2, <2>7, Route DEF x, y, z
    <3>2. d \notin gone
      BY <1>5, <2>3, <3>1
    <3>3. q'[a] = q[a] /\ q'[b] = q[b] /\ q'[c] = q[c]
      BY <1>1, <2>5, <3>1
    <3> QED
      BY <1>1, <1>3, <1>5, <2>1, <3>2, <3>3 DEF NewCarried
  <2> QED
    BY <1>1, <2>6, <2>7
<1>16. ASSUME NEW r \in Relays, AtEnd(r, f) \/ Breaks(r, f) PROVE FALSE
  BY <1>4, <1>5, <1>6, <1>16 DEF AtEnd, Breaks
<1>17. ASSUME BridgeEnds(d) PROVE relay'["proxy"][d] = "on" /\ ended'[d] # "end" /\ NewCarried
  <2>1. /\ relay' = [relay EXCEPT !["bridge"][d] = "done"]
        /\ fin' = [fin EXCEPT ![Dst("bridge", d)] = IF fin[Dst("bridge", d)] = "open" THEN "end" ELSE fin[Dst("bridge", d)]]
        /\ UNCHANGED <<q, deaf, closed, sent, got, ended, quit, gone>>
        /\ AtEnd("bridge", d) \/ Breaks("bridge", d)
    BY <1>17 DEF BridgeEnds, Done
  <2>2. d = "up" /\ q[a] = <<>> /\ d \in quit /\ Dst("bridge", d) = b
    BY <1>5, <1>6, <1>7, <2>1 DEF AtEnd, Breaks
  <2>3. /\ relay'["bridge"][d] = "done" /\ relay'["proxy"][d] = "on"
        /\ relay'["bridge"][f] = "on" /\ relay'["proxy"][f] = "on"
    BY <1>1, <1>4, <1>5, <2>1, <1>17 DEF TInv, TypeOK, BridgeEnds, Done
  <2>4. \A l \in Lines : l # b => fin'[l] = fin[l]
    BY <2>1, <2>2 DEF TInv, TypeOK
  <2> QED
    BY <1>1, <1>3, <1>5, <2>1, <2>2, <2>3, <2>4 DEF NewCarried
<1>18. ASSUME PipeEnds(d) PROVE relay'["proxy"][d] = "done" /\ ended'[d] # "end" /\ Over(d)'
  <2>1. /\ AtEnd("proxy", d) \/ Breaks("proxy", d)
        /\ CloseSocket(Dst("proxy", d)[1], d)
        /\ UNCHANGED <<closed, sent, got, ended, quit, gone>>
        /\ relay' = [relay EXCEPT !["proxy"][d] = "done"]
    BY <1>18 DEF PipeEnds, Done
  <2>2. relay'["proxy"][d] = "done" /\ relay'["bridge"][d] = relay["bridge"][d]
    BY <1>4, <2>1 DEF TInv, TypeOK
  <2>3. PICK how : Shuts(Dst("proxy", d), <<Dst("proxy", d)[1], f>>, how)
    <3>1. Dst("proxy", d)[1] \in Hops /\ <<Dst("proxy", d)[1], d>> = Dst("proxy", d)
      BY Route DEF Relays
    <3> QED
      BY <2>1, <3>1, Shutting DEF TInv, f
  <2>4. <<Dst("proxy", d)[1], f>> \notin {a, b, c}
    BY <1>1, Lanes DEF a, b, c
  <2>5. CASE d = "up"
    <3>1. q[b] = <<>> /\ fin[b] # "open"
      BY <1>5, <1>6, <2>1, <2>5 DEF AtEnd, Breaks
    <3>2. relay["bridge"][d] = "done" /\ q[a] = <<>> /\ d \in quit /\ Dst("proxy", d) = c
      BY <1>5, <1>6, <2>5, <3>1
    <3>3. sent[d] = got[d] + Len(q[c])
      BY <1>1, <1>4, <1>5, <3>1, <3>2
    <3>4. /\ ~deaf'[c] /\ fin'[c] = how /\ how \in {"end", "reset"}
          /\ how = "end" => q'[c] = q[c]
      BY <1>1, <1>5, <2>3, <2>4, <3>2 DEF Shuts
    <3> QED
      BY <1>3, <2>1, <2>2, <3>2, <3>3, <3>4 DEF Over, c
  <2>6. CASE d = "down"
    <3>1. q[a] = <<>> /\ fin[a] # "open" /\ d \in quit /\ relay["bridge"][d] = "on"
          /\ Dst("proxy", d) = b /\ b[1] = "unix"
      BY <1>5, <1>6, <1>7, <2>1, <2>6 DEF AtEnd, Breaks, b, Middle
    <3>2. sent[d] = got[d] + Len(q[c]) + Len(q[b])
      BY <1>1, <1>4, <1>5, <3>1
    <3>3. /\ how = "end" /\ q'[b] = q[b] /\ q'[c] = q[c] /\ fin'[b] # "open" /\ fin'[c] = "open"
          /\ ~deaf'[b] /\ ~deaf'[c]
      BY <1>1, <1>5, <2>3, <2>4, <3>1 DEF Shuts
    <3> QED
      BY <1>3, <1>5, <2>1, <2>2, <2>6, <3>1, <3>2, <3>3 DEF Over, b, c
  <2> QED
    BY <1>3, <1>6, <2>1, <2>2, <2>5, <2>6
<1> QED
  <2>1. \A e \in Directions : ~BridgeEnds(f) /\ ~PipeEnds(f)
    BY <1>16 DEF BridgeEnds, PipeEnds, Relays
  <2> QED
    BY <1>1, <1>9, <1>10, <1>11, <1>12, <1>13, <1>14, <1>15, <1>17, <1>18, <2>1 DEF Next, Relaying, Relays

\* Behind the end of the proxy's part nothing is lost but to a reset.
LEMMA OverOn ==
    ASSUME TInv, Next, NEW d \in Directions, Whole(d), Due(d)', relay["proxy"][d] = "done"
    PROVE  /\ relay'["proxy"][d] = "done" /\ Over(d)'
           /\ ended'[d] = "end" => got'[d] = sent'[d]
<1> DEFINE f == Flip(d)
           a == Entry(d)
           b == Middle(d)
           c == Outlet(d)
           x == Entry(f)
           y == Middle(f)
           z == Outlet(f)
<1>1. /\ {a, b, c, x, y, z} \subseteq Lines
      /\ a # b /\ a # c /\ b # c /\ x # y /\ x # z /\ y # z
      /\ \A l \in {a, b, c} : l \notin {x, y, z}
      /\ LinesOf(d) = {a, b, c} /\ LinesOf(f) = {x, y, z}
      /\ Directions = {d, f} /\ f # d /\ Flip(f) = d
  BY Six
<1>2. Due(d) /\ ~Shutdown(f) /\ ~Gone(f)
  BY DueBefore
<1>3. Over(d) /\ (ended[d] = "end" => got[d] = sent[d])
  BY <1>1, <1>2 DEF Whole
<1>4. /\ \A l \in Lines : q[l] \in Seq(1..MaxBytes) /\ Len(q[l]) \in Nat
      /\ got[d] \in Nat /\ sent[d] \in Nat
      /\ f \in Directions /\ Len(<<>>) = 0
      /\ \A r \in Relays, e \in Directions : relay[r][e] \in {"on", "done"}
      /\ Relays = {"bridge", "proxy"}
      /\ \A l \in Lines : fin[l] \in {"open", "end", "reset"}
  BY <1>1, EmptySeq DEF TInv, TypeOK, Relays
<1> DEFINE Towards == /\ relay["bridge"][d] = "on" /\ d = "down" /\ ~closed /\ ~deaf[b]
                      /\ fin[c] = "open" /\ fin[b] # "open"
                      /\ sent[d] = got[d] + Len(q[c]) + Len(q[b])
           Behind == /\ relay["bridge"][d] = "done" /\ fin[c] # "open"
                     /\ fin[c] = "reset" \/ sent[d] = got[d] + Len(q[c])
           NewTowards == /\ relay'["bridge"][d] = "on" /\ d = "down" /\ ~closed' /\ ~deaf'[b]
                         /\ fin'[c] = "open" /\ fin'[b] # "open"
                         /\ sent'[d] = got'[d] + Len(q'[c]) + Len(q'[b])
           NewBehind == /\ relay'["bridge"][d] = "done" /\ fin'[c] # "open"
                        /\ fin'[c] = "reset" \/ sent'[d] = got'[d] + Len(q'[c])
<1>5. d \in quit /\ ~deaf[c] /\ (Towards \/ Behind)
  BY <1>3 DEF Over
<1>6. d \in quit' /\ ~deaf'[c] /\ (NewTowards \/ NewBehind) => Over(d)'
  BY DEF Over
<1>7. /\ d = "up" => /\ Src("bridge", d) = a /\ Dst("bridge", d) = b
                     /\ Src("proxy", d) = b /\ Dst("proxy", d) = c
                     /\ Src("proxy", f) = x /\ Dst("proxy", f) = y
                     /\ Src("bridge", f) = y /\ Dst("bridge", f) = z
                     /\ c = <<"target", d>> /\ z = <<"client", f>>
      /\ d = "down" => /\ Src("proxy", d) = a /\ Dst("proxy", d) = b
                       /\ Src("bridge", d) = b /\ Dst("bridge", d) = c
                       /\ Src("bridge", f) = x /\ Dst("bridge", f) = y
                       /\ Src("proxy", f) = y /\ Dst("proxy", f) = z
                       /\ c = <<"client", d>> /\ z = <<"target", f>>
      /\ d = "up" \/ d = "down"
      /\ b = <<"unix", d>> /\ y = <<"unix", f>> /\ <<a[1], d>> = a /\ <<a[1], Flip(d)>> = z
  BY <1>1, <1>4, Routes, Six DEF Middle
<1>8. PICK g \in Nat, k \in Nat, m \in Nat : g = got[d] /\ k = Len(q[c]) /\ m = Len(q[b])
  BY <1>1, <1>4
<1> DEFINE Stays == /\ relay'["proxy"][d] = "done"
                    /\ d \in quit' /\ ~deaf'[c] /\ (NewTowards \/ NewBehind)
                    /\ ended'[d] = "end" => got'[d] = sent'[d]
<1> HIDE DEF Towards, Behind, NewTowards, NewBehind
<1> SUFFICES Stays
  BY <1>6
<1> HIDE DEF a, b, c, x, y, z, f, Stays
\* Nothing that concerns these lines changes.
<1>9. ASSUME quit \subseteq quit', relay'["proxy"][d] = "done", relay'["bridge"][d] = relay["bridge"][d],
             closed' = closed, UNCHANGED <<sent, got, ended>>,
             deaf'[c] = deaf[c], fin'[c] = fin[c], q'[c] = q[c],
             d = "down" => deaf'[b] = deaf[b] /\ fin'[b] = fin[b] /\ q'[b] = q[b]
      PROVE  Stays
  <2>1. Towards => NewTowards
    BY <1>9 DEF Towards, NewTowards
  <2>2. Behind => NewBehind
    BY <1>9 DEF Behind, NewBehind
  <2> QED
    BY <1>3, <1>5, <1>9, <2>1, <2>2 DEF Stays
<1>10. ASSUME HandleEnds PROVE Stays
  <2>1. /\ ~closed /\ relay["bridge"][d] = "done" /\ closed' = TRUE
        /\ CloseSocket("client", "down") /\ UNCHANGED <<relay, sent, got, ended, quit, gone>>
    BY <1>10 DEF HandleEnds
  <2>2. PICK how : Shuts(<<"client", "down">>, <<"client", "up">>, how)
    <3>1. "client" \in Hops /\ "down" \in Directions /\ Flip("down") = "up"
      BY DEF Hops, Directions, Flip
    <3> QED
      BY <2>1, <3>1, Shutting DEF TInv
  <2>3. Behind
    BY <1>5, <2>1 DEF Towards
  <2>4. c # <<"client", "up">>
    BY <1>7
  <2>5. ~deaf'[c]
    BY <1>1, <1>5, <2>2, <2>4 DEF Shuts
  <2>6. NewBehind
    <3>1. CASE c = <<"client", "down">>
      <4>1. /\ fin'[c] = IF how = "reset" THEN "reset" ELSE fin[c]
            /\ how \in {"end", "reset"} /\ (how = "end" => q'[c] = q[c])
        BY <2>2, <2>3, <3>1 DEF Shuts, Behind
      <4> QED
        BY <2>1, <2>3, <4>1 DEF Behind, NewBehind
    <3>2. CASE c # <<"client", "down">>
      <4>1. fin'[c] = fin[c] /\ q'[c] = q[c]
        BY <1>1, <2>2, <2>4, <3>2 DEF Shuts
      <4> QED
        BY <2>1, <2>3, <4>1 DEF Behind, NewBehind
    <3> QED
      BY <3>1, <3>2
  <2> QED
    BY <1>3, <1>5, <2>1, <2>5, <2>6 DEF Stays
<1>11. ASSUME FrameGoes PROVE Stays
  <2>1. /\ closed /\ CloseSocket("unix", "up") /\ UNCHANGED <<relay, closed, sent, got, ended, quit, gone>>
    BY <1>11 DEF FrameGoes
  <2>2. PICK how : Shuts(<<"unix", "up">>, <<"unix", "down">>, how)
    <3>1. "unix" \in Hops /\ "up" \in Directions /\ Flip("up") = "down"
      BY DEF Hops, Directions, Flip
    <3> QED
      BY <2>1, <3>1, Shutting DEF TInv
  <2>3. Behind
    BY <1>5, <2>1 DEF Towards
  <2>4. c # <<"unix", "up">> /\ c # <<"unix", "down">>
    BY <1>7
  <2>5. deaf'[c] = deaf[c] /\ fin'[c] = fin[c] /\ q'[c] = q[c]
    BY <1>1, <2>2, <2>4 DEF Shuts
  <2>6. NewBehind
    BY <2>1, <2>3, <2>5 DEF Behind, NewBehind
  <2> QED
    BY <1>3, <1>5, <2>1, <2>5, <2>6 DEF Stays
<1>12. ASSUME NEW e \in Directions, Shutdown(e) PROVE Stays
  <2>1. e = d
    BY <1>1, <1>2, <1>12
  <2> QED
    BY <1>5, <1>12, <2>1 DEF Shutdown
<1>13. ASSUME NEW e \in Directions, Send(e) PROVE Stays
  <2>1. /\ e \notin quit /\ sent' = [sent EXCEPT ![e] = sent[e] + 1]
        /\ q' = IF deaf[Entry(e)] THEN q ELSE [q EXCEPT ![Entry(e)] = Append(q[Entry(e)], sent[e] + 1)]
        /\ UNCHANGED <<fin, deaf, relay, closed, got, ended, quit, gone>>
    BY <1>13 DEF Send
  <2>2. e = f /\ sent'[d] = sent[d]
    BY <1>1, <1>5, <2>1 DEF TInv, TypeOK
  <2>3. q'[c] = q[c] /\ q'[b] = q[b]
    BY <1>1, <2>1, <2>2 DEF x, TInv, TypeOK
  <2>4. Towards => NewTowards
    BY <2>1, <2>2, <2>3 DEF Towards, NewTowards
  <2>5. Behind => NewBehind
    BY <2>1, <2>2, <2>3 DEF Behind, NewBehind
  <2> QED
    BY <1>3, <1>5, <2>1, <2>2, <2>4, <2>5 DEF Stays
<1>14. ASSUME NEW e \in Directions, Receive(e) PROVE Stays
  <2>1. /\ ended[e] = "no" /\ q[Outlet(e)] # <<>> /\ q' = [q EXCEPT ![Outlet(e)] = Tail(q[Outlet(e)])]
        /\ got' = [got EXCEPT ![e] = got[e] + 1]
        /\ UNCHANGED <<fin, deaf, relay, closed, sent, ended, quit, gone>>
    BY <1>14, ReceiveKeeps DEF Receive
  <2>2. CASE e = d
    <3>1. /\ Len(q'[c]) = k - 1 /\ got'[d] = g + 1 /\ q'[b] = q[b]
      BY <1>1, <1>4, <1>8, <2>1, <2>2, HeadTailProperties DEF c, TInv, TypeOK
    <3>2. g + k + m = (g + 1) + (k - 1) + m /\ g + k = (g + 1) + (k - 1)
      OBVIOUS
    <3>3. Towards => NewTowards
      BY <1>8, <2>1, <3>1, <3>2 DEF Towards, NewTowards
    <3>4. Behind => NewBehind
      BY <1>8, <2>1, <3>1, <3>2 DEF Behind, NewBehind
    <3> QED
      BY <1>5, <2>1, <2>2, <3>3, <3>4 DEF Stays
  <2>3. CASE e = f
    <3>1. got'[d] = got[d] /\ q'[c] = q[c] /\ q'[b] = q[b]
      BY <1>1, <2>1, <2>3 DEF z, TInv, TypeOK
    <3>3. Towards => NewTowards
      BY <2>1, <3>1 DEF Towards, NewTowards
    <3>4. Behind => NewBehind
      BY <2>1, <3>1 DEF Behind, NewBehind
    <3> QED
      BY <1>3, <1>5, <2>1, <3>1, <3>3, <3>4 DEF Stays
  <2> QED
    BY <1>1, <2>2, <2>3
\* The end is read: nothing is before it.
<1>15. ASSUME NEW e \in Directions, ReceiveEnd(e) PROVE Stays
  <2>1. /\ q[Outlet(e)] = <<>> /\ fin[Outlet(e)] # "open" /\ ended' = [ended EXCEPT ![e] = fin[Outlet(e)]]
        /\ UNCHANGED <<q, fin, deaf, relay, closed, sent, got, quit, gone>>
    BY <1>15 DEF ReceiveEnd
  <2>2. (Towards => NewTowards) /\ (Behind => NewBehind)
    BY <2>1 DEF Towards, Behind, NewTowards, NewBehind
  <2>3. CASE e = d
    <3>1. Behind /\ Len(q[c]) = 0 /\ ended'[d] = fin[c]
      BY <1>1, <1>4, <1>5, <2>1, <2>3 DEF Towards, c, TInv, TypeOK
    <3>2. ended'[d] = "end" => got'[d] = sent'[d]
      BY <1>4, <2>1, <3>1 DEF Behind
    <3> QED
      BY <1>5, <2>1, <2>2, <3>2 DEF Stays
  <2>4. CASE e = f
    <3>1. ended'[d] = ended[d]
      BY <1>1, <2>1, <2>4 DEF TInv, TypeOK
    <3> QED
      BY <1>3, <1>5, <2>1, <2>2, <3>1 DEF Stays
  <2> QED
    BY <1>1, <2>3, <2>4
<1>16. ASSUME NEW e \in Directions, Gone(e) PROVE Stays
  <2>1. /\ e = d /\ quit' = quit \cup {d} /\ CloseSocket(a[1], d) /\ UNCHANGED <<relay, closed, sent, got, ended>>
    BY <1>1, <1>2, <1>16 DEF Gone, a
  <2>2. PICK how : Shuts(a, z, how)
    BY <1>7, <2>1, Shutting, Lanes DEF TInv, a
  <2>3. /\ deaf'[c] = deaf[c] /\ fin'[c] = fin[c] /\ q'[c] = q[c]
        /\ deaf'[b] = deaf[b] /\ fin'[b] = fin[b] /\ q'[b] = q[b]
    BY <1>1, <2>2 DEF Shuts
  <2> QED
    BY <1>9, <2>1, <2>3
<1>17. ASSUME NEW e \in Directions, NEW r \in Relays, Forward(r, e) PROVE Stays
  <2>1. /\ q[Src(r, e)] # <<>> /\ relay[r][e] = "on" /\ fin[Dst(r, e)] = "open"
        /\ q' = [q EXCEPT ![Src(r, e)] = Tail(q[Src(r, e)]), ![Dst(r, e)] = Append(q[Dst(r, e)], Head(q[Src(r, e)]))]
        /\ UNCHANGED <<fin, deaf, relay, closed, sent, got, ended, quit, gone>>
    BY <1>17 DEF Forward
  <2>2. PICK src \in Lines, dst \in Lines : src = Src(r, e) /\ dst = Dst(r, e) /\ src # dst
    BY Route, Lanes DEF LinesOf
  <2>3. q[src] # <<>> /\ q' = [q EXCEPT ![src] = Tail(q[src]), ![dst] = Append(q[dst], Head(q[src]))]
    BY <2>1, <2>2
  <2>4. /\ Head(q[src]) \in 1..MaxBytes /\ Len(Tail(q[src])) = Len(q[src]) - 1
        /\ Len(Append(q[dst], Head(q[src]))) = Len(q[dst]) + 1
    <3>1. Head(q[src]) \in 1..MaxBytes /\ Len(Tail(q[src])) = Len(q[src]) - 1
      BY <1>4, <2>3, HeadTailProperties
    <3> QED
      BY <1>4, <3>1, AppendProperties
  <2>5. /\ Len(q'[src]) = Len(q[src]) - 1 /\ Len(q'[dst]) = Len(q[dst]) + 1
        /\ \A l \in Lines : l # src /\ l # dst => q'[l] = q[l]
    BY <2>2, <2>3, <2>4 DEF TInv, TypeOK
  <2>6. CASE e = d
    <3>1. r = "bridge" /\ relay["bridge"][d] = "on"
      BY <1>4, <2>1, <2>6
    <3>2. Towards /\ src = b /\ dst = c
      BY <1>5, <1>7, <2>2, <2>6, <3>1 DEF Towards, Behind
    <3>3. g + k + m = g + (k + 1) + (m - 1)
      OBVIOUS
    <3>4. Len(q'[b]) = m - 1 /\ Len(q'[c]) = k + 1
      BY <1>8, <2>5, <3>2
    <3>5. NewTowards
      BY <1>8, <2>1, <3>2, <3>3, <3>4 DEF Towards, NewTowards
    <3> QED
      BY <1>3, <1>5, <2>1, <3>5 DEF Stays
  <2>7. CASE e = f
    <3>1. src \in {x, y, z} /\ dst \in {x, y, z}
      BY <1>1, <1>4, <2>2, <2>7, Route DEF x, y, z
    <3>2. q'[b] = q[b] /\ q'[c] = q[c]
      BY <1>1, <2>5, <3>1
    <3> QED
      BY <1>9, <2>1, <3>2
  <2> QED
    BY <1>1, <2>6, <2>7
<1>18. ASSUME NEW e \in Directions, BridgeEnds(e) PROVE Stays
  <2>1. /\ relay' = [relay EXCEPT !["bridge"][e] = "done"]
        /\ fin' = [fin EXCEPT ![Dst("bridge", e)] = IF fin[Dst("bridge", e)] = "open" THEN "end" ELSE fin[Dst("bridge", e)]]
        /\ UNCHANGED <<q, deaf, closed, sent, got, ended, quit, gone>>
        /\ relay["bridge"][e] = "on"
        /\ (AtEnd("bridge", e) \/ Breaks("bridge", e))
    BY <1>18 DEF BridgeEnds, Done, AtEnd, Breaks
  <2>2. relay'["proxy"][d] = "done"
    BY <1>4, <2>1 DEF TInv, TypeOK
  <2>3. CASE e = d
    <3>1. Towards /\ Dst("bridge", d) = c /\ Src("bridge", d) = b
      BY <1>5, <1>7, <2>1, <2>3 DEF Towards, Behind
    <3>2. q[b] = <<>>
      BY <1>5, <2>1, <2>3, <3>1 DEF Towards, AtEnd, Breaks
    <3>3. relay'["bridge"][d] = "done" /\ fin'[c] = "end"
      BY <1>1, <1>4, <2>1, <2>3, <3>1 DEF TInv, TypeOK, Towards
    <3>4. sent[d] = got[d] + Len(q[c])
      BY <1>1, <1>4, <3>1, <3>2 DEF Towards
    <3>5. NewBehind
      BY <2>1, <3>3, <3>4 DEF NewBehind
    <3> QED
      BY <1>3, <1>5, <2>1, <2>2, <3>5 DEF Stays
  <2>4. CASE e = f
    <3>1. Dst("bridge", f) \in {x, y, z}
      BY <1>1, <1>4, Route DEF x, y, z
    <3>2. fin'[b] = fin[b] /\ fin'[c] = fin[c] /\ relay'["bridge"][d] = relay["bridge"][d]
      BY <1>1, <1>4, <2>1, <2>4, <3>1 DEF TInv, TypeOK
    <3> QED
      BY <1>9, <2>1, <2>2, <3>2
  <2> QED
    BY <1>1, <2>3, <2>4
<1>19. ASSUME NEW e \in Directions, PipeEnds(e) PROVE Stays
  <2>1. /\ CloseSocket(Dst("proxy", e)[1], e)
        /\ relay["proxy"][e] = "on"
        /\ UNCHANGED <<closed, sent, got, ended, quit, gone>>
        /\ relay' = [relay EXCEPT !["proxy"][e] = "done"]
    BY <1>19 DEF PipeEnds, Done, AtEnd, Breaks
  <2>2. e = f
    BY <1>1, <2>1
  <2>3. relay'["proxy"][d] = "done" /\ relay'["bridge"][d] = relay["bridge"][d]
    BY <1>1, <1>4, <2>1, <2>2 DEF TInv, TypeOK
  <2>4. PICK how : Shuts(Dst("proxy", f), <<Dst("proxy", f)[1], d>>, how)
    <3>1. Dst("proxy", f)[1] \in Hops /\ <<Dst("proxy", f)[1], f>> = Dst("proxy", f)
      BY <1>4, Route DEF Relays
    <3> QED
      BY <1>1, <1>4, <2>1, <2>2, <3>1, Shutting DEF TInv
  <2>5. /\ Dst("proxy", f) \in {x, y, z}
        /\ <<Dst("proxy", f)[1], d>> = IF d = "up" THEN b ELSE a
    <3>1. Dst("proxy", f) \in {x, y, z}
      BY <1>1, <1>4, Route DEF x, y, z
    <3>2. CASE d = "up"
      BY <1>7, <3>1, <3>2
    <3>3. CASE d = "down"
      BY <1>7, <3>1, <3>3 DEF a, Entry
    <3> QED
      BY <1>7, <3>1, <3>2, <3>3
  <2>6. /\ deaf'[c] = deaf[c] /\ fin'[c] = fin[c] /\ q'[c] = q[c]
        /\ d = "down" => deaf'[b] = deaf[b] /\ fin'[b] = fin[b] /\ q'[b] = q[b]
    BY <1>1, <2>4, <2>5 DEF Shuts
  <2> QED
    BY <1>9, <2>1, <2>3, <2>6
<1> QED
  BY <1>10, <1>11, <1>12, <1>13, <1>14, <1>15, <1>16, <1>17, <1>18, <1>19 DEF Next, Relaying, Relays

\* Together: every step of the Tunnel keeps it.
LEMMA WholeStep == ASSUME TInv, Next, NEW d \in Directions, Whole(d) PROVE Whole(d)'
<1> SUFFICES ASSUME Due(d)'
             PROVE  /\ IF relay'["proxy"][d] = "on" THEN Carried(d)' ELSE Over(d)'
                    /\ ended'[d] = "end" => got'[d] = sent'[d] /\ relay'["proxy"][d] = "done"
  BY DEF Whole
<1>1. relay["proxy"][d] \in {"on", "done"}
  BY DEF TInv, TypeOK, Relays
<1> QED
  BY <1>1, CarriedOn, OverOn

\* Both directions.
AllWhole == \A d \in Directions : Whole(d)

LEMMA WholeInit == ASSUME Init, NEW d \in Directions PROVE Whole(d)
<1> DEFINE f == Flip(d)
<1>1. f \in Directions /\ LinesOf(d) \subseteq Lines /\ LinesOf(f) \subseteq Lines
  BY Lanes
<1>2. /\ \A l \in Lines : q[l] = <<>> /\ fin[l] = "open" /\ ~deaf[l]
      /\ \A r \in Relays, e \in Directions : relay[r][e] = "on"
      /\ ~closed /\ sent[d] = 0 /\ got[d] = 0 /\ gone = {} /\ ended[d] = "no"
      /\ "bridge" \in Relays /\ "proxy" \in Relays
  BY DEF Init, Relays
<1> HIDE DEF f
<1>3. /\ \A l \in LinesOf(d) : ~deaf[l] /\ q[l] = <<>> /\ fin[l] = "open"
      /\ \A l \in LinesOf(f) : ~deaf[l] /\ fin[l] = "open"
  BY <1>1, <1>2
<1>4. /\ sent[d] = got[d] + Len(q[Outlet(d)]) + Len(q[Middle(d)]) + Len(q[Entry(d)])
      /\ fin[Outlet(d)] = "open" /\ fin[Middle(d)] = "open"
  <2>1. q[Outlet(d)] = <<>> /\ q[Middle(d)] = <<>> /\ q[Entry(d)] = <<>> /\ Len(<<>>) = 0
    BY <1>3, EmptySeq DEF LinesOf
  <2>2. fin[Outlet(d)] = "open" /\ fin[Middle(d)] = "open"
    BY <1>3 DEF LinesOf
  <2> QED
    BY <1>2, <2>1, <2>2
<1>5. Carried(d)
  BY <1>1, <1>2, <1>3, <1>4 DEF Carried, f
<1> QED
  BY <1>2, <1>5 DEF Whole

LEMMA WholeStutter == ASSUME UNCHANGED vars, NEW d \in Directions, Whole(d) PROVE Whole(d)'
<1>1. UNCHANGED <<q, fin, deaf, relay, closed, sent, got, ended, quit, gone>>
  BY DEF vars
<1>2. (Due(d)' <=> Due(d)) /\ (Over(d)' <=> Over(d))
  BY <1>1 DEF Due, Over
<1>3. Carried(d)' <=> Carried(d)
  BY <1>1 DEF Carried
<1> QED
  BY <1>1, <1>2, <1>3 DEF Whole

\* Where all is whole, no end is read too early.
LEMMA WholeIsWhole == TInv /\ AllWhole => NoSilentTruncation
<1> SUFFICES ASSUME TInv, NEW d \in Directions, Whole(d), ended[d] = "end", got[d] < sent[d],
                    Flip(d) \notin quit, ~(d \in gone /\ got[Flip(d)] < sent[Flip(d)])
             PROVE  FALSE
  BY DEF NoSilentTruncation, AllWhole
<1>1. Flip(d) \in Directions
  BY Lanes
<1>2. got[Flip(d)] \in Nat /\ sent[Flip(d)] \in Nat /\ got[d] \in Nat /\ sent[d] \in Nat
  BY <1>1 DEF TInv, TypeOK
<1>3. Due(d)
  BY <1>2 DEF Due
<1> QED
  BY <1>2, <1>3 DEF Whole

\* Whoever reads an end and no error has all that was sent, unless it had ended
\* its own direction or the sender left something unread: in the Tunnel always,
\* and in the Bridge as long as its process lives (relay and handle in
\* bridge.py, pipe in proxy.py).
THEOREM EndsAreWhole == (Spec => []NoSilentTruncation) /\ (BSpec => []CleanEndIsWhole)
<1>1. Init => AllWhole
  BY WholeInit DEF AllWhole
<1>2. TInv /\ AllWhole /\ [Next]_vars => AllWhole'
  BY WholeStep, WholeStutter DEF AllWhole
<1>3. Spec => []NoSilentTruncation
  BY <1>1, <1>2, WholeIsWhole, TunnelInvariant, PTL DEF Spec
<1> DEFINE Lives == bridge # "dead" => AllWhole
<1>4. BInit => Lives
  BY <1>1 DEF BInit
<1>5. TInv /\ Lives /\ [BNext]_allvars => Lives'
  <2>1. UNCHANGED allvars => UNCHANGED <<vars, bridge>>
    BY DEF allvars, bvars
  <2>2. LoopDies => bridge' = "dead"
    BY DEF LoopDies
  <2>3. BNext /\ bridge' # "dead" => bridge # "dead"
    BY DEF BNext, Starts, ShellGoesOn, Connect, Accept, LoopDies, DialUnix, InTunnel, bvars
  <2> QED
    BY <1>2, <2>1, <2>2, <2>3, BridgeSteps
<1>6. TInv /\ Lives => CleanEndIsWhole
  BY WholeIsWhole DEF CleanEndIsWhole
<1>7. BSpec => []CleanEndIsWhole
  BY <1>4, <1>5, <1>6, TunnelInvariant, PTL DEF BSpec
<1> QED
  BY <1>3, <1>7
=============================================================================
