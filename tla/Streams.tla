------------------------------- MODULE Streams -------------------------------
(***************************************************************************)
(* What a tunnel promises, whatever it is made of: two byte streams, one   *)
(* in each direction. What arrives was sent, in order, once. A direction   *)
(* that has ended delivers nothing more; it may end short of what was sent *)
(* (how short, and when, Tunnel says).                                     *)
(***************************************************************************)
EXTENDS Naturals

CONSTANTS Directions, MaxBytes

VARIABLES
    sent,   \* bytes sent so far, numbered from 1
    got,    \* how many of them have arrived
    ended   \* the receiver has seen the end

Init ==
    /\ sent = [d \in Directions |-> 0]
    /\ got = [d \in Directions |-> 0]
    /\ ended = [d \in Directions |-> FALSE]

Send(d) ==
    /\ sent[d] < MaxBytes
    /\ sent' = [sent EXCEPT ![d] = @ + 1]
    /\ UNCHANGED <<got, ended>>

Deliver(d) ==
    /\ got[d] < sent[d] /\ ~ended[d]
    /\ got' = [got EXCEPT ![d] = @ + 1]
    /\ UNCHANGED <<sent, ended>>

End(d) ==
    /\ ~ended[d]
    /\ ended' = [ended EXCEPT ![d] = TRUE]
    /\ UNCHANGED <<sent, got>>

Next == \E d \in Directions : Send(d) \/ Deliver(d) \/ End(d)

Spec == Init /\ [][Next]_<<sent, got, ended>>
=============================================================================
