----------------------------- MODULE Gatekeeper -----------------------------
(***************************************************************************)
(* What the proxy promises a connection, whatever its handler goes         *)
(* through: it is asked once, decides once and on what it was asked, and   *)
(* reaches a target only by deciding for it. It answers at most once, with *)
(* what was decided, passes bytes only from then on, and if it is on       *)
(* record, it is for that, a refusal that was answered at the latest when  *)
(* the connection is left. Then nothing about it changes.                  *)
(***************************************************************************)
EXTENDS Naturals

CONSTANTS Conns, Requests, NoReq, Targets, Allowed

VARIABLES
    asked,     \* the request of each connection
    verdict,   \* what was decided about it
    answer,    \* the status it was given, 0 before
    record,    \* what is on record about it
    reached,   \* there is a connection to its target
    passing,   \* bytes may pass to it
    left       \* the handler has returned

vars == <<asked, verdict, answer, record, reached, passing, left>>

Status(v) == CASE v = "ALLOW" -> 200
               [] v = "BLOCK" -> 403
               [] v = "FAIL"  -> 502
               [] OTHER       -> 400

\* The refusals a request may meet: any may come too late or be too large.
Refusals(r) ==
    {"DROP"} \cup (IF r \in Allowed THEN {"FAIL"} ELSE IF r \in Targets THEN {"BLOCK"} ELSE {"INVALID"})

Init ==
    /\ asked = [c \in Conns |-> NoReq]
    /\ verdict = [c \in Conns |-> "none"]
    /\ answer = [c \in Conns |-> 0]
    /\ record = [c \in Conns |-> "none"]
    /\ reached = [c \in Conns |-> FALSE]
    /\ passing = [c \in Conns |-> FALSE]
    /\ left = [c \in Conns |-> FALSE]

Undecided(c) == verdict[c] = "none" /\ ~left[c]

Ask(c) ==
    /\ Undecided(c) /\ asked[c] = NoReq
    /\ \E r \in Requests : asked' = [asked EXCEPT ![c] = r]
    /\ UNCHANGED <<verdict, answer, record, reached, passing, left>>

Refuse(c) ==
    /\ Undecided(c)
    /\ \E v \in Refusals(asked[c]) : verdict' = [verdict EXCEPT ![c] = v]
    /\ UNCHANGED <<asked, answer, record, reached, passing, left>>

Admit(c) ==
    /\ Undecided(c) /\ asked[c] \in Allowed
    /\ verdict' = [verdict EXCEPT ![c] = "ALLOW"]
    /\ record' = [record EXCEPT ![c] = "ALLOW"]
    /\ reached' = [reached EXCEPT ![c] = TRUE]
    /\ UNCHANGED <<asked, answer, passing, left>>

Answer(c) ==
    /\ verdict[c] # "none" /\ answer[c] = 0 /\ ~left[c]
    /\ answer' = [answer EXCEPT ![c] = Status(verdict[c])]
    /\ passing' = [passing EXCEPT ![c] = verdict[c] = "ALLOW"]
    /\ UNCHANGED <<asked, verdict, record, reached, left>>

Leave(c) ==
    /\ ~left[c]
    /\ left' = [left EXCEPT ![c] = TRUE]
    /\ record' = [record EXCEPT ![c] =
         IF answer[c] # 0 /\ verdict[c] # "INVALID" THEN verdict[c] ELSE @]
    /\ UNCHANGED <<asked, verdict, answer, reached, passing>>

Next == \E c \in Conns : Ask(c) \/ Refuse(c) \/ Admit(c) \/ Answer(c) \/ Leave(c)

Spec == Init /\ [][Next]_vars
=============================================================================
