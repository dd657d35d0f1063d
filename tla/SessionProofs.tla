--------------------------- MODULE SessionProofs ---------------------------
(* Proofs about Session, for any finite set of sessions of every kind, and  *)
(* any set of targets.                                                     *)
EXTENDS Session, SequenceTheorems, FiniteSetTheorems, TLAPS

KindSet ==
    [backend : {"bwrap", "seatbelt"}, audit : {"no", "traced", "network"},
     proxied : BOOLEAN, filtered : BOOLEAN]

-----------------------------------------------------------------------------
(* The contexts of a session.                                              *)

\* A listing of members of S, none of them twice.
Listing(S, list) ==
    /\ list \in Seq(S)
    /\ \A i, j \in 1..Len(list) : list[i] = list[j] => i = j

\* Two listings of disjoint sets make one.
LEMMA ListingConcat ==
    ASSUME NEW U, NEW S \in SUBSET U, NEW T \in SUBSET U, S \cap T = {},
           NEW s, NEW t, Listing(S, s), Listing(T, t)
    PROVE  /\ Listing(U, s \o t)
           /\ Len(s \o t) = Len(s) + Len(t)
           /\ \A i \in 1..Len(s) : (s \o t)[i] = s[i]
           /\ \A i \in 1..Len(t) : (s \o t)[Len(s) + i] = t[i]
<1>1. s \in Seq(U) /\ t \in Seq(U)
  BY SeqMonotonic DEF Listing
<1>2. Len(s) \in Nat /\ Len(t) \in Nat
  BY <1>1
<1>3. /\ s \o t \in Seq(U)
      /\ Len(s \o t) = Len(s) + Len(t)
      /\ \A i \in 1..Len(s) + Len(t) : (s \o t)[i] = IF i <= Len(s) THEN s[i] ELSE t[i - Len(s)]
  BY <1>1, ConcatProperties
<1>4. ASSUME NEW i \in 1..Len(t) PROVE (s \o t)[Len(s) + i] = t[i]
  BY <1>2, <1>3
<1>5. (\A i \in 1..Len(s) : s[i] \in S) /\ (\A i \in 1..Len(t) : t[i] \in T)
  BY ElementOfSeq DEF Listing
<1>6. ASSUME NEW i \in 1..Len(s) + Len(t), NEW j \in 1..Len(s) + Len(t), (s \o t)[i] = (s \o t)[j]
      PROVE  i = j
  <2>1. (i <= Len(s) /\ i \in 1..Len(s)) \/ (i > Len(s) /\ i - Len(s) \in 1..Len(t))
    BY <1>2
  <2>2. (j <= Len(s) /\ j \in 1..Len(s)) \/ (j > Len(s) /\ j - Len(s) \in 1..Len(t))
    BY <1>2
  <2>3. CASE i <= Len(s) /\ j <= Len(s)
    BY <1>3, <1>6, <2>1, <2>2, <2>3 DEF Listing
  <2>4. CASE i > Len(s) /\ j > Len(s)
    <3>1. t[i - Len(s)] = t[j - Len(s)]
      BY <1>2, <1>3, <1>6, <2>4
    <3>2. i - Len(s) = j - Len(s)
      BY <1>2, <2>1, <2>2, <2>4, <3>1 DEF Listing
    <3> QED
      BY <1>2, <3>2
  <2>5. CASE (i <= Len(s) /\ j > Len(s)) \/ (j <= Len(s) /\ i > Len(s))
    BY <1>2, <1>3, <1>5, <1>6, <2>1, <2>2, <2>5
  <2> QED
    BY <1>2, <2>3, <2>4, <2>5
<1> QED
  BY <1>2, <1>3, <1>4, <1>6 DEF Listing

\* A list that may be left out.
LEMMA ListingWhen ==
    ASSUME NEW S, NEW list, Listing(S, list), NEW c \in BOOLEAN
    PROVE  Listing(S, When(c, list)) /\ Len(When(c, list)) \in {0, Len(list)}
<1>1. CASE c
  BY <1>1 DEF When
<1>2. CASE ~c
  <2>1. When(c, list) = <<>> /\ Len(<<>>) = 0 /\ <<>> \in Seq(S)
    BY <1>2, EmptySeq DEF When
  <2> QED
    BY <2>1 DEF Listing
<1> QED
  BY <1>1, <1>2

\* Lists of one and of three contexts.
LEMMA ListingOne ==
    ASSUME NEW x
    PROVE  Listing({x}, <<x>>) /\ Len(<<x>>) = 1 /\ <<x>>[1] = x
BY DEF Listing

LEMMA ListingThree ==
    ASSUME NEW x, NEW y, NEW z, x # y, x # z, y # z
    PROVE  Listing({x, y, z}, <<x, y, z>>) /\ Len(<<x, y, z>>) = 3
BY DEF Listing

\* What an audit enters around the run: its sink first.
LEMMA OuterContexts ==
    ASSUME NEW k \in KindSet
    PROVE  /\ Listing({"sink", "trace"}, Outer(k))
           /\ k.audit # "no" => Len(Outer(k)) > 0 /\ Outer(k)[1] = "sink"
<1> DEFINE s == When(k.audit # "no", <<"sink">>)
           t == When(k.audit = "traced", <<"trace">>)
<1>1. Listing({"sink"}, s) /\ Listing({"trace"}, t)
  BY ListingOne, ListingWhen
<1>2. Len(t) \in Nat
  BY <1>1, LenProperties DEF Listing
<1>3. k.audit # "no" => Len(s) = 1 /\ s[1] = "sink"
  BY DEF When
<1>4. {"sink"} \subseteq {"sink", "trace"} /\ {"trace"} \subseteq {"sink", "trace"} /\ {"sink"} \cap {"trace"} = {}
  OBVIOUS
<1> HIDE DEF s, t
<1>5. /\ Listing({"sink", "trace"}, s \o t) /\ Len(s \o t) = Len(s) + Len(t)
      /\ \A i \in 1..Len(s) : (s \o t)[i] = s[i]
  BY <1>1, <1>4, ListingConcat
<1>6. Outer(k) = s \o t
  BY DEF Outer, s, t
<1>7. ASSUME k.audit # "no" PROVE Len(Outer(k)) > 0 /\ Outer(k)[1] = "sink"
  BY <1>2, <1>3, <1>5, <1>6, <1>7
<1> QED
  BY <1>5, <1>6, <1>7

Within == {"workdir", "handler", "proxy", "filter", "scratch", "profile"}

\* What a backend enters: bwrap opens the log file just before the proxy.
LEMMA InnerContexts ==
    ASSUME NEW k \in KindSet
    PROVE  /\ Listing(Within, Inner(k))
           /\ k.backend = "bwrap" =>
                \A i \in 1..Len(Inner(k)) : Inner(k)[i] = "proxy" => i = 3 /\ Inner(k)[2] = "handler"
<1>1. CASE k.backend = "bwrap"
  <2> DEFINE s == When(Widened(k), <<"workdir", "handler", "proxy">>)
             t == When(k.filtered, <<"filter">>)
  <2>1. Listing({"workdir", "handler", "proxy"}, s) /\ Listing({"filter"}, t)
    <3>1. Listing({"workdir", "handler", "proxy"}, <<"workdir", "handler", "proxy">>)
      BY ListingThree
    <3>2. Widened(k) \in BOOLEAN /\ k.filtered \in BOOLEAN
      BY DEF Widened, KindSet
    <3> QED
      BY <3>1, <3>2, ListingOne, ListingWhen
  <2>2. /\ Len(s) \in {0, 3} /\ Len(t) \in {0, 1}
        /\ Len(s) = 3 => s[1] = "workdir" /\ s[2] = "handler" /\ s[3] = "proxy"
        /\ \A i \in 1..Len(t) : t[i] = "filter"
    BY DEF When
  <2>3. /\ {"workdir", "handler", "proxy"} \in SUBSET Within /\ {"filter"} \in SUBSET Within
        /\ {"workdir", "handler", "proxy"} \cap {"filter"} = {}
    BY DEF Within
  <2>4. Inner(k) = s \o t
    BY <1>1 DEF Inner
  <2> HIDE DEF s, t
  <2>5. /\ Listing(Within, s \o t)
        /\ Len(s \o t) = Len(s) + Len(t)
        /\ \A i \in 1..Len(s) : (s \o t)[i] = s[i]
        /\ \A i \in 1..Len(t) : (s \o t)[Len(s) + i] = t[i]
    <3>1. Listing(Within, s \o t)
      BY <2>1, <2>2, <2>3, ListingConcat
    <3>4. Len(s \o t) = Len(s) + Len(t)
      BY <2>1, <2>2, <2>3, ListingConcat
    <3>2. \A i \in 1..Len(s) : (s \o t)[i] = s[i]
      BY <2>1, <2>3, ListingConcat
    <3>3. \A i \in 1..Len(t) : (s \o t)[Len(s) + i] = t[i]
      BY <2>1, <2>2, <2>3, ListingConcat
    <3> QED
      BY <3>1, <3>2, <3>3, <3>4
  <2>6. ASSUME NEW i \in 1..Len(s) + Len(t), (s \o t)[i] = "proxy" PROVE i = 3 /\ (s \o t)[2] = "handler"
    <3>1. i <= Len(s) \/ (i = Len(s) + 1 /\ Len(t) = 1)
      <4>1. CASE Len(s) = 0
        BY <2>2, <4>1
      <4>2. CASE Len(s) = 3
        BY <2>2, <4>2
      <4> QED
        BY <2>2, <4>1, <4>2
    <3>2. CASE i <= Len(s)
      <4>1. (s \o t)[i] = s[i]
        BY <2>2, <2>5, <3>2
      <4> QED
        BY <2>2, <2>5, <2>6, <3>2, <4>1
    <3>3. CASE i = Len(s) + 1 /\ Len(t) = 1
      BY <2>2, <2>5, <2>6, <3>3
    <3> QED
      BY <3>1, <3>2, <3>3
  <2> QED
    BY <2>4, <2>5, <2>6
<1>2. CASE k.backend # "bwrap"
  <2> DEFINE t == When(Widened(k), <<"proxy">>)
  <2>1. Listing({"scratch"}, <<"scratch">>) /\ Listing({"proxy"}, t) /\ Listing({"profile"}, <<"profile">>)
    BY ListingOne, ListingWhen DEF Widened
  <2>2. Inner(k) = (<<"scratch">> \o t) \o <<"profile">>
    BY <1>2 DEF Inner
  <2> HIDE DEF t
  <2>3. Listing({"scratch", "proxy"}, <<"scratch">> \o t)
    <3>1. {"scratch"} \in SUBSET {"scratch", "proxy"} /\ {"proxy"} \in SUBSET {"scratch", "proxy"}
          /\ {"scratch"} \cap {"proxy"} = {}
      OBVIOUS
    <3> QED
      BY <2>1, <3>1, ListingConcat
  <2>4. Listing(Within, Inner(k))
    <3>1. {"scratch", "proxy"} \in SUBSET Within /\ {"profile"} \in SUBSET Within
          /\ {"scratch", "proxy"} \cap {"profile"} = {}
      BY DEF Within
    <3> QED
      BY <2>1, <2>2, <2>3, <3>1, ListingConcat
  <2> QED
    BY <1>2, <2>4
<1> QED
  BY <1>1, <1>2

\* The plan of a session lists no context twice. The proxy comes after the
\* audit's contexts, its sink included, and in a bwrap run after the log file.
IsPlan(k, plan) ==
    /\ Listing(Contexts, plan)
    /\ Len(Outer(k)) \in 0..Len(plan)
    /\ k.audit # "no" => Len(Outer(k)) > 0 /\ plan[1] = "sink"
    /\ \A i \in 1..Len(plan) : plan[i] = "proxy" =>
         /\ i > Len(Outer(k))
         /\ k.backend = "bwrap" => i > 1 /\ plan[i - 1] = "handler"

LEMMA PlanContexts ==
    ASSUME NEW k \in KindSet
    PROVE  IsPlan(k, Outer(k) \o Inner(k))
<1> DEFINE s == Outer(k)
           t == Inner(k)
           p == s \o t
<1>1. /\ Listing({"sink", "trace"}, s) /\ (k.audit # "no" => Len(s) > 0 /\ s[1] = "sink")
      /\ Listing(Within, t)
      /\ k.backend = "bwrap" => \A i \in 1..Len(t) : t[i] = "proxy" => i = 3 /\ t[2] = "handler"
  BY OuterContexts, InnerContexts
<1>2. /\ {"sink", "trace"} \in SUBSET Contexts /\ Within \in SUBSET Contexts
      /\ {"sink", "trace"} \cap Within = {}
  BY DEF Within, Contexts
<1>3. Len(s) \in Nat /\ Len(t) \in Nat /\ \A i \in 1..Len(s) : s[i] \in {"sink", "trace"}
  BY <1>1, ElementOfSeq DEF Listing
<1> HIDE DEF s, t
<1>4. /\ Listing(Contexts, p) /\ Len(p) = Len(s) + Len(t)
      /\ \A i \in 1..Len(s) : p[i] = s[i]
      /\ \A i \in 1..Len(t) : p[Len(s) + i] = t[i]
  <2>1. Listing({"sink", "trace"}, s) /\ Listing(Within, t)
    BY <1>1
  <2>2. Listing(Contexts, p)
    BY <1>2, <2>1, ListingConcat
  <2>5. Len(p) = Len(s) + Len(t)
    BY <1>2, <1>3, <2>1, ListingConcat
  <2>3. \A i \in 1..Len(s) : p[i] = s[i]
    BY <1>2, <2>1, ListingConcat
  <2>4. \A i \in 1..Len(t) : p[Len(s) + i] = t[i]
    BY <1>2, <1>3, <2>1, ListingConcat
  <2> QED
    BY <2>2, <2>3, <2>4, <2>5
<1> HIDE DEF p
<1>5. ASSUME NEW i \in 1..Len(p), p[i] = "proxy"
      PROVE  i > Len(s) /\ (k.backend = "bwrap" => i > 1 /\ p[i - 1] = "handler")
  <2>1. i > Len(s) /\ i - Len(s) \in 1..Len(t)
    BY <1>3, <1>4, <1>5
  <2>2. t[i - Len(s)] = "proxy"
    BY <1>3, <1>4, <1>5, <2>1
  <2>3. ASSUME k.backend = "bwrap" PROVE i > 1 /\ p[i - 1] = "handler"
    <3>1. i - Len(s) = 3 /\ t[2] = "handler" /\ 2 \in 1..Len(t)
      BY <1>1, <1>3, <2>1, <2>2, <2>3
    <3>2. p[Len(s) + 2] = "handler" /\ Len(s) + 2 = i - 1
      BY <1>3, <1>4, <2>1, <3>1
    <3> QED
      BY <1>3, <2>1, <3>1, <3>2
  <2> QED
    BY <2>1, <2>3
<1>6. k.audit # "no" => p[1] = "sink"
  BY <1>1, <1>3, <1>4
<1> QED
  BY <1>1, <1>3, <1>4, <1>5, <1>6 DEF IsPlan, s, t, p

-----------------------------------------------------------------------------
(***************************************************************************)
(* The inductive invariant. What a session has entered is the beginning of *)
(* its plan, and it holds what it has entered and, if it failed, perhaps   *)
(* its proxy. Where a session is tells how much of its plan can be left,   *)
(* and a record is in the log file, in the sink and in the report from     *)
(* where it must be.                                                       *)
(***************************************************************************)
Entered(s, c) == \E i \in 1..Depth(s) : stack[s][i] = c

StackPhase(s) ==
    /\ Depth(s) \in 0..Len(Plan(s))
    /\ \A i \in 1..Depth(s) : stack[s][i] = Plan(s)[i] /\ stack[s][i] \in held[s]
    /\ \A c \in held[s] : Entered(s, c) \/ (c = "proxy" /\ failed[s])

PointPhase(s) ==
    /\ pc[s] \in {"reading", "unwinding", "done"} => Depth(s) <= Len(Outer(kind[s]))
    /\ pc[s] = "done" => Depth(s) = 0
    /\ pc[s] = "reading" => ~failed[s] /\ kind[s].audit # "no"

RecordPhase(s, t) ==
    /\ record[<<s, t>>] = "no" => journal[<<s, t>>] = 0
    /\ record[<<s, t>>] = "timely" =>
         /\ kind[s].backend = "bwrap" => journal[<<s, t>>] > 0
         /\ kind[s].audit # "no" =>
              /\ <<s, t>> \in hosts[s]
              /\ pc[s] \in {"unwinding", "done"} /\ ~failed[s] => <<s, t>> \in report[s]

SInv ==
    /\ TypeOK
    /\ \A s \in Sessions : StackPhase(s) /\ PointPhase(s)
    /\ \A s \in Sessions, t \in Targets : RecordPhase(s, t)

\* The plan of a session in a state of the specification.
LEMMA PlanOf ==
    ASSUME TypeOK, NEW s \in Sessions
    PROVE  IsPlan(kind[s], Plan(s)) /\ Plan(s) \in Seq(Contexts) /\ Len(Plan(s)) \in Nat
<1>1. kind[s] \in KindSet
  BY KindsAssumption DEF TypeOK, KindSet
<1>2. IsPlan(kind[s], Plan(s))
  BY <1>1, PlanContexts DEF Plan
<1> QED
  BY <1>2, LenProperties DEF IsPlan, Listing

\* No session has entered anything, and nothing is on record.
LEMMA SInit == Init => SInv
<1> SUFFICES ASSUME Init PROVE SInv
  OBVIOUS
<1>1. Cardinality(Sessions) \in Nat
  BY SessionsAssumption, FS_CardinalityType
<1>2. TypeOK
  BY <1>1 DEF Init, TypeOK, Points, Records
<1>3. ASSUME NEW s \in Sessions PROVE StackPhase(s) /\ PointPhase(s)
  <2>1. Depth(s) = 0 /\ held[s] = {} /\ pc[s] = "entering"
    BY DEF Init, Depth
  <2> QED
    BY <1>2, <2>1, PlanOf DEF StackPhase, PointPhase
<1>4. ASSUME NEW s \in Sessions, NEW t \in Targets PROVE RecordPhase(s, t)
  BY DEF Init, RecordPhase, Records
<1> QED
  BY <1>2, <1>3, <1>4 DEF SInv

-----------------------------------------------------------------------------
(* The steps of a session's thread.                                        *)

\* What a step of one thread leaves alone of the other sessions, and of all.
Apart(s) ==
    /\ \A x \in Sessions : x # s =>
         /\ pc'[x] = pc[x] /\ stack'[x] = stack[x] /\ held'[x] = held[x] /\ failed'[x] = failed[x]
         /\ report'[x] = report[x]
    /\ UNCHANGED <<kind, Logs>>

\* So only the invariant of the thread's own session is at stake.
LEMMA ApartKeeps ==
    ASSUME SInv, NEW s \in Sessions, Apart(s), TypeOK', StackPhase(s)', PointPhase(s)',
           \A t \in Targets : RecordPhase(s, t)'
    PROVE  SInv'
<1>1. ASSUME NEW x \in Sessions, x # s
      PROVE  /\ StackPhase(x)' /\ PointPhase(x)'
             /\ \A t \in Targets : RecordPhase(x, t)'
  <2>1. /\ pc'[x] = pc[x] /\ stack'[x] = stack[x] /\ held'[x] = held[x] /\ failed'[x] = failed[x]
        /\ report'[x] = report[x] /\ UNCHANGED <<kind, hosts, journal, record>>
    BY <1>1 DEF Apart, Logs
  <2>2. StackPhase(x)'
    BY <2>1 DEF SInv, StackPhase, Depth, Plan, Entered
  <2>3. PointPhase(x)'
    BY <2>1 DEF SInv, PointPhase, Depth
  <2>4. ASSUME NEW t \in Targets PROVE RecordPhase(x, t)'
    BY <2>1 DEF SInv, RecordPhase
  <2> QED
    BY <2>2, <2>3, <2>4
<1> QED
  BY <1>1 DEF SInv

\* A thread that neither enters nor leaves a context.
LEMMA MoveKeeps ==
    ASSUME SInv, NEW s \in Sessions, Spawn(s) \/ CommandEnds(s) \/ Left(s) \/ Read(s) \/ Return(s)
    PROVE  SInv'
<1>1. /\ Apart(s) /\ UNCHANGED <<kind, stack, held, failed, hosts, journal, record>>
      /\ pc'[s] \in Points /\ pc' = [pc EXCEPT ![s] = pc'[s]]
      /\ report' \in [Sessions -> SUBSET Records]
  <2>1. UNCHANGED <<kind, stack, held, failed, hosts, journal, record>>
    BY DEF Spawn, CommandEnds, Left, Read, Return, Logs
  <2>2. PICK p \in {"running", "leaving", "unwinding", "reading", "done"} : pc' = [pc EXCEPT ![s] = p]
    BY DEF Spawn, CommandEnds, Left, Read, Return
  <2>3. \A x \in Sessions : report'[x] = IF x = s THEN report'[x] ELSE report[x]
    BY DEF SInv, TypeOK, Spawn, CommandEnds, Left, Read, Return
  <2>4. report' \in [Sessions -> SUBSET Records]
    BY DEF SInv, TypeOK, Spawn, CommandEnds, Left, Read, Return
  <2>5. pc'[s] = p /\ \A x \in Sessions : x # s => pc'[x] = pc[x]
    BY <2>2 DEF SInv, TypeOK
  <2> QED
    BY <2>1, <2>2, <2>3, <2>4, <2>5 DEF Apart, Logs, Points
<1>2. TypeOK'
  <2>1. spawned' \in [Sessions -> BOOLEAN]
    BY DEF SInv, TypeOK, Spawn, CommandEnds, Left, Read, Return
  <2> QED
    BY <1>1, <2>1 DEF SInv, TypeOK, Logs
<1>3. StackPhase(s)'
  BY <1>1 DEF SInv, StackPhase, Depth, Plan, Entered
<1>4. PointPhase(s)'
  BY <1>1 DEF SInv, TypeOK, PointPhase, Depth, Spawn, CommandEnds, Left, Read, Return
<1>5. ASSUME NEW t \in Targets PROVE RecordPhase(s, t)'
  <2>1. RecordPhase(s, t) /\ PointPhase(s)
    BY DEF SInv
  <2>2. ASSUME pc'[s] \in {"unwinding", "done"}, ~failed[s], kind[s].audit # "no",
               record[<<s, t>>] = "timely"
        PROVE  <<s, t>> \in report'[s]
    <3>1. <<s, t>> \in hosts[s]
      BY <2>1, <2>2 DEF RecordPhase
    <3>2. CASE Read(s)
      BY <3>1, <3>2 DEF SInv, TypeOK, Read
    <3>3. CASE Left(s)
      BY <2>2, <3>3 DEF SInv, TypeOK, Left
    <3>4. CASE Return(s)
      BY <2>1, <2>2, <3>4 DEF RecordPhase, Return
    <3>5. CASE Spawn(s) \/ CommandEnds(s)
      BY <2>2, <3>5 DEF SInv, TypeOK, Spawn, CommandEnds
    <3> QED
      BY <3>2, <3>3, <3>4, <3>5
  <2> QED
    BY <1>1, <2>1, <2>2 DEF RecordPhase, Logs
<1> QED
  BY <1>1, <1>2, <1>3, <1>4, <1>5, ApartKeeps

\* The next context of the plan is entered, and held.
LEMMA EnterKeeps ==
    ASSUME SInv, NEW s \in Sessions, Enter(s)
    PROVE  SInv'
<1> DEFINE c == Plan(s)[Depth(s) + 1]
<1>1. /\ TypeOK /\ StackPhase(s) /\ PointPhase(s) /\ IsPlan(kind[s], Plan(s))
      /\ Plan(s) \in Seq(Contexts) /\ Len(Plan(s)) \in Nat
  BY PlanOf DEF SInv
<1>2. /\ pc[s] = "entering" /\ Depth(s) < Len(Plan(s))
      /\ stack' = [stack EXCEPT ![s] = Append(stack[s], c)]
      /\ held' = [held EXCEPT ![s] = held[s] \cup {c}]
      /\ UNCHANGED <<kind, pc, failed, spawned, report, hosts, journal, record>>
  BY DEF Enter, Logs
<1>3. Depth(s) \in Nat /\ stack[s] \in Seq(Contexts) /\ c \in Contexts
  <2>1. Depth(s) \in Nat /\ Depth(s) + 1 \in 1..Len(Plan(s))
    BY <1>1, <1>2 DEF StackPhase
  <2> QED
    BY <1>1, <2>1, ElementOfSeq DEF TypeOK
<1>4. /\ stack'[s] = Append(stack[s], c) /\ stack'[s] \in Seq(Contexts) /\ Depth(s)' = Depth(s) + 1
      /\ \A i \in 1..Depth(s) : stack'[s][i] = stack[s][i]
      /\ stack'[s][Depth(s) + 1] = c
      /\ held'[s] = held[s] \cup {c} /\ Plan(s)' = Plan(s)
  BY <1>1, <1>2, <1>3, AppendProperties DEF TypeOK, Depth, Plan
<1> HIDE DEF c
<1>5. TypeOK'
  BY <1>1, <1>2, <1>3, <1>4 DEF TypeOK
<1>6. Apart(s)
  BY <1>1, <1>2 DEF TypeOK, Apart, Logs
<1>7. StackPhase(s)'
  <2>1. Depth(s)' \in 0..Len(Plan(s)')
    BY <1>1, <1>2, <1>3, <1>4
  <2>2. ASSUME NEW i \in 1..Depth(s)'
        PROVE  stack'[s][i] = Plan(s)'[i] /\ stack'[s][i] \in held'[s]
    <3>1. i \in 1..Depth(s) \/ i = Depth(s) + 1
      BY <1>3, <1>4
    <3> QED
      BY <1>1, <1>4, <3>1 DEF StackPhase, c
  <2>3. ASSUME NEW x \in held'[s]
        PROVE  Entered(s, x)' \/ (x = "proxy" /\ failed'[s])
    <3>1. CASE x = c
      <4>1. Depth(s) + 1 \in 1..Depth(s)' /\ stack'[s][Depth(s) + 1] = x
        BY <1>3, <1>4, <3>1
      <4> QED
        BY <4>1 DEF Entered
    <3>2. CASE x \in held[s] /\ ~(x = "proxy" /\ failed[s])
      <4>1. PICK i \in 1..Depth(s) : stack[s][i] = x
        BY <1>1, <3>2 DEF StackPhase, Entered
      <4>2. stack'[s][i] = x
        BY <1>4, <4>1
      <4>3. i \in 1..Depth(s)'
        BY <1>3, <1>4
      <4> QED
        BY <4>2, <4>3 DEF Entered
    <3> QED
      BY <1>2, <1>4, <3>1, <3>2
  <2> QED
    BY <2>1, <2>2, <2>3 DEF StackPhase
<1>8. PointPhase(s)' /\ \A t \in Targets : RecordPhase(s, t)'
  BY <1>2 DEF SInv, PointPhase, RecordPhase
<1> QED
  BY <1>5, <1>6, <1>7, <1>8, ApartKeeps

\* A failure holds nothing more, except perhaps a proxy that started too late.
LEMMA FailKeeps ==
    ASSUME SInv, NEW s \in Sessions, Fail(s)
    PROVE  SInv'
<1>1. TypeOK /\ StackPhase(s) /\ PointPhase(s)
  BY DEF SInv
<1>2. /\ pc[s] \in {"entering", "running"} /\ pc' = [pc EXCEPT ![s] = "leaving"]
      /\ failed' = [failed EXCEPT ![s] = TRUE]
      /\ held' = held \/ held' = [held EXCEPT ![s] = held[s] \cup {"proxy"}]
      /\ UNCHANGED <<kind, stack, spawned, report, hosts, journal, record>>
  BY DEF Fail, Logs
<1>3. TypeOK' /\ Apart(s)
  <2>1. held' \in [Sessions -> SUBSET Contexts] /\ \A x \in Sessions : x # s => held'[x] = held[x]
    <3>1. CASE held' = held
      BY <1>1, <3>1 DEF TypeOK
    <3>2. CASE held' = [held EXCEPT ![s] = held[s] \cup {"proxy"}]
      BY <1>1, <3>2 DEF TypeOK, Contexts
    <3> QED
      BY <1>2, <3>1, <3>2
  <2>2. pc' \in [Sessions -> Points] /\ failed' \in [Sessions -> BOOLEAN]
    BY <1>1, <1>2 DEF TypeOK, Points
  <2>3. \A x \in Sessions : x # s => pc'[x] = pc[x] /\ failed'[x] = failed[x]
    BY <1>1, <1>2 DEF TypeOK
  <2>4. TypeOK'
    BY <1>1, <1>2, <2>1, <2>2 DEF TypeOK
  <2> QED
    BY <1>2, <2>1, <2>3, <2>4 DEF Apart, Logs
<1>4. StackPhase(s)'
  <2>1. held'[s] = held[s] \/ held'[s] = held[s] \cup {"proxy"}
    BY <1>1, <1>2 DEF TypeOK
  <2>2. failed'[s] /\ Depth(s)' = Depth(s) /\ Plan(s)' = Plan(s)
    BY <1>1, <1>2 DEF TypeOK, Depth, Plan
  <2> QED
    BY <1>1, <1>2, <2>1, <2>2 DEF StackPhase, Entered
<1>5. PointPhase(s)'
  BY <1>1, <1>2 DEF TypeOK, PointPhase
<1>6. ASSUME NEW t \in Targets PROVE RecordPhase(s, t)'
  BY <1>1, <1>2 DEF SInv, TypeOK, RecordPhase
<1> QED
  BY <1>3, <1>4, <1>5, <1>6, ApartKeeps

\* The innermost context is left, and nothing else, for the plan lists no
\* context twice; a proxy that is not stopped fails the session.
LEMMA LeaveKeeps ==
    ASSUME SInv, NEW s \in Sessions, Leave(s)
    PROVE  SInv'
<1> DEFINE n == Depth(s) - 1
<1>1. /\ TypeOK /\ StackPhase(s) /\ PointPhase(s) /\ IsPlan(kind[s], Plan(s))
      /\ Plan(s) \in Seq(Contexts) /\ Len(Plan(s)) \in Nat
  BY PlanOf DEF SInv
<1>2. /\ pc[s] \in {"leaving", "unwinding"} /\ Depth(s) > 0
      /\ stack' = [stack EXCEPT ![s] = SubSeq(stack[s], 1, n)]
      /\ \/ held' = [held EXCEPT ![s] = held[s] \ {Leaf(s)}] /\ failed' = failed
         \/ Leaf(s) = "proxy" /\ failed' = [failed EXCEPT ![s] = TRUE] /\ held' = held
      /\ UNCHANGED <<kind, pc, spawned, report, hosts, journal, record>>
  BY DEF Leave, Logs
<1>3. stack[s] \in Seq(Contexts) /\ Depth(s) \in Nat /\ Len(stack[s]) = Depth(s) /\ n \in 0..Depth(s)
  BY <1>1, <1>2 DEF TypeOK, StackPhase, Depth
<1>4. /\ stack'[s] = SubSeq(stack[s], 1, n) /\ stack'[s] \in Seq(Contexts)
      /\ Depth(s)' = n /\ \A i \in 1..n : stack'[s][i] = stack[s][i]
      /\ Plan(s)' = Plan(s)
  <2>1. \A i \in 1..n : stack[s][i] \in Contexts
    BY <1>3, ElementOfSeq
  <2>2. /\ SubSeq(stack[s], 1, n) \in Seq(Contexts)
        /\ Len(SubSeq(stack[s], 1, n)) = IF 1 <= n THEN n - 1 + 1 ELSE 0
        /\ \A i \in 1..n - 1 + 1 : SubSeq(stack[s], 1, n)[i] = stack[s][1 + i - 1]
    BY <1>3, <2>1, SubSeqProperties
  <2>3. stack'[s] = SubSeq(stack[s], 1, n)
    BY <1>1, <1>2 DEF TypeOK
  <2>4. \A i \in 1..n : i \in 1..n - 1 + 1 /\ 1 + i - 1 = i
    BY <1>3
  <2>5. Len(SubSeq(stack[s], 1, n)) = n
    BY <1>3, <2>2
  <2> QED
    BY <1>2, <2>2, <2>3, <2>4, <2>5 DEF Depth, Plan
<1>5. TypeOK'
  BY <1>1, <1>2, <1>4 DEF TypeOK
<1>6. Apart(s)
  BY <1>1, <1>2 DEF TypeOK, Apart, Logs
<1>7. Leaf(s) = Plan(s)[Depth(s)] /\ \A i \in 1..n : stack[s][i] # Leaf(s)
  <2>1. ASSUME NEW i \in 1..n PROVE Plan(s)[i] # Plan(s)[Depth(s)]
    BY <1>1, <1>3 DEF IsPlan, Listing, StackPhase
  <2> QED
    BY <1>1, <1>2, <1>3, <2>1 DEF StackPhase, Leaf
<1>8. StackPhase(s)'
  <2>1. Depth(s)' \in 0..Len(Plan(s)')
    BY <1>1, <1>3, <1>4 DEF StackPhase
  <2>2. ASSUME NEW i \in 1..Depth(s)'
        PROVE  stack'[s][i] = Plan(s)'[i] /\ stack'[s][i] \in held'[s]
    <3>1. i \in 1..Depth(s) /\ i \in 1..n
      BY <1>3, <1>4
    <3>2. stack[s][i] = Plan(s)[i] /\ stack[s][i] \in held[s] /\ stack[s][i] # Leaf(s)
      BY <1>1, <1>7, <3>1 DEF StackPhase
    <3>3. held'[s] = held[s] \ {Leaf(s)} \/ held'[s] = held[s]
      BY <1>1, <1>2 DEF TypeOK
    <3> QED
      BY <1>4, <3>1, <3>2, <3>3
  <2>3. ASSUME NEW c \in held'[s]
        PROVE  Entered(s, c)' \/ (c = "proxy" /\ failed'[s])
    <3>1. \/ held'[s] = held[s] \ {Leaf(s)} /\ failed'[s] = failed[s]
          \/ held'[s] = held[s] /\ Leaf(s) = "proxy" /\ failed'[s]
      <4>1. CASE held' = [held EXCEPT ![s] = held[s] \ {Leaf(s)}] /\ failed' = failed
        BY <1>1, <4>1 DEF TypeOK
      <4>2. CASE Leaf(s) = "proxy" /\ failed' = [failed EXCEPT ![s] = TRUE] /\ held' = held
        BY <1>1, <4>2 DEF TypeOK
      <4> QED
        BY <1>2, <4>1, <4>2
    <3>2. CASE c = Leaf(s) \/ (c = "proxy" /\ failed[s])
      BY <1>1, <2>3, <3>1, <3>2 DEF TypeOK
    <3>3. CASE c # Leaf(s) /\ ~(c = "proxy" /\ failed[s])
      <4>1. PICK i \in 1..Depth(s) : stack[s][i] = c
        BY <1>1, <2>3, <3>1, <3>3 DEF StackPhase, Entered
      <4>2. i \in 1..n
        BY <1>3, <3>3, <4>1 DEF Leaf
      <4>3. i \in 1..Depth(s)' /\ stack'[s][i] = c
        BY <1>4, <4>1, <4>2
      <4> QED
        BY <4>3 DEF Entered
    <3> QED
      BY <3>2, <3>3
  <2> QED
    BY <2>1, <2>2, <2>3 DEF StackPhase
<1>9. PointPhase(s)'
  <2>1. Len(Outer(kind[s])) \in Nat
    BY <1>1 DEF IsPlan
  <2>2. pc'[s] = pc[s] /\ kind'[s] = kind[s]
    BY <1>2
  <2> QED
    BY <1>1, <1>2, <1>3, <1>4, <2>1, <2>2 DEF PointPhase
<1>10. ASSUME NEW t \in Targets PROVE RecordPhase(s, t)'
  <2>1. failed'[s] = failed[s] \/ failed'[s]
    BY <1>1, <1>2 DEF TypeOK
  <2> QED
    BY <1>2, <2>1 DEF SInv, RecordPhase
<1> QED
  BY <1>5, <1>6, <1>8, <1>9, <1>10, ApartKeeps

\* A target is recorded: with the session's own log file and sink, if its proxy
\* has not been left, for those are around the proxy.
LEMMA LogKeeps ==
    ASSUME SInv, NEW s \in Sessions, NEW t \in Targets, Log(s, t)
    PROVE  SInv'
<1> DEFINE r == <<s, t>>
           open == {x \in Sessions : "handler" \in held[x]}
<1>1. /\ TypeOK /\ StackPhase(s) /\ PointPhase(s) /\ IsPlan(kind[s], Plan(s))
      /\ Plan(s) \in Seq(Contexts) /\ Len(Plan(s)) \in Nat /\ r \in Records
  BY PlanOf DEF SInv, Records
<1>2. /\ record[r] = "no"
      /\ record' = [record EXCEPT ![r] = IF Entered(s, "proxy") THEN "timely" ELSE "late"]
      /\ hosts' = [x \in Sessions |-> IF "sink" \in held[x] THEN hosts[x] \cup {r} ELSE hosts[x]]
      /\ journal' = [journal EXCEPT ![r] = journal[r] + Cardinality(open)]
      /\ UNCHANGED <<kind, pc, stack, held, failed, spawned, report>>
  BY DEF Log, Entered
<1>3. Cardinality(open) \in 0..Cardinality(Sessions) /\ (open # {} => Cardinality(open) > 0)
  <2>1. IsFiniteSet(open) /\ Cardinality(open) <= Cardinality(Sessions)
    BY SessionsAssumption, FS_Subset
  <2>2. Cardinality(open) \in Nat /\ Cardinality(Sessions) \in Nat
    BY <2>1, SessionsAssumption, FS_CardinalityType
  <2>3. Cardinality(open) = 0 <=> open = {}
    BY <2>1, FS_EmptySet
  <2> QED
    BY <2>1, <2>2, <2>3
<1>4. journal[r] = 0
  BY <1>2 DEF SInv, RecordPhase
<1>5. TypeOK'
  <2>1. journal' \in [Records -> 0..Cardinality(Sessions)]
    BY <1>1, <1>2, <1>3, <1>4 DEF TypeOK
  <2>2. hosts' \in [Sessions -> SUBSET Records]
    BY <1>1, <1>2 DEF TypeOK
  <2>3. record' \in [Records -> {"no", "timely", "late"}]
    BY <1>1, <1>2 DEF TypeOK
  <2> QED
    BY <1>1, <1>2, <2>1, <2>2, <2>3 DEF TypeOK
<1>6. ASSUME NEW x \in Sessions PROVE StackPhase(x)' /\ PointPhase(x)'
  BY <1>2 DEF SInv, StackPhase, PointPhase, Depth, Plan, Entered
<1>7. ASSUME NEW x \in Sessions, NEW y \in Targets, <<x, y>> # r PROVE RecordPhase(x, y)'
  <2>1. <<x, y>> \in Records /\ RecordPhase(x, y)
    BY DEF Records, SInv
  <2>2. record'[<<x, y>>] = record[<<x, y>>] /\ journal'[<<x, y>>] = journal[<<x, y>>]
    BY <1>1, <1>2, <1>7, <2>1 DEF TypeOK
  <2>3. hosts[x] \subseteq hosts'[x]
    BY <1>2
  <2> QED
    BY <1>2, <2>1, <2>2, <2>3 DEF RecordPhase
<1>8. RecordPhase(s, t)'
  <2>1. record'[r] # "no"
    BY <1>1, <1>2 DEF TypeOK
  <2>2. ASSUME record'[r] = "timely"
        PROVE  /\ kind[s].backend = "bwrap" => journal'[r] > 0
               /\ kind[s].audit # "no" => r \in hosts'[s] /\ pc[s] \notin {"unwinding", "done"}
    <3>1. PICK i \in 1..Depth(s) : stack[s][i] = "proxy"
      BY <1>1, <1>2, <2>2 DEF TypeOK, Entered
    <3>2. Depth(s) \in Nat /\ i \in 1..Len(Plan(s)) /\ Plan(s)[i] = "proxy"
      BY <1>1, <3>1 DEF StackPhase
    <3>3. i > Len(Outer(kind[s])) /\ Len(Outer(kind[s])) \in Nat
      BY <1>1, <3>2 DEF IsPlan
    <3>4. ASSUME kind[s].backend = "bwrap" PROVE journal'[r] > 0
      <4>1. i - 1 \in 1..Depth(s) /\ Plan(s)[i - 1] = "handler"
        BY <1>1, <3>2, <3>4 DEF IsPlan
      <4>2. "handler" \in held[s]
        BY <1>1, <4>1 DEF StackPhase
      <4>3. Cardinality(open) > 0
        BY <1>3, <4>2
      <4>4. journal'[r] = Cardinality(open)
        <5>1. journal'[r] = journal[r] + Cardinality(open)
          BY <1>1, <1>2 DEF TypeOK
        <5> HIDE DEF open
        <5> QED
          BY <1>3, <1>4, <5>1
      <4> QED
        BY <4>3, <4>4
    <3>5. ASSUME kind[s].audit # "no" PROVE r \in hosts'[s]
      <4>1. 1 \in 1..Depth(s) /\ Plan(s)[1] = "sink"
        BY <1>1, <3>1, <3>2, <3>5 DEF IsPlan
      <4>2. "sink" \in held[s]
        BY <1>1, <4>1 DEF StackPhase
      <4> QED
        BY <1>2, <4>2
    <3>6. pc[s] \notin {"unwinding", "done"}
      BY <1>1, <3>1, <3>2, <3>3 DEF PointPhase
    <3> QED
      BY <3>4, <3>5, <3>6
  <2> QED
    BY <1>2, <2>1, <2>2 DEF RecordPhase
<1>9. ASSUME NEW x \in Sessions, NEW y \in Targets PROVE RecordPhase(x, y)'
  <2>1. CASE <<x, y>> = r
    <3>1. x = s /\ y = t
      BY <2>1
    <3> QED
      BY <1>8, <3>1
  <2>2. CASE <<x, y>> # r
    BY <1>7, <2>2
  <2> QED
    BY <2>1, <2>2
<1> QED
  BY <1>5, <1>6, <1>9 DEF SInv

\* Every step preserves the invariant.
LEMMA SNext == SInv /\ [Next]_vars => SInv'
<1> SUFFICES ASSUME SInv, [Next]_vars PROVE SInv'
  OBVIOUS
<1>1. CASE UNCHANGED vars
  <2>1. UNCHANGED <<kind, pc, stack, held, failed, spawned, hosts, journal, record, report>>
    BY <1>1 DEF vars
  <2>2. TypeOK'
    BY <2>1 DEF SInv, TypeOK
  <2>3. ASSUME NEW s \in Sessions PROVE StackPhase(s)' /\ PointPhase(s)'
    BY <2>1 DEF SInv, StackPhase, PointPhase, Depth, Plan, Entered
  <2>4. ASSUME NEW s \in Sessions, NEW t \in Targets PROVE RecordPhase(s, t)'
    BY <2>1 DEF SInv, RecordPhase
  <2> QED
    BY <2>2, <2>3, <2>4 DEF SInv
<1>2. ASSUME NEW s \in Sessions, Thread(s) PROVE SInv'
  BY <1>2, EnterKeeps, FailKeeps, LeaveKeeps, MoveKeeps DEF Thread
<1>3. ASSUME NEW s \in Sessions, NEW t \in Targets, Log(s, t) PROVE SInv'
  BY <1>3, LogKeeps
<1> QED
  BY <1>1, <1>2, <1>3 DEF Next

\* In every state of every execution, the types and the invariant hold.
THEOREM SessionInvariant == Spec => []SInv
BY SInit, SNext, PTL DEF Spec

-----------------------------------------------------------------------------
(* What it says.                                                           *)

\* Whichever step failed, a session that is over holds no handler on the shared
\* logger, no directory and no file, and a proxy only if its caller was told.
THEOREM LeavesNothing == Spec => []NothingHeld
<1>1. SInv => NothingHeld
  <2> SUFFICES ASSUME SInv, NEW s \in Sessions, pc[s] = "done"
               PROVE  held[s] \subseteq {"proxy"} /\ (held[s] # {} => failed[s])
    BY DEF NothingHeld
  <2>1. StackPhase(s) /\ Depth(s) = 0
    BY DEF SInv, PointPhase
  <2>2. \A c : ~Entered(s, c)
    BY <2>1 DEF Entered
  <2> QED
    BY <2>1, <2>2 DEF StackPhase
<1> QED
  BY <1>1, SessionInvariant, PTL

\* Every target that a bwrap run's proxy recorded before it was left is in the
\* dated log file, whatever the other sessions do to the shared logger.
THEOREM FilesEveryRecord == Spec => []EveryRecordFiled
<1>1. SInv => EveryRecordFiled
  BY DEF SInv, RecordPhase, EveryRecordFiled
<1> QED
  BY <1>1, SessionInvariant, PTL

\* An audit that returns a report has every target of its command in it.
THEOREM ReportsOwnTargets == Spec => []OwnTargetsReported
<1>1. SInv => OwnTargetsReported
  BY DEF SInv, RecordPhase, OwnTargetsReported
<1> QED
  BY <1>1, SessionInvariant, PTL
=============================================================================
