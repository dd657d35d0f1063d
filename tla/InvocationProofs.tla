-------------------------- MODULE InvocationProofs --------------------------
(* Proofs about PolicyMerge and Invocation, for any profiles, requests and  *)
(* command lines.                                                          *)
EXTENDS Invocation, SequenceTheorems, WellFoundedInduction, TLAPS

-----------------------------------------------------------------------------
(* Sets of naturals: the least, the greatest, and induction. A library      *)
(* theorem about sets, not about an operator, is all they rest on.          *)

LEMMA LeastExists ==
    ASSUME NEW T \in SUBSET Nat, T # {}
    PROVE  \E x \in T : \A y \in T : x <= y
<1> DEFINE R == {ss \in Nat \X Nat : ss[1] < ss[2]}
<1>1. IsWellFoundedOn(R, Nat)
  BY NatLessThanWellFounded DEF OpToRel
<1>2. \A x, y \in Nat : y < x => <<y, x>> \in R
  OBVIOUS
<1> HIDE DEF R
<1>3. PICK x \in T : \A y \in T : <<y, x>> \notin R
  BY <1>1, WFMin
<1>4. ASSUME NEW y \in T PROVE x <= y
  <2>1. x \in Nat /\ y \in Nat /\ ~(y < x)
    BY <1>2, <1>3
  <2> QED
    BY <2>1
<1> QED
  BY <1>4

LEMMA Induction ==
    ASSUME NEW T, 0 \in T, \A n \in Nat : n \in T => n + 1 \in T
    PROVE  Nat \subseteq T
<1> SUFFICES ASSUME Nat \ T # {} PROVE FALSE
  OBVIOUS
<1>1. PICK x \in Nat \ T : \A y \in Nat \ T : x <= y
  BY LeastExists
<1>2. x - 1 \in Nat /\ x - 1 \in T
  BY <1>1
<1> QED
  BY <1>1, <1>2

LEMMA MaxIs ==
    ASSUME NEW S \in SUBSET Nat, NEW n \in S, \A m \in S : m <= n
    PROVE  Max(S) = n
<1>1. \A x \in S : (\A y \in S : x >= y) => x = n
  OBVIOUS
<1>2. \A y \in S : n >= y
  OBVIOUS
<1> QED
  BY <1>1, <1>2 DEF Max

LEMMA GreatestExists ==
    ASSUME NEW N \in Nat, NEW S \in SUBSET (1..N), S # {}
    PROVE  Max(S) \in S /\ \A y \in S : y <= Max(S)
<1> DEFINE T == {N - x : x \in S}
<1>1. T \in SUBSET Nat /\ T # {}
  <2>1. PICK z \in S : TRUE
    OBVIOUS
  <2>2. N - z \in T
    BY <2>1
  <2>3. ASSUME NEW x \in S PROVE N - x \in Nat
    BY <2>3
  <2> QED
    BY <2>2, <2>3
<1>2. PICK t \in T : \A y \in T : t <= y
  BY <1>1, LeastExists
<1>3. PICK x \in S : t = N - x
  BY <1>2
<1>4. \A y \in S : y <= x
  <2> SUFFICES ASSUME NEW y \in S PROVE y <= x
    OBVIOUS
  <2>1. t <= N - y
    BY <1>2
  <2> QED
    BY <1>3, <2>1
<1>5. S \in SUBSET Nat
  OBVIOUS
<1>6. Max(S) = x
  BY <1>4, <1>5, MaxIs
<1> QED
  BY <1>4, <1>6

LEMMA MinIs ==
    ASSUME NEW S \in SUBSET Nat, NEW n \in S, \A m \in S : n <= m
    PROVE  Min(S) = n
<1>1. \A x \in S : (\A y \in S : x <= y) => x = n
  OBVIOUS
<1> QED
  BY <1>1 DEF Min

LEMMA LeastIs ==
    ASSUME NEW S \in SUBSET Nat, S # {}
    PROVE  Min(S) \in S /\ \A y \in S : Min(S) <= y
<1>1. PICK x \in S : \A y \in S : x <= y
  BY LeastExists
<1>2. Min(S) = x
  BY <1>1, MinIs
<1> QED
  BY <1>1, <1>2

-----------------------------------------------------------------------------
(* The types of the merge. Before the values are expanded they are as       *)
(* written.                                                                *)

MergeType ==
    /\ TypeOK
    /\ stage \in {"layers", "project", "inline"} => env \in [Keys -> Raw \cup {Unset}]
    /\ stage = "layers" => last \in [Fields -> Raw \cup {Unset}]
    /\ stage \in {"project", "inline", "binds", "defaults", "resolved"} => last["home"] \in Paths \cup {Unset}

\* A step of the merge, of whatever layers it is given.
MergeAct ==
    \/ \E l \in LayerSet : MergeLayer(l) \/ LayerConflicts(l)
    \/ LayerBind \/ LayersMerged \/ Rest

\* The merge before its first step.
Start ==
    /\ request \in RequestSet
    /\ stage = "layers"
    /\ past = <<>> /\ todo = <<>> /\ asks = <<>>
    /\ binds = <<>>
    /\ env = [k \in Keys |-> Unset]
    /\ items = {}
    /\ network = "none"
    /\ last = [f \in Fields |-> Unset]

LEMMA Modes == NetworkModes = {"none", "proxy", "host"} /\ Unset \notin NetworkModes
BY LayersAssumption DEF NetworkModes

\* One layer more.
LEMMA MergeStep ==
    ASSUME past \in Seq(LayerSet), NEW l \in LayerSet
    PROVE  /\ Len(past) \in Nat /\ DOMAIN past = 1..Len(past)
           /\ Append(past, l) \in Seq(LayerSet) /\ Len(Append(past, l)) = Len(past) + 1
           /\ DOMAIN Append(past, l) = 1..Len(past) + 1
           /\ \A i \in 1..Len(past) : Append(past, l)[i] = past[i] /\ past[i] \in LayerSet
           /\ Append(past, l)[Len(past) + 1] = l
<1>1. Len(past) \in Nat /\ DOMAIN past = 1..Len(past)
  BY LenProperties
<1>2. \A i \in 1..Len(past) : past[i] \in LayerSet
  BY ElementOfSeq
<1>3. Append(past, l) \in Seq(LayerSet) /\ Len(Append(past, l)) = Len(past) + 1
  BY AppendProperties
<1>4. DOMAIN Append(past, l) = 1..Len(past) + 1
  BY <1>3, LenProperties
<1> QED
  BY <1>1, <1>2, <1>3, <1>4, AppendProperties

\* What _add_bind does to the list: a bind more at its end, or another in place
\* of the one of that source.
LEMMA BindAdded ==
    ASSUME binds \in Seq(Binds), asks \in Seq(Binds), NEW b \in Binds, NEW override, NEW next,
           AddBind(b, override, next)
    PROVE  /\ asks' = Append(asks, b) /\ asks' \in Seq(Binds) /\ binds' \in Seq(Binds)
           /\ stage' \in {next, "conflict"}
           /\ \/ /\ stage' = next /\ binds' = Append(binds, b)
                 /\ \A i \in 1..Len(binds) : binds[i].source # b.source
              \/ \E i \in 1..Len(binds) : \E c \in Binds :
                   /\ stage' = next /\ binds' = [binds EXCEPT ![i] = c]
                   /\ binds[i].source = b.source /\ c.source = b.source
                   /\ \/ /\ binds[i].mode = b.mode /\ c.mode = b.mode
                         /\ c.optional = (binds[i].optional /\ b.optional)
                      \/ binds[i].mode # b.mode /\ override /\ c = b
              \/ /\ stage' = "conflict" /\ ~override /\ binds' = binds
                 /\ \E i \in 1..Len(binds) : binds[i].source = b.source /\ binds[i].mode # b.mode
<1>1. asks' = Append(asks, b) /\ asks' \in Seq(Binds)
  BY AppendProperties DEF AddBind
<1>2. DOMAIN binds = 1..Len(binds)
  BY LenProperties
<1>3. CASE /\ \A i \in DOMAIN binds : binds[i].source # b.source
           /\ binds' = Append(binds, b) /\ stage' = next
  <2>1. binds' \in Seq(Binds)
    BY <1>3, AppendProperties
  <2> QED
    BY <1>1, <1>2, <1>3, <2>1
<1>4. ASSUME NEW i \in DOMAIN binds, First(i, b.source),
             binds[i].mode = b.mode, binds' = [binds EXCEPT ![i].optional = @ /\ b.optional], stage' = next
      PROVE  /\ binds' \in Seq(Binds)
             /\ \E c \in Binds :
                   /\ binds' = [binds EXCEPT ![i] = c]
                   /\ binds[i].source = b.source /\ c.source = b.source
                   /\ c.mode = b.mode /\ c.optional = (binds[i].optional /\ b.optional)
  <2> DEFINE c == [binds[i] EXCEPT !.optional = @ /\ b.optional]
  <2>1. binds[i] \in Binds
    BY <1>2, ElementOfSeq
  <2>2. (binds[i].optional /\ b.optional) \in BOOLEAN
    OBVIOUS
  <2>3. c \in Binds /\ c.source = binds[i].source /\ c.mode = binds[i].mode
        /\ c.optional = (binds[i].optional /\ b.optional)
    BY <2>1, <2>2 DEF Binds
  <2>4. binds' = [binds EXCEPT ![i] = c]
    BY <1>4
  <2> HIDE DEF c
  <2>5. binds' \in Seq(Binds)
    BY <1>2, <2>3, <2>4, ExceptSeq
  <2>6. binds[i].source = b.source
    BY <1>4 DEF First
  <2> QED
    BY <1>4, <2>3, <2>4, <2>5, <2>6
<1>5. ASSUME NEW i \in DOMAIN binds, First(i, b.source),
             binds[i].mode # b.mode, override, binds' = [binds EXCEPT ![i] = b], stage' = next
      PROVE  binds' \in Seq(Binds) /\ binds[i].source = b.source
  BY <1>2, <1>5, ExceptSeq DEF First
<1>6. ASSUME NEW i \in DOMAIN binds, First(i, b.source),
             binds[i].mode # b.mode, ~override, stage' = "conflict", UNCHANGED binds
      PROVE  binds' = binds /\ binds' \in Seq(Binds) /\ binds[i].source = b.source
  BY <1>6 DEF First
<1> QED
  <2>1. \/ /\ \A i \in DOMAIN binds : binds[i].source # b.source
           /\ binds' = Append(binds, b) /\ stage' = next
        \/ \E i \in DOMAIN binds : First(i, b.source) /\ binds[i].mode = b.mode
             /\ binds' = [binds EXCEPT ![i].optional = @ /\ b.optional] /\ stage' = next
        \/ \E i \in DOMAIN binds : First(i, b.source) /\ binds[i].mode # b.mode /\ override
             /\ binds' = [binds EXCEPT ![i] = b] /\ stage' = next
        \/ \E i \in DOMAIN binds : First(i, b.source) /\ binds[i].mode # b.mode /\ ~override
             /\ stage' = "conflict" /\ UNCHANGED binds
    BY Zenon DEF AddBind
  <2>2. CASE \E i \in DOMAIN binds : First(i, b.source) /\ binds[i].mode = b.mode
             /\ binds' = [binds EXCEPT ![i].optional = @ /\ b.optional] /\ stage' = next
    <3>1. PICK i \in DOMAIN binds : First(i, b.source) /\ binds[i].mode = b.mode
             /\ binds' = [binds EXCEPT ![i].optional = @ /\ b.optional] /\ stage' = next
      BY <2>2, Zenon
    <3>2. PICK c \in Binds :
             /\ binds' = [binds EXCEPT ![i] = c]
             /\ binds[i].source = b.source /\ c.source = b.source
             /\ c.mode = b.mode /\ c.optional = (binds[i].optional /\ b.optional)
      BY <1>4, <3>1, Zenon
    <3>3. binds' \in Seq(Binds)
      BY <1>4, <3>1, Zenon
    <3> QED
      BY <1>1, <1>2, <3>1, <3>2, <3>3, Zenon
  <2>3. CASE \E i \in DOMAIN binds : First(i, b.source) /\ binds[i].mode # b.mode /\ override
             /\ binds' = [binds EXCEPT ![i] = b] /\ stage' = next
    BY <1>1, <1>2, <1>5, <2>3, Zenon
  <2>4. CASE \E i \in DOMAIN binds : First(i, b.source) /\ binds[i].mode # b.mode /\ ~override
             /\ stage' = "conflict" /\ UNCHANGED binds
    BY <1>1, <1>2, <1>6, <2>4, Zenon
  <2> QED
    BY <1>3, <2>1, <2>2, <2>3, <2>4

\* The next bind of a list: added, dropped or refused.
LEMMA NextBind ==
    ASSUME TypeOK, NEW override, AddNext(override)
    PROVE  /\ todo' \in Seq(RawBinds) /\ todo # <<>> /\ todo' = Tail(todo) /\ Head(todo) \in RawBinds
           /\ UNCHANGED <<request, past, env, items, network, last>>
           /\ \/ /\ Expand[Head(todo).source] \in Paths
                 /\ [Head(todo) EXCEPT !.source = Expand[@]] \in Binds
                 /\ AddBind([Head(todo) EXCEPT !.source = Expand[@]], override, stage)
              \/ /\ Expand[Head(todo).source] \notin Paths
                 /\ stage' \in {stage, "invalid"} /\ UNCHANGED <<asks, binds>>
<1>1. todo \in Seq(RawBinds) /\ todo # <<>> /\ todo' = Tail(todo)
  BY DEF TypeOK, AddNext
<1>2. Head(todo) \in RawBinds /\ todo' \in Seq(RawBinds)
  BY <1>1, HeadTailProperties
<1>3. Expand[Head(todo).source] \in Paths => [Head(todo) EXCEPT !.source = Expand[@]] \in Binds
  BY <1>2 DEF RawBinds, Binds
<1>4. [Head(todo) EXCEPT !.source = Expand[@]] = [Head(todo) EXCEPT !.source = Expand[Head(todo).source]]
  BY <1>2 DEF RawBinds
<1>5. UNCHANGED <<request, past, env, items, network, last>>
  BY DEF AddNext
<1>6. \/ /\ Expand[Head(todo).source] \in Paths
         /\ AddBind([Head(todo) EXCEPT !.source = Expand[Head(todo).source]], override, stage)
      \/ /\ Expand[Head(todo).source] = Empty
         /\ UNCHANGED <<stage, asks, binds>>
      \/ /\ Expand[Head(todo).source] \in {Relative, Unknown, Empty}
         /\ stage' = "invalid" /\ UNCHANGED <<asks, binds>>
  BY DEF AddNext
<1>7. {Empty, Relative, Unknown} \cap Paths = {}
  BY PathsAssumption
<1> QED
  <2>1. CASE /\ Expand[Head(todo).source] \in Paths
             /\ AddBind([Head(todo) EXCEPT !.source = Expand[Head(todo).source]], override, stage)
    BY <1>1, <1>2, <1>3, <1>4, <1>5, <2>1
  <2>2. CASE /\ Expand[Head(todo).source] \in {Relative, Unknown, Empty}
             /\ stage' \in {stage, "invalid"} /\ UNCHANGED <<asks, binds>>
    BY <1>1, <1>2, <1>5, <1>7, <2>2
  <2> QED
    BY <1>6, <2>1, <2>2

ProjectBind == [source |-> Project, mode |-> "rw", optional |-> FALSE]

\* Every step keeps the types.
LEMMA StartType == ASSUME Start PROVE MergeType
<1>1. <<>> \in Seq(LayerSet) /\ <<>> \in Seq(RawBinds) /\ <<>> \in Seq(Binds)
  BY EmptySeq
<1>2. env \in [Keys -> Raw \cup {Unset}] /\ last \in [Fields -> Raw \cup {Unset}]
  BY DEF Start
<1>3. env \in [Keys -> EnvValues] /\ last \in [Fields -> Raw \cup Paths \cup {Unset}]
  BY DEF Start, EnvValues
<1> QED
  BY <1>1, <1>2, <1>3 DEF Start, MergeType, TypeOK, Stages, NetworkModes

LEMMA BindType ==
    ASSUME MergeType, NEW override, AddNext(override), stage \in {"layers", "binds"}
    PROVE  MergeType'
<1>1. /\ todo' \in Seq(RawBinds) /\ UNCHANGED <<request, past, env, items, network, last>>
      /\ asks' \in Seq(Binds) /\ binds' \in Seq(Binds) /\ stage' \in {stage, "conflict", "invalid"}
  <2>1. TypeOK
    BY DEF MergeType
  <2>2. CASE /\ [Head(todo) EXCEPT !.source = Expand[@]] \in Binds
             /\ AddBind([Head(todo) EXCEPT !.source = Expand[@]], override, stage)
    <3> DEFINE b == [Head(todo) EXCEPT !.source = Expand[@]]
    <3>1. b \in Binds /\ AddBind(b, override, stage)
      BY <2>2
    <3> HIDE DEF b
    <3>2. asks' \in Seq(Binds) /\ binds' \in Seq(Binds) /\ stage' \in {stage, "conflict"}
      BY <2>1, <3>1, BindAdded DEF TypeOK
    <3> QED
      BY <2>1, <3>2, NextBind
  <2>3. CASE stage' \in {stage, "invalid"} /\ UNCHANGED <<asks, binds>>
    BY <2>1, <2>3, NextBind DEF TypeOK
  <2> QED
    BY <2>1, <2>2, <2>3, NextBind
<1> QED
  BY <1>1 DEF MergeType, TypeOK, Stages

LEMMA NetworkOfType ==
    ASSUME NEW layers \in Seq(LayerSet)
    PROVE  /\ NetworkOf(layers) \in NetworkModes
           /\ \A i \in DOMAIN layers : layers[i].network # Unset
                => Rank[NetworkOf(layers)] <= Rank[layers[i].network]
<1> DEFINE S == Explicit(layers)
<1>1. S \in SUBSET NetworkModes
  <2>1. \A i \in DOMAIN layers : layers[i] \in LayerSet
    BY LenProperties, ElementOfSeq
  <2> QED
    BY <2>1 DEF Explicit, LayerSet
<1>2. \A i \in DOMAIN layers : layers[i].network # Unset => layers[i].network \in S
  BY DEF Explicit
<1>3. Rank["none"] = 0 /\ Rank["proxy"] = 1 /\ Rank["host"] = 2
  BY DEF Rank, NetworkModes
<1> HIDE DEF S
<1>4. S # {} => \E m \in S : \A n \in S : Rank[m] <= Rank[n]
  <2>1. CASE "none" \in S
    BY <1>1, <1>3, <2>1 DEF NetworkModes
  <2>2. CASE "none" \notin S /\ "proxy" \in S
    BY <1>1, <1>3, <2>2 DEF NetworkModes
  <2>3. CASE "none" \notin S /\ "proxy" \notin S
    <3>1. \A n \in S : n = "host"
      BY <1>1, <2>3 DEF NetworkModes
    <3>2. \A m, n \in S : Rank[m] <= Rank[n]
      BY <1>3, <3>1
    <3> QED
      BY <3>2
  <2> QED
    BY <2>1, <2>2, <2>3
<1>5. S # {} => MostRestrictive(S) \in S /\ \A n \in S : Rank[MostRestrictive(S)] <= Rank[n]
  BY <1>4 DEF MostRestrictive
<1>6. NetworkOf(layers) = IF S = {} THEN "none" ELSE MostRestrictive(S)
  BY DEF NetworkOf, S
<1> QED
  BY <1>1, <1>2, <1>5, <1>6 DEF NetworkModes

LEMMA StepType == ASSUME MergeType, MergeAct PROVE MergeType'
<1> USE DEF MergeType
<1>1. ASSUME NEW l \in LayerSet, MergeLayer(l) PROVE MergeType'
  <2>1. past' \in Seq(LayerSet) /\ network' \in NetworkModes
    BY <1>1, MergeStep, NetworkOfType DEF MergeLayer, TypeOK
  <2>2. todo' \in Seq(RawBinds) /\ l.env \in [Keys -> Raw \cup {Unset}]
        /\ l.last \in [Fields -> Raw \cup {Unset}] /\ l.items \in SUBSET Items
    BY <1>1 DEF MergeLayer, LayerSet
  <2>3. env' \in [Keys -> Raw \cup {Unset}]
    BY <1>1, <2>2 DEF MergeLayer, Or
  <2>4. last' \in [Fields -> Raw \cup {Unset}]
    BY <1>1, <2>2 DEF MergeLayer, Or
  <2>5. env' \in [Keys -> EnvValues] /\ last' \in [Fields -> Raw \cup Paths \cup {Unset}]
    BY <2>3, <2>4 DEF EnvValues
  <2> QED
    BY <1>1, <2>1, <2>2, <2>3, <2>4, <2>5 DEF MergeLayer, TypeOK
<1>2. ASSUME NEW l \in LayerSet, LayerConflicts(l) PROVE MergeType'
  <2>1. past' \in Seq(LayerSet)
    BY <1>2, MergeStep DEF LayerConflicts, TypeOK
  <2> QED
    BY <1>2, <2>1 DEF LayerConflicts, TypeOK, Stages
<1>3. CASE LayerBind
  BY <1>3, BindType DEF LayerBind
<1>4. CASE LayersMerged
  <2>1. CASE /\ \A f \in PathFields : ExpandField(f) \in Paths \cup {Unset}
             /\ last' = [f \in Fields |-> IF f \in PathFields THEN ExpandField(f) ELSE last[f]]
             /\ stage' = "project"
    <3>1. last' \in [Fields -> Raw \cup Paths \cup {Unset}]
      BY <2>1 DEF TypeOK
    <3>2. last'["home"] \in Paths \cup {Unset}
      BY <2>1 DEF Fields, PathFields
    <3>3. env' \in [Keys -> Raw \cup {Unset}]
      BY <1>4 DEF LayersMerged
    <3> QED
      BY <1>4, <2>1, <3>1, <3>2, <3>3 DEF LayersMerged, TypeOK, Stages
  <2>2. CASE stage' = "invalid" /\ UNCHANGED last
    BY <1>4, <2>2 DEF LayersMerged, TypeOK, Stages
  <2> QED
    BY <1>4, <2>1, <2>2 DEF LayersMerged
<1>5. CASE BindProject
  <2>1. CASE AddBind(ProjectBind, TRUE, "inline")
    <3>1. ProjectBind \in Binds
      BY PathsAssumption DEF ProjectBind, Binds, BindModes
    <3>2. asks' \in Seq(Binds) /\ binds' \in Seq(Binds) /\ stage' \in {"inline", "conflict"}
      BY <2>1, <3>1, BindAdded DEF TypeOK
    <3> QED
      BY <1>5, <3>2 DEF BindProject, TypeOK, Stages
  <2>2. CASE stage' = "inline" /\ UNCHANGED <<asks, binds>>
    BY <1>5, <2>2 DEF BindProject, TypeOK, Stages
  <2> QED
    BY <1>5, <2>1, <2>2 DEF BindProject, ProjectBind
<1>6. CASE Inline
  <2>1. CASE stage' = "invalid" /\ UNCHANGED <<env, items, network, todo>>
    BY <1>6, <2>1 DEF Inline, TypeOK, Stages
  <2>2. CASE /\ ~Refused /\ \A k \in Keys : EnvExpanded(k) # Unknown
             /\ env' = [k \in Keys |-> EnvExpanded(k)]
             /\ items' = items \cup request.items
             /\ network' = Or(request.network, network)
             /\ todo' = request.binds
             /\ stage' = "binds"
    <3>1. request \in RequestSet /\ request.network \in NetworkModes \cup {Unset}
      BY <2>2 DEF TypeOK, Refused
    <3>2. network' \in NetworkModes /\ todo' \in Seq(RawBinds) /\ items' \in SUBSET Items
      BY <2>2, <3>1 DEF TypeOK, RequestSet, Or
    <3>3. ASSUME NEW k \in Keys PROVE EnvExpanded(k) \in EnvValues
      <4>1. env[k] \in Raw \cup {Unset} /\ request.env[k] \in Raw \cup {Unset}
        BY <1>6, <3>1 DEF Inline, RequestSet
      <4>2. EnvRaw(k) \in Raw \cup {Unset}
        BY <4>1 DEF EnvRaw, Or
      <4>3. EnvRaw(k) # Unset => Expand[EnvRaw(k)] \in Paths \cup {Empty, Relative, Unknown}
        BY <4>2, PathsAssumption
      <4> QED
        BY <2>2, <4>2, <4>3 DEF EnvExpanded, EnvValues
    <3>4. env' \in [Keys -> EnvValues]
      BY <2>2, <3>3
    <3>5. UNCHANGED <<request, past, asks, binds, last>> /\ stage = "inline"
      BY <1>6 DEF Inline
    <3> QED
      BY <2>2, <3>2, <3>4, <3>5 DEF TypeOK, Stages
  <2> QED
    BY <1>6, <2>1, <2>2 DEF Inline
<1>7. CASE InlineBind
  BY <1>7, BindType DEF InlineBind
<1>8. CASE InlineBound
  BY <1>8 DEF InlineBound, TypeOK, Stages
<1>9. CASE Defaults
  <2>1. ASSUME NEW k \in Keys PROVE Or(env[k], DefaultOf(k)) \in EnvValues
    BY <1>9, <2>1 DEF Defaults, TypeOK, EnvValues, DefaultOf, Or
  <2>2. env' \in [Keys -> EnvValues]
    BY <1>9, <2>1 DEF Defaults, EnvValues
  <2> QED
    BY <1>9, <2>2 DEF Defaults, TypeOK, Stages
<1> QED
  BY <1>1, <1>2, <1>3, <1>4, <1>5, <1>6, <1>7, <1>8, <1>9 DEF MergeAct, Rest

-----------------------------------------------------------------------------
(* BindsFollowRequests is inductive with the types: what a bind more asked  *)
(* for makes of the requests since the mode was last changed.              *)

AskedFor(list, source) == {i \in DOMAIN list : list[i].source = source}
Since(list, b) ==
    {i \in AskedFor(list, b.source) : \A j \in AskedFor(list, b.source) : j >= i => list[j].mode = b.mode}
Follows(list, b) == Since(list, b) # {} /\ (b.optional <=> \A i \in Since(list, b) : list[i].optional)

BindInv ==
    stage # "conflict" =>
      /\ \A i \in 1..Len(binds) : \E j \in 1..Len(asks) : asks[j].source = binds[i].source
      /\ \A j \in 1..Len(asks) : \E i \in 1..Len(binds) : asks[j].source = binds[i].source
      /\ \A i, j \in 1..Len(binds) : i # j => binds[i].source # binds[j].source
      /\ \A i \in 1..Len(binds) : Follows(asks, binds[i])

LEMMA BindInvIs ==
    ASSUME asks \in Seq(Binds), binds \in Seq(Binds)
    PROVE  BindInv => BindsFollowRequests
<1>1. DOMAIN asks = 1..Len(asks) /\ DOMAIN binds = 1..Len(binds)
  BY LenProperties
<1> SUFFICES ASSUME BindInv, stage # "conflict" PROVE BindsFollowRequests
  BY DEF BindsFollowRequests
<1>2. {binds[i].source : i \in DOMAIN binds} = {asks[i].source : i \in DOMAIN asks}
  <2>1. ASSUME NEW i \in DOMAIN binds PROVE binds[i].source \in {asks[j].source : j \in DOMAIN asks}
    <3>1. PICK j \in 1..Len(asks) : asks[j].source = binds[i].source
      BY <1>1 DEF BindInv
    <3> QED
      BY <1>1, <3>1
  <2>2. ASSUME NEW j \in DOMAIN asks PROVE asks[j].source \in {binds[i].source : i \in DOMAIN binds}
    BY <1>1, Zenon DEF BindInv
  <2> QED
    BY <2>1, <2>2
<1>3. \A i, j \in DOMAIN binds : i # j => binds[i].source # binds[j].source
  BY <1>1 DEF BindInv
<1>4. \A i \in DOMAIN binds : Follows(asks, binds[i])
  BY <1>1 DEF BindInv
<1> QED
  BY <1>2, <1>3, <1>4, Zenon DEF BindsFollowRequests, Follows, Since, AskedFor

\* What was asked for, with one request more.
LEMMA AskedMore ==
    ASSUME NEW list \in Seq(Binds), NEW b \in Binds
    PROVE  /\ Len(list) \in Nat /\ DOMAIN list = 1..Len(list)
           /\ Len(Append(list, b)) = Len(list) + 1
           /\ \A i \in 1..Len(list) : Append(list, b)[i] = list[i] /\ list[i] \in Binds
           /\ Append(list, b)[Len(list) + 1] = b
           /\ \A source : AskedFor(Append(list, b), source) =
                IF b.source = source THEN AskedFor(list, source) \cup {Len(list) + 1} ELSE AskedFor(list, source)
<1>1. Len(list) \in Nat /\ DOMAIN list = 1..Len(list)
  BY LenProperties
<1>2. /\ Append(list, b) \in Seq(Binds) /\ Len(Append(list, b)) = Len(list) + 1
      /\ \A i \in 1..Len(list) : Append(list, b)[i] = list[i]
      /\ Append(list, b)[Len(list) + 1] = b
  BY AppendProperties
<1>3. DOMAIN Append(list, b) = 1..Len(list) + 1
  BY <1>2, LenProperties
<1>4. \A i \in 1..Len(list) : list[i] \in Binds
  BY ElementOfSeq
<1>5. 1..Len(list) + 1 = 1..Len(list) \cup {Len(list) + 1}
  BY <1>1
<1> HIDE DEF Binds
<1>6. ASSUME NEW source
      PROVE  AskedFor(Append(list, b), source) =
               IF b.source = source THEN AskedFor(list, source) \cup {Len(list) + 1} ELSE AskedFor(list, source)
  <2> DEFINE more == Append(list, b)
  <2>1. \A i \in 1..Len(list) : more[i] = list[i]
    BY <1>2
  <2>2. DOMAIN more = 1..Len(list) \cup {Len(list) + 1} /\ more[Len(list) + 1] = b
    BY <1>2, <1>3, <1>5
  <2> HIDE DEF more
  <2>3. AskedFor(more, source) = IF b.source = source THEN AskedFor(list, source) \cup {Len(list) + 1} ELSE AskedFor(list, source)
    BY <1>1, <2>1, <2>2 DEF AskedFor
  <2> QED
    BY <2>3 DEF more
<1> QED
  BY <1>1, <1>2, <1>4, <1>6

\* A bind of another source follows what was asked for as before.
LEMMA OtherFollows ==
    ASSUME NEW list \in Seq(Binds), NEW b \in Binds, NEW c \in Binds, c.source # b.source, Follows(list, c)
    PROVE  Follows(Append(list, b), c)
<1>1. AskedFor(Append(list, b), c.source) = AskedFor(list, c.source)
  BY AskedMore
<1>2. \A i \in AskedFor(list, c.source) : Append(list, b)[i] = list[i]
  BY AskedMore DEF AskedFor
<1>3. Since(Append(list, b), c) = Since(list, c)
  BY <1>1, <1>2 DEF Since
<1>4. \A i \in Since(list, c) : Append(list, b)[i] = list[i]
  BY <1>2 DEF Since
<1> QED
  BY <1>3, <1>4, Zenon DEF Follows

\* The first request for a source, or the first since it changed its mode, is
\* the only one that counts.
LEMMA NewFollows ==
    ASSUME NEW list \in Seq(Binds), NEW b \in Binds,
           \A i \in AskedFor(list, b.source) : \E j \in AskedFor(list, b.source) : j >= i /\ list[j].mode # b.mode
    PROVE  Follows(Append(list, b), b)
<1> DEFINE n == Len(list) + 1
           more == Append(list, b)
<1>1. AskedFor(more, b.source) = AskedFor(list, b.source) \cup {n}
  BY AskedMore
<1>2. /\ \A i \in AskedFor(list, b.source) : more[i] = list[i] /\ i \in Nat /\ i < n
      /\ more[n] = b /\ n \in Nat
  <2>1. more[n] = b /\ n \in Nat
    BY AskedMore
  <2> QED
    BY <2>1, AskedMore DEF AskedFor
<1> HIDE DEF n, more
<1>3. n \in Since(more, b)
  BY <1>1, <1>2 DEF Since
<1>4. ASSUME NEW i \in AskedFor(list, b.source) PROVE i \notin Since(more, b)
  <2>1. PICK j \in AskedFor(list, b.source) : j >= i /\ list[j].mode # b.mode
    OBVIOUS
  <2>2. j \in AskedFor(more, b.source) /\ more[j].mode # b.mode
    BY <1>1, <1>2, <2>1
  <2> QED
    BY <2>1, <2>2 DEF Since
<1>5. Since(more, b) = {n}
  BY <1>1, <1>3, <1>4 DEF Since
<1>6. Follows(more, b)
  <2>1. Since(more, b) # {}
    BY <1>5
  <2>2. (\A i \in Since(more, b) : more[i].optional) <=> b.optional
    BY <1>2, <1>5, Zenon
  <2> QED
    BY <2>1, <2>2, Zenon DEF Follows
<1> QED
  BY <1>6 DEF more

\* Another request in the same mode counts with those before it.
LEMMA SameFollows ==
    ASSUME NEW list \in Seq(Binds), NEW b \in Binds, NEW c \in Binds, NEW d \in Binds,
           c.source = b.source, c.mode = b.mode, Follows(list, c),
           d.source = b.source, d.mode = b.mode, d.optional = (c.optional /\ b.optional)
    PROVE  Follows(Append(list, b), d)
<1> DEFINE n == Len(list) + 1
           more == Append(list, b)
<1>1. AskedFor(more, b.source) = AskedFor(list, b.source) \cup {n}
  BY AskedMore
<1>2. /\ \A i \in AskedFor(list, b.source) : more[i] = list[i] /\ i \in Nat /\ i < n
      /\ more[n] = b /\ n \in Nat
  <2>1. more[n] = b /\ n \in Nat
    BY AskedMore
  <2> QED
    BY <2>1, AskedMore DEF AskedFor
<1> HIDE DEF n, more
<1>3. Since(more, d) = Since(list, c) \cup {n}
  BY <1>1, <1>2 DEF Since
<1>4. \A i \in Since(list, c) : more[i] = list[i]
  BY <1>2 DEF Since
<1>5. Follows(more, d)
  <2>1. Since(more, d) # {}
    BY <1>3
  <2>2. (\A i \in Since(more, d) : more[i].optional) <=> (\A i \in Since(list, c) : list[i].optional) /\ b.optional
    BY <1>2, <1>3, <1>4, Zenon
  <2>3. (\A i \in Since(more, d) : more[i].optional) <=> c.optional /\ b.optional
    BY <2>2, Zenon DEF Follows
  <2>4. d.optional <=> c.optional /\ b.optional
    BY Zenon
  <2> QED
    BY <2>1, <2>3, <2>4, Zenon DEF Follows
<1> QED
  BY <1>5 DEF more

LEMMA AddedInv ==
    ASSUME binds \in Seq(Binds), asks \in Seq(Binds), stage # "conflict", BindInv,
           NEW b \in Binds, NEW override, NEW next, AddBind(b, override, next)
    PROVE  BindInv'
<1> SUFFICES ASSUME stage' # "conflict" PROVE BindInv'
  BY DEF BindInv
<1>1. asks' = Append(asks, b) /\ asks' \in Seq(Binds) /\ binds' \in Seq(Binds)
  BY BindAdded
<1>2. /\ Len(binds) \in Nat /\ DOMAIN binds = 1..Len(binds) /\ Len(asks) \in Nat
      /\ \A i \in 1..Len(binds) : binds[i] \in Binds
  BY LenProperties, ElementOfSeq
<1>3. /\ Len(asks') = Len(asks) + 1 /\ asks'[Len(asks) + 1] = b
      /\ \A i \in 1..Len(asks) : asks'[i] = asks[i]
  BY <1>1, AskedMore
<1>4. /\ \A i \in 1..Len(binds) : \E j \in 1..Len(asks) : asks[j].source = binds[i].source
      /\ \A j \in 1..Len(asks) : \E i \in 1..Len(binds) : asks[j].source = binds[i].source
      /\ \A i, j \in 1..Len(binds) : i # j => binds[i].source # binds[j].source
      /\ \A i \in 1..Len(binds) : Follows(asks, binds[i])
  BY DEF BindInv
<1>5. ASSUME NEW i \in 1..Len(binds), binds[i].source # b.source
      PROVE  Follows(asks', binds[i])
  BY <1>1, <1>2, <1>4, <1>5, OtherFollows
<1>6. CASE /\ binds' = Append(binds, b)
           /\ \A i \in 1..Len(binds) : binds[i].source # b.source
  <2>1. /\ Len(binds') = Len(binds) + 1 /\ binds'[Len(binds) + 1] = b
        /\ \A i \in 1..Len(binds) : binds'[i] = binds[i]
    BY <1>6, AskedMore
  <2>2. Follows(asks', b)
    <3>1. AskedFor(asks, b.source) = {}
      <4>1. \A j \in 1..Len(asks) : asks[j].source # b.source
        BY <1>4, <1>6
      <4>2. DOMAIN asks = 1..Len(asks)
        BY LenProperties
      <4> QED
        BY <4>1, <4>2 DEF AskedFor
    <3> QED
      BY <1>1, <3>1, NewFollows
  <2>3. ASSUME NEW i \in 1..Len(binds') PROVE Follows(asks', binds'[i])
    <3>1. i \in 1..Len(binds) \/ i = Len(binds) + 1
      BY <1>2, <2>1
    <3> QED
      BY <1>5, <1>6, <2>1, <2>2, <3>1
  <2>4. ASSUME NEW i \in 1..Len(binds'), NEW j \in 1..Len(binds'), i # j
        PROVE  binds'[i].source # binds'[j].source
    <3>1. (i \in 1..Len(binds) \/ i = Len(binds) + 1) /\ (j \in 1..Len(binds) \/ j = Len(binds) + 1)
      BY <1>2, <2>1
    <3> QED
      BY <1>4, <1>6, <2>1, <2>4, <3>1
  <2>5. ASSUME NEW i \in 1..Len(binds') PROVE \E j \in 1..Len(asks') : asks'[j].source = binds'[i].source
    <3>1. CASE i \in 1..Len(binds)
      <4>1. PICK j \in 1..Len(asks) : asks[j].source = binds[i].source
        BY <1>4, <3>1
      <4> QED
        BY <1>2, <1>3, <2>1, <3>1, <4>1
    <3>2. CASE i = Len(binds) + 1
      <4>1. Len(asks) + 1 \in 1..Len(asks')
        BY <1>2, <1>3
      <4> QED
        BY <1>3, <2>1, <3>2, <4>1
    <3> QED
      BY <1>2, <2>1, <3>1, <3>2
  <2>6. ASSUME NEW j \in 1..Len(asks') PROVE \E i \in 1..Len(binds') : asks'[j].source = binds'[i].source
    <3>1. CASE j \in 1..Len(asks)
      <4>1. PICK i \in 1..Len(binds) : asks[j].source = binds[i].source
        BY <1>4, <3>1
      <4> QED
        BY <1>2, <1>3, <2>1, <3>1, <4>1
    <3>2. CASE j = Len(asks) + 1
      <4>1. Len(binds) + 1 \in 1..Len(binds')
        BY <1>2, <2>1
      <4> QED
        BY <1>3, <2>1, <3>2, <4>1
    <3> QED
      BY <1>2, <1>3, <3>1, <3>2
  <2> QED
    BY <2>3, <2>4, <2>5, <2>6 DEF BindInv
<1>7. ASSUME NEW k \in 1..Len(binds), NEW c \in Binds, binds' = [binds EXCEPT ![k] = c],
             binds[k].source = b.source, c.source = b.source,
             \/ /\ binds[k].mode = b.mode /\ c.mode = b.mode
                /\ c.optional = (binds[k].optional /\ b.optional)
             \/ binds[k].mode # b.mode /\ c = b
      PROVE  BindInv'
  <2>1. /\ Len(binds') = Len(binds) /\ binds'[k] = c
        /\ \A i \in 1..Len(binds) : i # k => binds'[i] = binds[i]
    <3>1. DOMAIN binds' = 1..Len(binds)
      BY <1>2, <1>7
    <3> QED
      BY <1>1, <1>2, <1>7, <3>1, LenProperties
  <2>2. \A i \in 1..Len(binds) : binds'[i].source = binds[i].source
    BY <1>7, <2>1
  <2>3. Follows(asks', c)
    <3>1. CASE /\ binds[k].mode = b.mode /\ c.mode = b.mode
               /\ c.optional = (binds[k].optional /\ b.optional)
      BY <1>1, <1>2, <1>4, <1>7, <3>1, SameFollows
    <3>2. CASE binds[k].mode # b.mode /\ c = b
      <4>1. PICK r \in AskedFor(asks, b.source) : \A j \in AskedFor(asks, b.source) : j >= r => asks[j].mode = binds[k].mode
        <5>1. Since(asks, binds[k]) # {}
          BY <1>4 DEF Follows
        <5> QED
          BY <1>7, <5>1 DEF Since
      <4>2. \A i \in AskedFor(asks, b.source) : i \in Nat
        <5>1. DOMAIN asks = 1..Len(asks)
          BY LenProperties
        <5> QED
          BY <5>1 DEF AskedFor
      <4>3. ASSUME NEW i \in AskedFor(asks, b.source)
            PROVE  \E j \in AskedFor(asks, b.source) : j >= i /\ asks[j].mode # b.mode
        <5>1. CASE i >= r
          <6>1. asks[i].mode # b.mode /\ i >= i
            BY <3>2, <4>1, <4>2, <5>1
          <6> QED
            BY <6>1
        <5>2. CASE r >= i
          <6>1. asks[r].mode # b.mode
            BY <3>2, <4>1, <4>2
          <6> QED
            BY <5>2, <6>1
        <5> QED
          BY <4>2, <5>1, <5>2
      <4> HIDE DEF AskedFor, Follows
      <4>4. Follows(Append(asks, b), b)
        BY <4>3, NewFollows
      <4> QED
        BY <1>1, <3>2, <4>4
    <3> QED
      BY <1>7, <3>1, <3>2
  <2>4. \A i \in 1..Len(binds') : Follows(asks', binds'[i])
    BY <1>4, <1>5, <1>7, <2>1, <2>3
  <2>5. \A i, j \in 1..Len(binds') : i # j => binds'[i].source # binds'[j].source
    BY <1>4, <2>1, <2>2
  <2>6. ASSUME NEW i \in 1..Len(binds') PROVE \E j \in 1..Len(asks') : asks'[j].source = binds'[i].source
    <3>1. PICK j \in 1..Len(asks) : asks[j].source = binds[i].source
      BY <1>4, <2>1
    <3>2. j \in 1..Len(asks') /\ asks'[j].source = binds'[i].source
      BY <1>2, <1>3, <2>1, <2>2, <3>1
    <3> QED
      BY <3>2
  <2>7. ASSUME NEW j \in 1..Len(asks') PROVE \E i \in 1..Len(binds') : asks'[j].source = binds'[i].source
    <3>1. CASE j \in 1..Len(asks)
      <4>1. PICK i \in 1..Len(binds) : asks[j].source = binds[i].source
        BY <1>4, <3>1
      <4> QED
        BY <1>3, <2>1, <2>2, <3>1, <4>1
    <3>2. CASE j = Len(asks) + 1
      BY <1>3, <1>7, <2>1, <3>2
    <3> QED
      BY <1>2, <1>3, <3>1, <3>2
  <2> QED
    BY <2>4, <2>5, <2>6, <2>7 DEF BindInv
<1> QED
  <2>1. \/ /\ binds' = Append(binds, b)
           /\ \A i \in 1..Len(binds) : binds[i].source # b.source
        \/ \E k \in 1..Len(binds) : \E c \in Binds :
             /\ binds' = [binds EXCEPT ![k] = c]
             /\ binds[k].source = b.source /\ c.source = b.source
             /\ \/ /\ binds[k].mode = b.mode /\ c.mode = b.mode
                   /\ c.optional = (binds[k].optional /\ b.optional)
                \/ binds[k].mode # b.mode /\ c = b
    <3>1. \/ /\ stage' = next /\ binds' = Append(binds, b)
             /\ \A i \in 1..Len(binds) : binds[i].source # b.source
          \/ \E i \in 1..Len(binds) : \E c \in Binds :
               /\ stage' = next /\ binds' = [binds EXCEPT ![i] = c]
               /\ binds[i].source = b.source /\ c.source = b.source
               /\ \/ /\ binds[i].mode = b.mode /\ c.mode = b.mode
                     /\ c.optional = (binds[i].optional /\ b.optional)
                  \/ binds[i].mode # b.mode /\ override /\ c = b
          \/ stage' = "conflict"
      BY BindAdded
    <3> QED
      BY <3>1, Zenon
  <2> QED
    BY <1>6, <1>7, <2>1, Zenon

LEMMA BindInvStep == ASSUME MergeType, BindInv, MergeAct PROVE BindInv'
<1>1. TypeOK
  BY DEF MergeType
<1>2. ASSUME NEW override, AddNext(override), stage # "conflict" PROVE BindInv'
  <2>1. CASE UNCHANGED <<asks, binds>>
    BY <1>2, <2>1 DEF BindInv
  <2>2. CASE /\ [Head(todo) EXCEPT !.source = Expand[@]] \in Binds
             /\ AddBind([Head(todo) EXCEPT !.source = Expand[@]], override, stage)
    <3> DEFINE b == [Head(todo) EXCEPT !.source = Expand[@]]
    <3>1. b \in Binds /\ AddBind(b, override, stage)
      BY <2>2
    <3> HIDE DEF b
    <3> QED
      BY <1>1, <1>2, <3>1, AddedInv DEF TypeOK
  <2> QED
    BY <1>1, <1>2, <2>1, <2>2, NextBind
<1>3. CASE BindProject
  <2>1. CASE AddBind(ProjectBind, TRUE, "inline")
    <3>1. ProjectBind \in Binds
      BY PathsAssumption DEF ProjectBind, Binds, BindModes
    <3>2. stage # "conflict"
      BY <1>3 DEF BindProject
    <3> QED
      BY <1>1, <2>1, <3>1, <3>2, AddedInv DEF TypeOK
  <2>2. CASE UNCHANGED <<asks, binds>>
    BY <1>3, <2>2 DEF BindProject, BindInv
  <2> QED
    BY <1>3, <2>1, <2>2 DEF BindProject, ProjectBind
<1>4. CASE UNCHANGED <<asks, binds>> /\ (stage = "conflict" => stage' = "conflict")
  BY <1>4 DEF BindInv
<1>5. ASSUME NEW l \in LayerSet, MergeLayer(l) \/ LayerConflicts(l)
      PROVE  UNCHANGED <<asks, binds>> /\ stage # "conflict"
  BY <1>5 DEF MergeLayer, LayerConflicts
<1>6. LayersMerged \/ Inline \/ InlineBound \/ Defaults => UNCHANGED <<asks, binds>> /\ stage # "conflict"
  BY DEF LayersMerged, Inline, InlineBound, Defaults
<1>7. LayerBind \/ InlineBind => \E override \in {TRUE, request.override} : AddNext(override) /\ stage # "conflict"
  BY DEF LayerBind, InlineBind
<1> QED
  BY <1>2, <1>3, <1>4, <1>5, <1>6, <1>7 DEF MergeAct, Rest

LEMMA BindInvStart == ASSUME Start PROVE BindInv
BY EmptySeq DEF Start, BindInv

-----------------------------------------------------------------------------
(* What the fields hold, in terms of the layers merged and the request.     *)

Setters(k) == {i \in DOMAIN past : past[i].env[k] # Unset}
LastSet(k) == IF Setters(k) = {} THEN Unset ELSE past[Max(Setters(k))].env[k]
Clears == {i \in DOMAIN past : past[i].last["clear_env"] # Unset}
LastClear == IF Clears = {} THEN Unset ELSE past[Max(Clears)].last["clear_env"]
United == UNION {past[i].items : i \in DOMAIN past}

AsExpanded(v) == IF v \in Literal \cup {Unset} THEN v ELSE Expand[v]
Spelled(k) == AsExpanded(Or(request.env[k], LastSet(k)))

Before == {"layers", "project", "inline"}
After == {"binds", "defaults"}

Values ==
    /\ stage \in Before => (\A k \in Keys : env[k] = LastSet(k)) /\ items = United
    /\ stage \in After \cup {"resolved"} => items = United \cup request.items
    /\ stage \in After => \A k \in Keys : env[k] = Spelled(k)
    /\ stage = "resolved" =>
         \A k \in Keys : env[k] = IF k \in request.passes THEN Unset ELSE Or(Spelled(k), DefaultOf(k))
    /\ stage \in Before \cup After \cup {"resolved"} => last["clear_env"] = LastClear
    /\ request.network = Unset /\ stage # "conflict" => network = NetworkOf(past)

\* With one layer more, it decides what it sets, and leaves the rest.
LEMMA LastOf ==
    ASSUME past \in Seq(LayerSet), NEW l \in LayerSet, past' = Append(past, l)
    PROVE  /\ \A k \in Keys : LastSet(k)' = Or(l.env[k], LastSet(k))
           /\ LastClear' = Or(l.last["clear_env"], LastClear)
           /\ United' = United \cup l.items
<1> DEFINE n == Len(past) + 1
<1>1. /\ Len(past) \in Nat /\ DOMAIN past = 1..Len(past) /\ DOMAIN past' = 1..n
      /\ \A i \in 1..Len(past) : past'[i] = past[i]
      /\ past'[n] = l
  BY MergeStep
<1>2. 1..n = 1..Len(past) \cup {n}
  BY <1>1
<1>3. ASSUME NEW S \in SUBSET (1..Len(past))
      PROVE  Max(S \cup {n}) = n /\ (S # {} => Max(S) \in 1..Len(past))
  <2>1. S \cup {n} \in SUBSET Nat /\ n \in S \cup {n} /\ \A m \in S \cup {n} : m <= n
    <3>1. n \in Nat /\ \A m \in S : m \in Nat /\ m <= n
      BY <1>1
    <3> HIDE DEF n
    <3> QED
      BY <3>1
  <2>2. Max(S \cup {n}) = n
    BY <2>1, MaxIs
  <2>3. S # {} => Max(S) \in S
    BY <1>1, GreatestExists
  <2> QED
    BY <2>2, <2>3
<1> HIDE DEF n
<1>4. ASSUME NEW k \in Keys PROVE LastSet(k)' = Or(l.env[k], LastSet(k))
  <2>1. CASE l.env[k] = Unset
    <3>1. Setters(k)' = Setters(k)
      BY <1>1, <1>2, <2>1 DEF Setters
    <3>2. Setters(k) # {} => past'[Max(Setters(k))] = past[Max(Setters(k))]
      BY <1>1, <1>3 DEF Setters
    <3> QED
      BY <2>1, <3>1, <3>2 DEF LastSet, Or
  <2>2. CASE l.env[k] # Unset
    <3>1. Setters(k)' = Setters(k) \cup {n}
      BY <1>1, <1>2, <2>2 DEF Setters
    <3>2. Max(Setters(k)') = n
      BY <1>1, <1>3, <3>1 DEF Setters
    <3> QED
      BY <1>1, <2>2, <3>1, <3>2 DEF LastSet, Or
  <2> QED
    BY <2>1, <2>2
<1>5. LastClear' = Or(l.last["clear_env"], LastClear)
  <2>1. CASE l.last["clear_env"] = Unset
    <3>1. Clears' = Clears
      BY <1>1, <1>2, <2>1 DEF Clears
    <3>2. Clears # {} => past'[Max(Clears)] = past[Max(Clears)]
      BY <1>1, <1>3 DEF Clears
    <3> QED
      BY <2>1, <3>1, <3>2 DEF LastClear, Or
  <2>2. CASE l.last["clear_env"] # Unset
    <3>1. Clears' = Clears \cup {n}
      BY <1>1, <1>2, <2>2 DEF Clears
    <3>2. Max(Clears') = n
      BY <1>1, <1>3, <3>1 DEF Clears
    <3> QED
      BY <1>1, <2>2, <3>1, <3>2 DEF LastClear, Or
  <2> QED
    BY <2>1, <2>2
<1>6. United' = United \cup l.items
  BY <1>1, <1>2 DEF United
<1> QED
  BY <1>4, <1>5, <1>6

LEMMA ValuesStart == ASSUME Start PROVE Values
<1>1. DOMAIN past = {}
  BY EmptySeq DEF Start
<1>2. LastClear = Unset /\ United = {} /\ \A k \in Keys : LastSet(k) = Unset
  BY <1>1 DEF LastClear, Clears, United, LastSet, Setters
<1>3. NetworkOf(past) = "none"
  BY <1>1 DEF NetworkOf, Explicit
<1> QED
  BY <1>2, <1>3 DEF Start, Values, Before, After, Fields

LEMMA ValuesStep == ASSUME MergeType, Values, MergeAct PROVE Values'
<1>1. TypeOK
  BY DEF MergeType
<1>2. ASSUME UNCHANGED <<request, past>>
      PROVE  /\ (\A k \in Keys : LastSet(k)' = LastSet(k) /\ Spelled(k)' = Spelled(k))
             /\ LastClear' = LastClear /\ United' = United /\ NetworkOf(past)' = NetworkOf(past)
  BY <1>2 DEF LastSet, Setters, Spelled, LastClear, Clears, United
<1>3. ASSUME NEW l \in LayerSet, MergeLayer(l) PROVE Values'
  <2>1. past' = Append(past, l)
    BY <1>3 DEF MergeLayer
  <2>2. /\ \A k \in Keys : LastSet(k)' = Or(l.env[k], LastSet(k))
        /\ LastClear' = Or(l.last["clear_env"], LastClear)
        /\ United' = United \cup l.items
    BY <1>1, <2>1, LastOf DEF TypeOK
  <2>3. stage = "layers" /\ stage' = "layers"
    BY <1>3 DEF MergeLayer
  <2>4. \A k \in Keys : env'[k] = LastSet(k)'
    BY <1>3, <2>2, <2>3 DEF MergeLayer, Values, Before
  <2>5. last'["clear_env"] = LastClear'
    BY <1>3, <2>2, <2>3 DEF MergeLayer, Values, Before, Fields
  <2>6. items' = United'
    BY <1>3, <2>2, <2>3 DEF MergeLayer, Values, Before
  <2>7. network' = NetworkOf(past')
    BY <1>3 DEF MergeLayer
  <2> QED
    BY <2>3, <2>4, <2>5, <2>6, <2>7 DEF Values, Before, After
<1>4. ASSUME NEW l \in LayerSet, LayerConflicts(l) PROVE Values'
  BY <1>4 DEF LayerConflicts, Values, Before, After
<1>5. ASSUME NEW override, AddNext(override), stage \in {"layers", "binds"} PROVE Values'
  <2>1. UNCHANGED <<request, past, env, items, network, last>> /\ stage' \in {stage, "conflict", "invalid"}
    <3>1. stage' \in {stage, "invalid", "conflict"}
      BY <1>5 DEF AddNext, AddBind
    <3> QED
      BY <1>1, <1>5, <3>1, NextBind
  <2> QED
    BY <1>2, <1>5, <2>1 DEF Values, Before, After
<1>6. CASE LayersMerged
  <2>1. UNCHANGED <<request, past, env, items, network>> /\ stage = "layers" /\ stage' \in {"project", "invalid"}
    BY <1>6 DEF LayersMerged
  <2>2. stage' = "project" => last'["clear_env"] = last["clear_env"]
    BY <1>6 DEF LayersMerged, Fields, PathFields
  <2> QED
    BY <1>2, <2>1, <2>2 DEF Values, Before, After
<1>7. CASE BindProject
  <2>1. UNCHANGED <<request, past, env, items, network, last>> /\ stage = "project" /\ stage' \in {"inline", "conflict"}
    BY <1>7 DEF BindProject, AddBind
  <2> QED
    BY <1>2, <2>1 DEF Values, Before, After
<1>8. CASE Inline
  <2>1. CASE stage' = "invalid" /\ UNCHANGED <<env, items, network, todo>>
    BY <1>2, <1>8, <2>1 DEF Inline, Values, Before, After
  <2>2. CASE /\ env' = [k \in Keys |-> EnvExpanded(k)]
             /\ items' = items \cup request.items
             /\ network' = Or(request.network, network)
             /\ stage' = "binds"
    <3>1. UNCHANGED <<request, past, last>> /\ stage = "inline"
      BY <1>8 DEF Inline
    <3>2. \A k \in Keys : env'[k] = Spelled(k)
      BY <2>2, <3>1 DEF EnvExpanded, EnvRaw, Spelled, AsExpanded, Values, Before
    <3>3. items' = United \cup request.items /\ last["clear_env"] = LastClear
      BY <2>2, <3>1 DEF Values, Before
    <3>4. request.network = Unset => network' = NetworkOf(past)
      BY <2>2, <3>1 DEF Values, Or
    <3> QED
      BY <1>2, <2>2, <3>1, <3>2, <3>3, <3>4 DEF Values, Before, After
  <2> QED
    BY <1>8, <2>1, <2>2 DEF Inline
<1>9. CASE InlineBound
  BY <1>2, <1>9 DEF InlineBound, Values, Before, After
<1>10. CASE Defaults
  <2>1. UNCHANGED <<request, past, items, network, last>> /\ stage = "defaults" /\ stage' = "resolved"
    BY <1>10 DEF Defaults
  <2>2. \A k \in Keys : env'[k] = IF k \in request.passes THEN Unset ELSE Or(Spelled(k), DefaultOf(k))
    BY <1>10 DEF Defaults, Values, After
  <2>3. \A k \in Keys : DefaultOf(k)' = DefaultOf(k)
    BY <2>1 DEF DefaultOf
  <2> QED
    BY <1>2, <2>1, <2>2, <2>3 DEF Values, Before, After
<1>11. LayerBind \/ InlineBind => \E override \in {TRUE, request.override} : AddNext(override) /\ stage \in {"layers", "binds"}
  BY DEF LayerBind, InlineBind
<1> QED
  BY <1>3, <1>4, <1>5, <1>6, <1>7, <1>8, <1>9, <1>10, <1>11 DEF MergeAct, Rest

LEMMA RestrictedIs ==
    ASSUME MergeType, Values
    PROVE  NetworkRestricted
BY NetworkOfType DEF MergeType, TypeOK, Values, NetworkRestricted

-----------------------------------------------------------------------------
(* Every bind of a layer is served by one of the list, which keeps its mode *)
(* as long as nothing may override it; and every bind of the list is of a   *)
(* layer.                                                                  *)

Source(i, n) == Expand[past[i].binds[n].source]
Mode(i, n) == past[i].binds[n].mode

Agree ==
    /\ \A i, j \in 1..Len(past) : \A n \in 1..Len(past[i].binds), m \in 1..Len(past[j].binds) :
         Source(i, n) = Source(j, m) /\ Source(i, n) \in Paths => Mode(i, n) = Mode(j, m)
    /\ \A i, j \in 1..Len(past), k \in Keys :
         Unset \notin {past[i].env[k], past[j].env[k]} => past[i].env[k] = past[j].env[k]

Served(i, n) ==
    Source(i, n) \in Paths => \E m \in 1..Len(binds) :
      /\ binds[m].source = Source(i, n)
      /\ stage = "layers" /\ ~request.override => binds[m].mode = Mode(i, n)

\* The binds of the last layer still to add are the last ones of it.
TodoLast ==
    /\ past = <<>> => todo = <<>>
    /\ past # <<>> =>
         /\ Len(todo) <= Len(past[Len(past)].binds)
         /\ \A j \in 1..Len(todo) :
              todo[j] = past[Len(past)].binds[Len(past[Len(past)].binds) - Len(todo) + j]

OfLayers ==
    \A m \in 1..Len(binds) : \E i \in 1..Len(past) : \E n \in 1..Len(past[i].binds) :
      Source(i, n) = binds[m].source /\ Mode(i, n) = binds[m].mode

EnvAgrees == \A i \in 1..Len(past), k \in Keys : past[i].env[k] # Unset => past[i].env[k] = env[k]

Merging ==
    /\ stage = "layers" =>
         /\ TodoLast /\ OfLayers
         /\ \A i \in 1..Len(past) : \A n \in 1..Len(past[i].binds) :
              i < Len(past) \/ n <= Len(past[i].binds) - Len(todo) => Served(i, n)
         /\ ~request.override => EnvAgrees
    /\ stage \notin {"layers", "conflict", "invalid"} =>
         /\ \A i \in 1..Len(past) : \A n \in 1..Len(past[i].binds) : Served(i, n)
         /\ ~request.override => Agree
    /\ stage = "conflict" => ~request.override /\ ~Agree

\* The layers' binds, each of them one of a place in its layer.
LEMMA LayerParts ==
    ASSUME past \in Seq(LayerSet)
    PROVE  /\ Len(past) \in Nat /\ DOMAIN past = 1..Len(past)
           /\ \A i \in 1..Len(past) : past[i] \in LayerSet /\ past[i].binds \in Seq(RawBinds)
                /\ Len(past[i].binds) \in Nat /\ DOMAIN past[i].binds = 1..Len(past[i].binds)
           /\ \A i \in 1..Len(past) : \A n \in 1..Len(past[i].binds) : past[i].binds[n] \in RawBinds
<1>1. Len(past) \in Nat /\ DOMAIN past = 1..Len(past)
  BY LenProperties
<1>2. \A i \in 1..Len(past) : past[i] \in LayerSet
  BY ElementOfSeq
<1>3. \A i \in 1..Len(past) : past[i].binds \in Seq(RawBinds)
  BY <1>2 DEF LayerSet
<1>4. ASSUME NEW i \in 1..Len(past)
      PROVE  /\ Len(past[i].binds) \in Nat /\ DOMAIN past[i].binds = 1..Len(past[i].binds)
             /\ \A n \in 1..Len(past[i].binds) : past[i].binds[n] \in RawBinds
  BY <1>3, LenProperties, ElementOfSeq
<1> QED
  BY <1>1, <1>2, <1>3, <1>4

LEMMA AgreeIs ==
    ASSUME past \in Seq(LayerSet)
    PROVE  LayersAgree <=> Agree
<1> DEFINE Bound(i, n) == [past[i].binds[n] EXCEPT !.source = Expand[@]]
<1>1. ASSUME NEW i \in 1..Len(past), NEW n \in 1..Len(past[i].binds)
      PROVE  /\ Bound(i, n) \in LayerBinds /\ Bound(i, n).source = Source(i, n)
             /\ Bound(i, n).mode = Mode(i, n)
  <2>1. past[i].binds[n] \in RawBinds /\ i \in DOMAIN past /\ n \in DOMAIN past[i].binds
    BY LayerParts
  <2>2. Bound(i, n) = [past[i].binds[n] EXCEPT !.source = Expand[past[i].binds[n].source]]
    BY <2>1 DEF RawBinds
  <2>3. Bound(i, n) \in LayerBinds
    <3> DEFINE Of(j) == {[b EXCEPT !.source = Expand[b.source]] : b \in {past[j].binds[x] : x \in DOMAIN past[j].binds}}
    <3>1. past[i].binds[n] \in {past[i].binds[x] : x \in DOMAIN past[i].binds}
      BY <2>1
    <3>2. Bound(i, n) \in Of(i)
      BY <2>2, <3>1
    <3>3. LayerBinds = UNION {Of(j) : j \in DOMAIN past}
      BY DEF LayerBinds
    <3> HIDE DEF Bound, Of
    <3> QED
      BY <2>1, <3>2, <3>3
  <2>4. Bound(i, n).source = Source(i, n) /\ Bound(i, n).mode = Mode(i, n)
    BY <2>1, <2>2 DEF RawBinds, Source, Mode
  <2> QED
    BY <2>3, <2>4
<1>2. ASSUME NEW b \in LayerBinds
      PROVE  \E i \in 1..Len(past) : \E n \in 1..Len(past[i].binds) :
               b.source = Source(i, n) /\ b.mode = Mode(i, n)
  <2>1. PICK i \in DOMAIN past : \E n \in DOMAIN past[i].binds :
               b = [past[i].binds[n] EXCEPT !.source = Expand[past[i].binds[n].source]]
    BY DEF LayerBinds
  <2>2. PICK n \in DOMAIN past[i].binds :
               b = [past[i].binds[n] EXCEPT !.source = Expand[past[i].binds[n].source]]
    BY <2>1
  <2>3. i \in 1..Len(past) /\ n \in 1..Len(past[i].binds) /\ past[i].binds[n] \in RawBinds
    BY LayerParts
  <2>4. b.source = Source(i, n) /\ b.mode = Mode(i, n)
    BY <2>2, <2>3 DEF RawBinds, Source, Mode
  <2> QED
    BY <2>3, <2>4
<1> HIDE DEF Bound
<1>3. (\A a, b \in LayerBinds : a.source = b.source /\ a.source \in Paths => a.mode = b.mode)
        <=> \A i, j \in 1..Len(past) : \A n \in 1..Len(past[i].binds), m \in 1..Len(past[j].binds) :
              Source(i, n) = Source(j, m) /\ Source(i, n) \in Paths => Mode(i, n) = Mode(j, m)
  <2>1. ASSUME \A a, b \in LayerBinds : a.source = b.source /\ a.source \in Paths => a.mode = b.mode,
               NEW i \in 1..Len(past), NEW j \in 1..Len(past),
               NEW n \in 1..Len(past[i].binds), NEW m \in 1..Len(past[j].binds),
               Source(i, n) = Source(j, m), Source(i, n) \in Paths
        PROVE  Mode(i, n) = Mode(j, m)
    <3>1. /\ Bound(i, n) \in LayerBinds /\ Bound(i, n).source = Source(i, n) /\ Bound(i, n).mode = Mode(i, n)
          /\ Bound(j, m) \in LayerBinds /\ Bound(j, m).source = Source(j, m) /\ Bound(j, m).mode = Mode(j, m)
      BY <1>1
    <3> QED
      BY <2>1, <3>1
  <2>2. ASSUME \A i, j \in 1..Len(past) : \A n \in 1..Len(past[i].binds), m \in 1..Len(past[j].binds) :
                 Source(i, n) = Source(j, m) /\ Source(i, n) \in Paths => Mode(i, n) = Mode(j, m),
               NEW a \in LayerBinds, NEW b \in LayerBinds, a.source = b.source, a.source \in Paths
        PROVE  a.mode = b.mode
    <3>1. PICK i \in 1..Len(past) : \E n \in 1..Len(past[i].binds) : a.source = Source(i, n) /\ a.mode = Mode(i, n)
      BY <1>2
    <3>2. PICK n \in 1..Len(past[i].binds) : a.source = Source(i, n) /\ a.mode = Mode(i, n)
      BY <3>1
    <3>3. PICK j \in 1..Len(past) : \E m \in 1..Len(past[j].binds) : b.source = Source(j, m) /\ b.mode = Mode(j, m)
      BY <1>2
    <3>4. PICK m \in 1..Len(past[j].binds) : b.source = Source(j, m) /\ b.mode = Mode(j, m)
      BY <3>3
    <3> QED
      BY <2>2, <3>2, <3>4
  <2> QED
    BY <2>1, <2>2
<1>4. DOMAIN past = 1..Len(past)
  BY LenProperties
<1> QED
  BY <1>3, <1>4 DEF LayersAgree, Agree

LEMMA ReportedIs ==
    ASSUME MergeType, Merging
    PROVE  ConflictsReported
BY AgreeIs DEF MergeType, TypeOK, Merging, ConflictsReported

LEMMA MergingStart == ASSUME Start PROVE Merging
<1>1. Len(past) = 0 /\ Len(binds) = 0
  BY EmptySeq DEF Start
<1> QED
  BY <1>1 DEF Start, Merging, TodoLast, OfLayers, EnvAgrees

\* A bind more takes none away, and changes a mode only where it may.
LEMMA AddedKeeps ==
    ASSUME binds \in Seq(Binds), asks \in Seq(Binds), NEW b \in Binds, NEW override, NEW next,
           AddBind(b, override, next)
    PROVE  /\ Len(binds) \in Nat /\ Len(binds') \in Nat /\ Len(binds) <= Len(binds')
           /\ \A m \in 1..Len(binds) :
                binds'[m].source = binds[m].source /\ (~override => binds'[m].mode = binds[m].mode)
           /\ \A m \in 1..Len(binds') :
                \/ m \in 1..Len(binds) /\ binds'[m].source = binds[m].source /\ binds'[m].mode = binds[m].mode
                \/ binds'[m].source = b.source /\ binds'[m].mode = b.mode
           /\ \/ \E m \in 1..Len(binds') : binds'[m].source = b.source /\ binds'[m].mode = b.mode
              \/ /\ ~override /\ stage' = "conflict"
                 /\ \E m \in 1..Len(binds) : binds[m].source = b.source /\ binds[m].mode # b.mode
<1>1. Len(binds) \in Nat /\ DOMAIN binds = 1..Len(binds)
  BY LenProperties
<1>2. CASE binds' = Append(binds, b)
  <2>1. /\ Len(binds') = Len(binds) + 1 /\ binds'[Len(binds) + 1] = b
        /\ \A i \in 1..Len(binds) : binds'[i] = binds[i]
    BY <1>2, AskedMore
  <2>2. \A m \in 1..Len(binds') : m \in 1..Len(binds) \/ m = Len(binds) + 1
    BY <1>1, <2>1
  <2>3. Len(binds) + 1 \in 1..Len(binds')
    BY <1>1, <2>1
  <2> QED
    BY <1>1, <2>1, <2>2, <2>3
<1>3. ASSUME NEW i \in 1..Len(binds), NEW c \in Binds, binds' = [binds EXCEPT ![i] = c],
             binds[i].source = b.source, c.source = b.source, c.mode = b.mode,
             binds[i].mode = b.mode \/ override
      PROVE  /\ Len(binds') = Len(binds)
             /\ \A m \in 1..Len(binds) :
                  binds'[m].source = binds[m].source /\ (~override => binds'[m].mode = binds[m].mode)
             /\ \A m \in 1..Len(binds') :
                  \/ m \in 1..Len(binds) /\ binds'[m].source = binds[m].source /\ binds'[m].mode = binds[m].mode
                  \/ binds'[m].source = b.source /\ binds'[m].mode = b.mode
             /\ \E m \in 1..Len(binds') : binds'[m].source = b.source /\ binds'[m].mode = b.mode
  <2>1. DOMAIN binds' = 1..Len(binds) /\ binds'[i] = c /\ \A m \in 1..Len(binds) : m # i => binds'[m] = binds[m]
    BY <1>1, <1>3
  <2>2. Len(binds') = Len(binds)
    <3>1. binds' \in Seq(Binds)
      BY BindAdded
    <3> QED
      BY <1>1, <2>1, <3>1, LenProperties
  <2> QED
    BY <1>3, <2>1, <2>2
<1>4. CASE /\ stage' = "conflict" /\ ~override /\ binds' = binds
           /\ \E i \in 1..Len(binds) : binds[i].source = b.source /\ binds[i].mode # b.mode
  BY <1>1, <1>4
<1>5. \/ binds' = Append(binds, b)
      \/ \E i \in 1..Len(binds) : \E c \in Binds :
           /\ binds' = [binds EXCEPT ![i] = c]
           /\ binds[i].source = b.source /\ c.source = b.source /\ c.mode = b.mode
           /\ binds[i].mode = b.mode \/ override
      \/ /\ stage' = "conflict" /\ ~override /\ binds' = binds
         /\ \E i \in 1..Len(binds) : binds[i].source = b.source /\ binds[i].mode # b.mode
  BY BindAdded
<1>6. CASE \E i \in 1..Len(binds) : \E c \in Binds :
           /\ binds' = [binds EXCEPT ![i] = c]
           /\ binds[i].source = b.source /\ c.source = b.source /\ c.mode = b.mode
           /\ binds[i].mode = b.mode \/ override
  <2>1. PICK i \in 1..Len(binds) : \E c \in Binds :
           /\ binds' = [binds EXCEPT ![i] = c]
           /\ binds[i].source = b.source /\ c.source = b.source /\ c.mode = b.mode
           /\ binds[i].mode = b.mode \/ override
    BY <1>6
  <2>2. PICK c \in Binds :
           /\ binds' = [binds EXCEPT ![i] = c]
           /\ binds[i].source = b.source /\ c.source = b.source /\ c.mode = b.mode
           /\ binds[i].mode = b.mode \/ override
    BY <2>1
  <2> HIDE DEF Binds
  <2> QED
    BY <1>1, <1>3, <2>2
<1> QED
  BY <1>2, <1>4, <1>5, <1>6

\* The layers' own binds are where they were.
LEMMA SamePlaces ==
    ASSUME UNCHANGED past
    PROVE  /\ \A i, n : Source(i, n)' = Source(i, n) /\ Mode(i, n)' = Mode(i, n)
           /\ Agree' = Agree
<1>1. \A i, n : Source(i, n)' = Source(i, n) /\ Mode(i, n)' = Mode(i, n)
  BY DEF Source, Mode
<1> QED
  BY <1>1 DEF Agree

\* A bind of the request is no conflict, and takes nothing away.
LEMMA RequestServed ==
    ASSUME MergeType, Merging, NEW b \in Binds, NEW next, AddBind(b, TRUE, next),
           UNCHANGED <<past, request>>, stage \notin {"layers", "conflict", "invalid"},
           next \in {stage, "inline"}
    PROVE  Merging'
<1>1. binds \in Seq(Binds) /\ asks \in Seq(Binds)
  BY DEF MergeType, TypeOK
<1>2. /\ Len(binds) \in Nat /\ Len(binds') \in Nat /\ Len(binds) <= Len(binds')
      /\ \A m \in 1..Len(binds) : binds'[m].source = binds[m].source
  BY <1>1, AddedKeeps
<1>3. stage' = next
  BY <1>1, BindAdded
<1>4. ASSUME NEW i \in 1..Len(past), NEW n \in 1..Len(past[i].binds) PROVE Served(i, n)'
  <2> SUFFICES ASSUME Source(i, n)' \in Paths PROVE Served(i, n)'
    BY PathsAssumption DEF Served
  <2>1. PICK m \in 1..Len(binds) : binds[m].source = Source(i, n)
    BY SamePlaces DEF Merging, Served
  <2>2. m \in 1..Len(binds') /\ binds'[m].source = Source(i, n)'
    BY <1>2, <2>1, SamePlaces
  <2>3. stage' # "layers"
    BY <1>3
  <2> QED
    BY <2>2, <2>3 DEF Served
<1>5. ~request'.override => Agree'
  BY SamePlaces DEF Merging
<1> QED
  BY <1>3, <1>4, <1>5 DEF Merging

LEMMA MergingLayer ==
    ASSUME MergeType, Values, Merging, NEW l \in LayerSet, MergeLayer(l)
    PROVE  Merging'
<1> DEFINE L == Len(past) + 1
<1>1. /\ past' = Append(past, l) /\ past \in Seq(LayerSet) /\ past' \in Seq(LayerSet)
      /\ todo = <<>> /\ todo' = l.binds /\ stage = "layers" /\ stage' = "layers"
      /\ UNCHANGED <<request, binds>>
  BY MergeStep DEF MergeLayer, MergeType, TypeOK
<1>2. /\ Len(past) \in Nat /\ Len(past') = L /\ past'[L] = l
      /\ \A i \in 1..Len(past) : past'[i] = past[i]
      /\ \A i \in 1..L : i \in 1..Len(past) \/ i = L
  BY <1>1, MergeStep
<1>3. \A i \in 1..Len(past) : \A n :
        Source(i, n)' = Source(i, n) /\ Mode(i, n)' = Mode(i, n) /\ Served(i, n)' = Served(i, n)
  <2>1. \A i \in 1..Len(past) : \A n : Source(i, n)' = Source(i, n) /\ Mode(i, n)' = Mode(i, n)
    BY <1>2 DEF Source, Mode
  <2> QED
    BY <1>1, <2>1 DEF Served
<1>4. Len(l.binds) \in Nat /\ Len(todo) = 0
  <2>1. l.binds \in Seq(RawBinds)
    BY DEF LayerSet
  <2> QED
    BY <1>1, <2>1, LenProperties
<1>5. TodoLast'
  <2>1. past' # <<>>
    BY <1>2
  <2> QED
    BY <1>1, <1>2, <1>4, <2>1 DEF TodoLast
<1>6. OfLayers'
  <2>1. ASSUME NEW m \in 1..Len(binds)
        PROVE  \E i \in 1..Len(past') : \E n \in 1..Len(past'[i].binds) :
                 Source(i, n)' = binds'[m].source /\ Mode(i, n)' = binds'[m].mode
    <3>1. PICK i \in 1..Len(past) : \E n \in 1..Len(past[i].binds) :
             Source(i, n) = binds[m].source /\ Mode(i, n) = binds[m].mode
      BY <1>1 DEF Merging, OfLayers
    <3>2. i \in 1..Len(past') /\ past'[i] = past[i]
      BY <1>2
    <3> QED
      BY <1>1, <1>3, <3>1, <3>2
  <2> QED
    BY <1>1, <2>1 DEF OfLayers
<1>7. ASSUME NEW i \in 1..Len(past'), NEW n \in 1..Len(past'[i].binds),
             i < Len(past') \/ n <= Len(past'[i].binds) - Len(todo')
      PROVE  Served(i, n)'
  <2>1. CASE i \in 1..Len(past)
    <3>1. n \in 1..Len(past[i].binds) /\ n <= Len(past[i].binds) - Len(todo)
      <4>1. Len(past[i].binds) \in Nat
        BY <1>1, <2>1, LayerParts
      <4> QED
        BY <1>2, <1>4, <2>1, <4>1
    <3>2. Served(i, n)
      BY <1>1, <2>1, <3>1 DEF Merging
    <3> QED
      BY <1>3, <2>1, <3>2
  <2>2. CASE i = L
    BY <1>1, <1>2, <1>4, <1>7, <2>2
  <2> QED
    BY <1>2, <2>1, <2>2
<1>8. ASSUME ~request.override PROVE EnvAgrees'
  <2>1. ASSUME NEW i \in 1..Len(past'), NEW k \in Keys, past'[i].env[k] # Unset
        PROVE  past'[i].env[k] = env'[k]
    <3>1. env'[k] = Or(l.env[k], env[k]) /\ (Unset \in {env[k], l.env[k]} \/ env[k] = l.env[k])
      BY <1>8 DEF MergeLayer, EnvConflict
    <3>2. CASE i \in 1..Len(past)
      <4>1. past'[i].env[k] = env[k]
        BY <1>1, <1>2, <1>8, <2>1, <3>2 DEF Merging, EnvAgrees
      <4> QED
        BY <2>1, <3>1, <4>1 DEF Or
    <3>3. CASE i = L
      BY <1>2, <2>1, <3>1, <3>3 DEF Or
    <3> QED
      BY <1>2, <3>2, <3>3
  <2> QED
    BY <2>1 DEF EnvAgrees
<1> QED
  BY <1>1, <1>5, <1>6, <1>7, <1>8 DEF Merging

LEMMA MergingConflict ==
    ASSUME MergeType, Values, Merging, NEW l \in LayerSet, LayerConflicts(l)
    PROVE  Merging'
<1> DEFINE L == Len(past) + 1
<1>1. /\ past' = Append(past, l) /\ past \in Seq(LayerSet) /\ stage = "layers" /\ stage' = "conflict"
      /\ UNCHANGED request /\ EnvConflict(l)
  BY DEF LayerConflicts, MergeType, TypeOK
<1>2. /\ Len(past) \in Nat /\ Len(past') = L /\ past'[L] = l
      /\ DOMAIN past = 1..Len(past)
      /\ \A i \in 1..Len(past) : past'[i] = past[i]
  BY <1>1, MergeStep
<1>3. PICK k \in Keys : Unset \notin {env[k], l.env[k]} /\ env[k] # l.env[k]
  BY <1>1 DEF EnvConflict
<1>4. env[k] = LastSet(k)
  BY <1>1 DEF Values, Before
<1>5. PICK i \in 1..Len(past) : past[i].env[k] = env[k]
  <2>1. Setters(k) # {} /\ Setters(k) \in SUBSET (1..Len(past))
    BY <1>2, <1>3, <1>4 DEF LastSet, Setters
  <2>2. Max(Setters(k)) \in 1..Len(past)
    BY <1>2, <2>1, GreatestExists
  <2> QED
    BY <1>4, <2>1, <2>2 DEF LastSet
<1>6. ~Agree'
  <2>1. i \in 1..Len(past') /\ L \in 1..Len(past')
    BY <1>2
  <2>2. past'[i].env[k] = env[k] /\ past'[L].env[k] = l.env[k]
    BY <1>2, <1>5
  <2> QED
    BY <1>3, <2>1, <2>2 DEF Agree
<1> QED
  BY <1>1, <1>6 DEF Merging, EnvConflict

LEMMA MergingBind ==
    ASSUME MergeType, Merging, LayerBind
    PROVE  Merging'
<1> DEFINE L == Len(past)
           p == Len(past[L].binds) - Len(todo) + 1
<1>1. TypeOK /\ AddNext(request.override) /\ stage = "layers"
  BY DEF MergeType, LayerBind
<1>2. /\ todo \in Seq(RawBinds) /\ todo # <<>> /\ todo' = Tail(todo) /\ todo' \in Seq(RawBinds)
      /\ UNCHANGED <<request, past, env>> /\ past \in Seq(LayerSet)
  BY <1>1, NextBind DEF TypeOK
<1>3. TodoLast /\ OfLayers /\ past # <<>>
  BY <1>1, <1>2 DEF Merging, TodoLast
<1>4. L \in Nat /\ L > 0 /\ Len(past[L].binds) \in Nat /\ Len(past[L].binds) >= Len(todo)
  <2>1. L \in Nat /\ L > 0
    BY <1>2, <1>3, EmptySeq
  <2> QED
    BY <1>2, <1>3, <2>1, LayerParts DEF TodoLast
<1>5. Len(todo) \in Nat /\ Len(todo) > 0 /\ Len(todo') = Len(todo) - 1
      /\ \A j \in 1..Len(todo') : todo'[j] = todo[j + 1]
  BY <1>2, HeadTailProperties
<1>6. p \in 1..Len(past[L].binds) /\ p = Len(past[L].binds) - Len(todo')
  BY <1>4, <1>5
<1>7. Head(todo) = past[L].binds[p]
  <2>1. Head(todo) = todo[1]
    BY <1>2
  <2>2. todo[1] = past[L].binds[Len(past[L].binds) - Len(todo) + 1]
    BY <1>3, <1>5 DEF TodoLast
  <2> QED
    BY <2>1, <2>2
<1> HIDE DEF p
<1>8. Source(L, p) = Expand[Head(todo).source] /\ Mode(L, p) = Head(todo).mode
  BY <1>7 DEF Source, Mode
<1>9. TodoLast'
  <2>1. ASSUME NEW j \in 1..Len(todo')
        PROVE  todo'[j] = past[L].binds[Len(past[L].binds) - Len(todo') + j]
    <3>1. todo'[j] = todo[j + 1] /\ j + 1 \in 1..Len(todo)
      BY <1>5
    <3>2. todo[j + 1] = past[L].binds[Len(past[L].binds) - Len(todo) + (j + 1)]
      BY <1>3, <3>1 DEF TodoLast
    <3>3. Len(past[L].binds) - Len(todo) + (j + 1) = Len(past[L].binds) - Len(todo') + j
      <4>1. PICK x \in Nat : x = Len(past[L].binds)
        BY <1>4
      <4>2. PICK y \in Nat : y = Len(todo) /\ Len(todo') = y - 1
        BY <1>5
      <4>3. j \in Nat
        BY <1>5
      <4>4. x - y + (j + 1) = x - (y - 1) + j
        BY <4>3
      <4> HIDE DEF L
      <4> QED
        BY <4>1, <4>2, <4>4
    <3> QED
      BY <3>1, <3>2, <3>3
  <2>2. Len(todo') <= Len(past[L].binds)
    BY <1>4, <1>5
  <2> QED
    BY <1>2, <1>3, <2>1, <2>2 DEF TodoLast
<1>10. \A i \in 1..L : \A n \in 1..Len(past[i].binds) :
         i < L \/ n <= Len(past[i].binds) - Len(todo') => i < L \/ n <= Len(past[i].binds) - Len(todo) \/ (i = L /\ n = p)
  <2> SUFFICES ASSUME NEW i \in 1..L, NEW n \in 1..Len(past[i].binds), i = L, n <= Len(past[i].binds) - Len(todo')
               PROVE  n <= Len(past[i].binds) - Len(todo) \/ n = p
    BY <1>4
  <2>1. Len(past[L].binds) - Len(todo) = p - 1 /\ n <= p /\ n \in Nat
    BY <1>4, <1>5, <1>6
  <2> QED
    BY <1>6, <2>1
<1>11. ~request.override => EnvAgrees'
  BY <1>1, <1>2 DEF Merging, EnvAgrees
<1>12. CASE Expand[Head(todo).source] \notin Paths /\ stage' \in {stage, "invalid"} /\ UNCHANGED <<asks, binds>>
  <2>1. CASE stage' = "invalid"
    BY <2>1 DEF Merging
  <2>2. CASE stage' = "layers"
    <3>1. OfLayers'
      BY <1>2, <1>3, <1>12, SamePlaces DEF OfLayers
    <3>2. ASSUME NEW i \in 1..L, NEW n \in 1..Len(past[i].binds),
                 i < L \/ n <= Len(past[i].binds) - Len(todo')
          PROVE  Served(i, n)'
      <4>1. CASE i < L \/ n <= Len(past[i].binds) - Len(todo)
        <5>1. Served(i, n)
          BY <1>1, <4>1 DEF Merging
        <5> QED
          BY <1>1, <1>2, <1>12, <2>2, <5>1, SamePlaces DEF Served
      <4>2. CASE i = L /\ n = p
        BY <1>2, <1>8, <1>12, <4>2, SamePlaces DEF Served
      <4> QED
        BY <1>10, <3>2, <4>1, <4>2
    <3> QED
      BY <1>2, <1>9, <1>11, <2>2, <3>1, <3>2 DEF Merging
  <2> QED
    BY <1>1, <1>12, <2>1, <2>2
<1>13. CASE /\ Expand[Head(todo).source] \in Paths
            /\ [Head(todo) EXCEPT !.source = Expand[@]] \in Binds
            /\ AddBind([Head(todo) EXCEPT !.source = Expand[@]], request.override, stage)
  <2> DEFINE b == [Head(todo) EXCEPT !.source = Expand[@]]
  <2>1. b \in Binds /\ AddBind(b, request.override, stage)
    BY <1>13
  <2>2. b.source = Source(L, p) /\ b.mode = Mode(L, p)
    <3>1. Head(todo) \in RawBinds
      BY <1>1, NextBind
    <3> QED
      BY <1>8, <3>1 DEF RawBinds
  <2> HIDE DEF b
  <2>3. binds \in Seq(Binds) /\ asks \in Seq(Binds)
    BY <1>1 DEF TypeOK
  <2>4. /\ Len(binds) \in Nat /\ Len(binds') \in Nat /\ Len(binds) <= Len(binds')
        /\ \A m \in 1..Len(binds) :
             binds'[m].source = binds[m].source /\ (~request.override => binds'[m].mode = binds[m].mode)
        /\ \A m \in 1..Len(binds') :
             \/ m \in 1..Len(binds) /\ binds'[m].source = binds[m].source /\ binds'[m].mode = binds[m].mode
             \/ binds'[m].source = b.source /\ binds'[m].mode = b.mode
    BY <2>1, <2>3, AddedKeeps
  <2>5. \/ \E m \in 1..Len(binds') : binds'[m].source = b.source /\ binds'[m].mode = b.mode
        \/ /\ ~request.override /\ stage' = "conflict"
           /\ \E m \in 1..Len(binds) : binds[m].source = b.source /\ binds[m].mode # b.mode
    BY <2>1, <2>3, AddedKeeps
  <2>6. stage' \in {"layers", "conflict"} /\ (stage' = "conflict" => ~request.override
           /\ \E m \in 1..Len(binds) : binds[m].source = b.source /\ binds[m].mode # b.mode)
    BY <1>1, <2>1, <2>3, BindAdded
  <2>7. CASE stage' = "conflict"
    <3>1. PICK m \in 1..Len(binds) : binds[m].source = b.source /\ binds[m].mode # b.mode
      BY <2>6, <2>7
    <3>2. PICK i \in 1..Len(past) : \E n \in 1..Len(past[i].binds) :
             Source(i, n) = binds[m].source /\ Mode(i, n) = binds[m].mode
      BY <1>3 DEF OfLayers
    <3>3. PICK n \in 1..Len(past[i].binds) : Source(i, n) = binds[m].source /\ Mode(i, n) = binds[m].mode
      BY <3>2
    <3>4. L \in 1..Len(past) /\ Source(L, p) \in Paths
      BY <1>4, <1>8, <1>13
    <3>5. ~Agree
      <4>1. Source(i, n) = Source(L, p) /\ Source(i, n) \in Paths
        BY <2>2, <3>1, <3>3, <3>4
      <4>2. Mode(i, n) # Mode(L, p)
        BY <2>2, <3>1, <3>3
      <4> HIDE DEF L
      <4> QED
        BY <1>6, <3>4, <4>1, <4>2 DEF Agree
    <3> QED
      BY <1>2, <2>6, <2>7, <3>5, SamePlaces DEF Merging
  <2>8. CASE stage' = "layers"
    <3>1. OfLayers'
      <4>1. ASSUME NEW m \in 1..Len(binds')
            PROVE  \E i \in 1..Len(past) : \E n \in 1..Len(past[i].binds) :
                     Source(i, n) = binds'[m].source /\ Mode(i, n) = binds'[m].mode
        <5>1. CASE m \in 1..Len(binds) /\ binds'[m].source = binds[m].source /\ binds'[m].mode = binds[m].mode
          BY <1>3, <5>1 DEF OfLayers
        <5>2. CASE binds'[m].source = b.source /\ binds'[m].mode = b.mode
          BY <1>4, <1>6, <2>2, <5>2
        <5> QED
          BY <2>4, <5>1, <5>2
      <4> QED
        BY <1>2, <4>1, SamePlaces DEF OfLayers
    <3>2. ASSUME NEW i \in 1..L, NEW n \in 1..Len(past[i].binds),
                 i < L \/ n <= Len(past[i].binds) - Len(todo')
          PROVE  Served(i, n)'
      <4>1. CASE i < L \/ n <= Len(past[i].binds) - Len(todo)
        <5> SUFFICES ASSUME Source(i, n) \in Paths PROVE Served(i, n)'
          BY <1>2, SamePlaces, PathsAssumption DEF Served
        <5>1. Served(i, n)
          BY <1>1, <4>1 DEF Merging
        <5>2. PICK m \in 1..Len(binds) : binds[m].source = Source(i, n) /\ (~request.override => binds[m].mode = Mode(i, n))
          BY <1>1, <5>1 DEF Served
        <5>3. m \in 1..Len(binds') /\ binds'[m].source = Source(i, n) /\ (~request.override => binds'[m].mode = Mode(i, n))
          BY <2>4, <5>2
        <5> QED
          BY <1>2, <5>3, SamePlaces DEF Served
      <4>2. CASE i = L /\ n = p
        <5>1. PICK m \in 1..Len(binds') : binds'[m].source = b.source /\ binds'[m].mode = b.mode
          BY <2>5, <2>8
        <5> QED
          BY <1>2, <2>2, <4>2, <5>1, SamePlaces DEF Served
      <4> QED
        BY <1>10, <3>2, <4>1, <4>2
    <3> QED
      BY <1>2, <1>9, <1>11, <2>8, <3>1, <3>2 DEF Merging
  <2> QED
    BY <2>6, <2>7, <2>8
<1> QED
  BY <1>1, <1>12, <1>13, NextBind

LEMMA MergingMerged ==
    ASSUME MergeType, BindInv, Merging, LayersMerged
    PROVE  Merging'
<1>1. /\ stage = "layers" /\ todo = <<>> /\ past \in Seq(LayerSet) /\ binds \in Seq(Binds)
      /\ UNCHANGED <<request, past, binds, env>> /\ stage' \in {"project", "invalid"}
  BY DEF LayersMerged, MergeType, TypeOK
<1>2. ASSUME NEW i \in 1..Len(past), NEW n \in 1..Len(past[i].binds) PROVE Served(i, n)
  <2>1. Len(todo) = 0 /\ Len(past[i].binds) \in Nat
    BY <1>1, LayerParts
  <2>2. n <= Len(past[i].binds) - Len(todo)
    BY <2>1
  <2> QED
    BY <1>1, <2>2 DEF Merging
<1>3. \A i \in 1..Len(past) : \A n \in 1..Len(past[i].binds) : Served(i, n)'
  BY <1>1, <1>2, SamePlaces DEF Served
<1>4. ASSUME ~request.override PROVE Agree
  <2>1. ASSUME NEW i \in 1..Len(past), NEW j \in 1..Len(past),
               NEW n \in 1..Len(past[i].binds), NEW m \in 1..Len(past[j].binds),
               Source(i, n) = Source(j, m), Source(i, n) \in Paths
        PROVE  Mode(i, n) = Mode(j, m)
    <3>1. PICK x \in 1..Len(binds) : binds[x].source = Source(i, n) /\ binds[x].mode = Mode(i, n)
      BY <1>1, <1>2, <1>4, <2>1 DEF Served
    <3>2. PICK y \in 1..Len(binds) : binds[y].source = Source(j, m) /\ binds[y].mode = Mode(j, m)
      BY <1>1, <1>2, <1>4, <2>1 DEF Served
    <3>3. x = y
      <4>1. stage # "conflict" /\ binds[x].source = binds[y].source
        BY <1>1, <2>1, <3>1, <3>2
      <4>2. \A z, w \in 1..Len(binds) : z # w => binds[z].source # binds[w].source
        BY <4>1 DEF BindInv
      <4> QED
        BY <4>1, <4>2
    <3> QED
      BY <3>1, <3>2, <3>3
  <2>2. EnvAgrees
    BY <1>1, <1>4 DEF Merging
  <2>3. ASSUME NEW i \in 1..Len(past), NEW j \in 1..Len(past), NEW k \in Keys,
               Unset \notin {past[i].env[k], past[j].env[k]}
        PROVE  past[i].env[k] = past[j].env[k]
    BY <2>2, <2>3 DEF EnvAgrees
  <2> QED
    BY <2>1, <2>3 DEF Agree
<1> QED
  BY <1>1, <1>3, <1>4, SamePlaces DEF Merging

LEMMA MergingStep ==
    ASSUME MergeType, BindInv, Values, Merging, MergeAct
    PROVE  Merging'
<1>1. TypeOK
  BY DEF MergeType
<1>2. CASE BindProject
  <2>1. CASE AddBind(ProjectBind, TRUE, "inline")
    <3>1. ProjectBind \in Binds
      BY PathsAssumption DEF ProjectBind, Binds, BindModes
    <3>2. UNCHANGED <<past, request>> /\ stage = "project"
      BY <1>2 DEF BindProject
    <3> QED
      BY <2>1, <3>1, <3>2, RequestServed
  <2>2. CASE stage' = "inline" /\ UNCHANGED <<asks, binds>>
    BY <1>2, <2>2, SamePlaces DEF BindProject, Merging, Served
  <2> QED
    BY <1>2, <2>1, <2>2 DEF BindProject, ProjectBind
<1>3. CASE Inline
  BY <1>3, SamePlaces DEF Inline, Merging, Served
<1>4. CASE InlineBind
  <2>1. /\ UNCHANGED <<past, request>> /\ stage = "binds"
        /\ \/ /\ [Head(todo) EXCEPT !.source = Expand[@]] \in Binds
              /\ AddBind([Head(todo) EXCEPT !.source = Expand[@]], TRUE, stage)
           \/ stage' \in {stage, "invalid"} /\ UNCHANGED <<asks, binds>>
    BY <1>1, <1>4, NextBind DEF InlineBind
  <2>2. CASE /\ [Head(todo) EXCEPT !.source = Expand[@]] \in Binds
             /\ AddBind([Head(todo) EXCEPT !.source = Expand[@]], TRUE, stage)
    <3> DEFINE b == [Head(todo) EXCEPT !.source = Expand[@]]
    <3>1. b \in Binds /\ AddBind(b, TRUE, stage)
      BY <2>2
    <3> HIDE DEF b
    <3> QED
      BY <2>1, <3>1, RequestServed
  <2>3. CASE stage' \in {stage, "invalid"} /\ UNCHANGED <<asks, binds>>
    BY <2>1, <2>3, SamePlaces DEF Merging, Served
  <2> QED
    BY <2>1, <2>2, <2>3
<1>5. CASE InlineBound \/ Defaults
  BY <1>5, SamePlaces DEF InlineBound, Defaults, Merging, Served
<1> QED
  BY <1>2, <1>3, <1>4, <1>5, MergingLayer, MergingConflict, MergingBind, MergingMerged DEF MergeAct, Rest

-----------------------------------------------------------------------------
(* The merge, whatever layers it is given.                                  *)

MInv == MergeType /\ BindInv /\ Values /\ Merging

LEMMA MergeStarts == ASSUME Start PROVE MInv
BY StartType, BindInvStart, ValuesStart, MergingStart DEF MInv

LEMMA MergeSteps == ASSUME MInv, MergeAct PROVE MInv'
BY StepType, BindInvStep, ValuesStep, MergingStep DEF MInv

LEMMA MergeStutters == ASSUME MInv, UNCHANGED vars PROVE MInv'
<1>1. MergeType'
  BY DEF MInv, MergeType, TypeOK, vars
<1>2. BindInv'
  BY DEF MInv, BindInv, vars
<1>3. Values'
  <2>1. \A k \in Keys : LastSet(k)' = LastSet(k) /\ Spelled(k)' = Spelled(k) /\ DefaultOf(k)' = DefaultOf(k)
    BY DEF vars, LastSet, Setters, Spelled, DefaultOf
  <2>2. LastClear' = LastClear /\ United' = United
    BY DEF vars, LastClear, Clears, United
  <2> QED
    BY <2>1, <2>2 DEF MInv, Values, vars
<1>4. Merging'
  BY DEF MInv, Merging, vars, TodoLast, OfLayers, EnvAgrees, Served, Agree, Source, Mode
<1> QED
  BY <1>1, <1>2, <1>3, <1>4 DEF MInv

LEMMA MergeImplies ==
    ASSUME MInv
    PROVE  TypeOK /\ BindsFollowRequests /\ ConflictsReported /\ NetworkRestricted
<1>1. TypeOK
  BY DEF MInv, MergeType
<1>2. BindsFollowRequests
  BY <1>1, BindInvIs DEF MInv, TypeOK
<1> QED
  BY <1>1, <1>2, ReportedIs, RestrictedIs DEF MInv

\* A request merged with any profiles, in any order.
THEOREM MergeInvariant == Spec => []MInv
<1>1. Init => Start
  BY LayersAssumption DEF Init, Start
<1>2. Next => MergeAct
  BY LayersAssumption DEF Next, MergeAct
<1> QED
  BY <1>1, <1>2, MergeStarts, MergeSteps, MergeStutters, PTL DEF Spec

-----------------------------------------------------------------------------
(* Keep, by induction over the tokens: what it keeps, and where it was.     *)

\* The first n tokens of s kept in k, the j-th of them from place h[j].
Picks(s, kinds, n, k, h) ==
    /\ h \in [1..Len(k) -> 1..n]
    /\ \A j \in 1..Len(k) : k[j] = s[h[j]] /\ s[h[j]].is \in kinds
    /\ \A i, j \in 1..Len(k) : i < j => h[i] < h[j]
    /\ \A i \in 1..n : s[i].is \in kinds => \E j \in 1..Len(k) : h[j] = i

\* A function that is a recursive definition of the first m of Keep's rounds.
IsKept(s, kinds, m, f) ==
    f = [n \in 0..m |->
          IF n = 0 THEN <<>>
          ELSE IF s[n].is \in kinds THEN Append(f[n - 1], s[n]) ELSE f[n - 1]]

LEMMA KeptExists ==
    ASSUME NEW s, NEW kinds, NEW N \in Nat
    PROVE  \E f : IsKept(s, kinds, N, f)
<1> DEFINE T == {m \in Nat : \E f : IsKept(s, kinds, m, f)}
<1>1. 0 \in T
  <2> DEFINE f == [n \in 0..0 |-> <<>>]
  <2>1. f = [n \in 0..0 |->
          IF n = 0 THEN <<>>
          ELSE IF s[n].is \in kinds THEN Append(f[n - 1], s[n]) ELSE f[n - 1]]
    OBVIOUS
  <2> HIDE DEF f
  <2>2. IsKept(s, kinds, 0, f)
    BY <2>1 DEF IsKept
  <2> QED
    BY <2>2
<1>2. ASSUME NEW m \in Nat, m \in T PROVE m + 1 \in T
  <2>1. PICK f : IsKept(s, kinds, m, f)
    BY <1>2
  <2>2. f = [n \in 0..m |->
          IF n = 0 THEN <<>>
          ELSE IF s[n].is \in kinds THEN Append(f[n - 1], s[n]) ELSE f[n - 1]]
    BY <2>1 DEF IsKept
  <2>3. \A n \in 0..m : f[n] =
          IF n = 0 THEN <<>>
          ELSE IF s[n].is \in kinds THEN Append(f[n - 1], s[n]) ELSE f[n - 1]
    BY <2>2
  <2> DEFINE more == IF s[m + 1].is \in kinds THEN Append(f[m], s[m + 1]) ELSE f[m]
             g == [n \in 0..m + 1 |-> IF n = m + 1 THEN more ELSE f[n]]
  <2>4. /\ g[m + 1] = more
        /\ \A n \in 0..m : g[n] = f[n]
        /\ \A n \in 0..m + 1 : n \in 0..m \/ n = m + 1
        /\ \A n \in 1..m + 1 : n - 1 \in 0..m
    BY <1>2
  <2>5. ASSUME NEW n \in 0..m + 1
        PROVE  g[n] = IF n = 0 THEN <<>>
                      ELSE IF s[n].is \in kinds THEN Append(g[n - 1], s[n]) ELSE g[n - 1]
    <3> HIDE DEF g
    <3>1. CASE n = m + 1
      BY <2>4, <3>1
    <3>2. CASE n \in 0..m
      BY <2>3, <2>4, <3>2
    <3> QED
      BY <2>4, <3>1, <3>2
  <2>6. g = [n \in 0..m + 1 |-> g[n]]
    OBVIOUS
  <2> HIDE DEF g
  <2>7. IsKept(s, kinds, m + 1, g)
    BY <2>5, <2>6 DEF IsKept
  <2> QED
    BY <2>7
<1> HIDE DEF T
<1>3. Nat \subseteq T
  BY <1>1, <1>2, Induction
<1> QED
  BY <1>3 DEF T

LEMMA KeepPicks ==
    ASSUME NEW S, NEW s \in Seq(S), NEW kinds
    PROVE  Keep(s, kinds) \in Seq(S) /\ \E h : Picks(s, kinds, Len(s), Keep(s, kinds), h)
<1> DEFINE N == Len(s)
           kept == CHOOSE f : IsKept(s, kinds, N, f)
<1>1. N \in Nat /\ \A n \in 1..N : s[n] \in S
  BY ElementOfSeq
<1>2. Keep(s, kinds) = kept[N]
  BY DEF Keep, IsKept
<1>3. IsKept(s, kinds, N, kept)
  BY <1>1, KeptExists
<1> HIDE DEF kept
<1>4. /\ kept[0] = <<>>
      /\ \A n \in 1..N : kept[n] = IF s[n].is \in kinds THEN Append(kept[n - 1], s[n]) ELSE kept[n - 1]
  <2>1. kept = [n \in 0..N |->
          IF n = 0 THEN <<>>
          ELSE IF s[n].is \in kinds THEN Append(kept[n - 1], s[n]) ELSE kept[n - 1]]
    BY <1>3 DEF IsKept
  <2> HIDE DEF N
  <2>2. \A n \in 0..N : kept[n] =
          IF n = 0 THEN <<>>
          ELSE IF s[n].is \in kinds THEN Append(kept[n - 1], s[n]) ELSE kept[n - 1]
    BY <2>1
  <2>3. 0 \in 0..N /\ \A n \in 1..N : n \in 0..N /\ n # 0
    BY <1>1
  <2> QED
    BY <2>2, <2>3
<1> DEFINE T == {n \in Nat : n <= N => kept[n] \in Seq(S) /\ \E h : Picks(s, kinds, n, kept[n], h)}
<1>5. 0 \in T
  <2>1. Len(<<>>) = 0 /\ <<>> \in Seq(S)
    BY EmptySeq
  <2>2. Picks(s, kinds, 0, <<>>, [j \in 1..0 |-> 0])
    BY <2>1 DEF Picks
  <2> QED
    BY <1>4, <2>1, <2>2
<1>6. ASSUME NEW n \in Nat, n \in T PROVE n + 1 \in T
  <2> SUFFICES ASSUME n + 1 <= N
               PROVE  kept[n + 1] \in Seq(S) /\ \E h : Picks(s, kinds, n + 1, kept[n + 1], h)
    OBVIOUS
  <2>1. kept[n] \in Seq(S) /\ \E h : Picks(s, kinds, n, kept[n], h)
    BY <1>1, <1>6
  <2>2. PICK h : Picks(s, kinds, n, kept[n], h)
    BY <2>1
  <2>3. /\ n + 1 \in 1..N
        /\ kept[n + 1] = IF s[n + 1].is \in kinds THEN Append(kept[n], s[n + 1]) ELSE kept[n]
    BY <1>1, <1>4
  <2> DEFINE m == Len(kept[n])
  <2>4. m \in Nat
    BY <2>1
  <2>5. /\ h \in [1..m -> 1..n]
        /\ \A j \in 1..m : kept[n][j] = s[h[j]] /\ s[h[j]].is \in kinds
        /\ \A i, j \in 1..m : i < j => h[i] < h[j]
        /\ \A i \in 1..n : s[i].is \in kinds => \E j \in 1..m : h[j] = i
    BY <2>2 DEF Picks
  <2>6. CASE s[n + 1].is \notin kinds
    <3>1. h \in [1..m -> 1..n + 1]
      BY <2>5
    <3>2. ASSUME NEW i \in 1..n + 1, s[i].is \in kinds PROVE \E j \in 1..m : h[j] = i
      BY <2>5, <2>6, <3>2
    <3>3. Picks(s, kinds, n + 1, kept[n], h)
      BY <2>5, <3>1, <3>2 DEF Picks
    <3> QED
      BY <2>1, <2>3, <2>6, <3>3
  <2>7. CASE s[n + 1].is \in kinds
    <3> DEFINE k == kept[n + 1]
               g == [j \in 1..m + 1 |-> IF j = m + 1 THEN n + 1 ELSE h[j]]
    <3>1. k = Append(kept[n], s[n + 1])
      BY <2>3, <2>7
    <3>2. /\ k \in Seq(S) /\ Len(k) = m + 1 /\ k[m + 1] = s[n + 1]
          /\ \A j \in 1..m : k[j] = kept[n][j]
      BY <1>1, <2>1, <2>3, <3>1, AppendProperties
    <3>3. g[m + 1] = n + 1 /\ (\A j \in 1..m : g[j] = h[j]) /\ \A j \in 1..m + 1 : j \in 1..m \/ j = m + 1
      BY <2>4
    <3>4. g \in [1..m + 1 -> 1..n + 1]
      BY <2>4, <2>5
    <3> HIDE DEF g, k
    <3>5. \A j \in 1..m : h[j] \in 1..n
      BY <2>5
    <3>6. \A j \in 1..m + 1 : k[j] = s[g[j]] /\ s[g[j]].is \in kinds
      BY <2>5, <2>7, <3>2, <3>3
    <3>7. ASSUME NEW i \in 1..m + 1, NEW j \in 1..m + 1, i < j PROVE g[i] < g[j]
      <4>1. i \in 1..m
        BY <2>4, <3>7
      <4>2. CASE j = m + 1
        BY <3>3, <3>5, <4>1, <4>2
      <4>3. CASE j \in 1..m
        BY <2>5, <3>3, <3>7, <4>1, <4>3
      <4> QED
        BY <3>3, <4>2, <4>3
    <3>8. ASSUME NEW i \in 1..n + 1, s[i].is \in kinds PROVE \E j \in 1..m + 1 : g[j] = i
      <4>1. CASE i = n + 1
        BY <2>4, <3>3, <4>1
      <4>2. CASE i \in 1..n
        <5>1. PICK j \in 1..m : h[j] = i
          BY <2>5, <3>8, <4>2
        <5> QED
          BY <2>4, <3>3, <5>1
      <4> QED
        BY <4>1, <4>2
    <3>9. Picks(s, kinds, n + 1, k, g)
      BY <3>2, <3>4, <3>6, <3>7, <3>8 DEF Picks
    <3> QED
      BY <3>2, <3>9 DEF k
  <2> QED
    BY <2>6, <2>7
<1> HIDE DEF T
<1>7. N \in T
  BY <1>1, <1>5, <1>6, Induction
<1> QED
  BY <1>1, <1>2, <1>7 DEF T

-----------------------------------------------------------------------------
(* The command line: tokens, profiles, and the documents found for them.    *)

\* What TokensAssumption says of a token.
Told(token) ==
    /\ token.is \in Kinds
    /\ token.is = "profile" => token.of \in DOMAIN Builtin
    /\ token.is = "flag" => token.of \in {"no_base", "override"}
    /\ token.is = "option" => token.of \in {"project", "network"}
    /\ token.is = "word" => token.of \in Words
    /\ token.is = "bind" => token.of \in Seq(RawBinds)
    /\ token.is = "env" => token.of \subseteq Items /\ token.of # Unset
    /\ token.is = "net" /\ token.of # Unset => token.of \subseteq Items /\ \A i \in token.of : Covers[i] = {}

LEMMA ArgvTold ==
    ASSUME argv \in Argvs
    PROVE  argv \in Seq(ToSet(argv)) /\ \A token \in ToSet(argv) : Told(token)
BY TokensAssumption DEF Told

LEMMA LeftTold ==
    ASSUME argv \in Argvs
    PROVE  Left \in Seq(ToSet(argv)) /\ Len(Left) \in Nat /\ DOMAIN Left = 1..Len(Left)
           /\ \A i \in 1..Len(Left) : Left[i] \in ToSet(argv)
<1>1. argv \in Seq(ToSet(argv)) /\ Len(argv) \in Nat /\ \A i \in 1..Len(argv) : argv[i] \in ToSet(argv)
  BY ArgvTold, LenProperties, ElementOfSeq
<1>2. At("sep") \in 0..Len(argv)
  <2> DEFINE I == {i \in 1..Len(argv) : argv[i].is = "sep"}
  <2>1. At("sep") = IF I # {} THEN Min(I) ELSE 0
    BY DEF At, SelectInSeq
  <2>2. I # {} => Min(I) \in I
    <3>1. I \in SUBSET Nat
      OBVIOUS
    <3> HIDE DEF I
    <3> QED
      BY <3>1, LeastIs
  <2> QED
    BY <1>1, <2>1, <2>2
<1>3. Left \in Seq(ToSet(argv))
  <2>1. CASE At("sep") = 0
    BY <1>1, <2>1 DEF Left
  <2>2. CASE At("sep") # 0
    <3>1. \A i \in 1..At("sep") - 1 : argv[i] \in ToSet(argv)
      BY <1>1, <1>2
    <3> QED
      BY <1>2, <2>2, <3>1, SubSeqProperties DEF Left
  <2> QED
    BY <2>1, <2>2
<1> QED
  BY <1>3, LenProperties, ElementOfSeq

LEMMA WantedType ==
    ASSUME argv \in Argvs, system \in Systems
    PROVE  Wanted \in Seq(DOMAIN Builtin)
<1>1. Left \in Seq(ToSet(argv))
  BY LeftTold
<1>2. Profiles \in Seq(ToSet(argv)) /\ \E h : Picks(Left, {"profile"}, Len(Left), Profiles, h)
  BY <1>1, KeepPicks DEF Profiles
<1>3. \A i \in 1..Len(Profiles) : Profiles[i].is = "profile"
  <2>1. PICK h : Picks(Left, {"profile"}, Len(Left), Profiles, h)
    BY <1>2
  <2> QED
    BY <2>1 DEF Picks
<1>4. \A i \in 1..Len(Profiles) : Profiles[i].of \in DOMAIN Builtin
  BY <1>2, <1>3, ArgvTold, ElementOfSeq DEF Told
<1>5. Names \in Seq(DOMAIN Builtin)
  <2>1. DOMAIN Profiles = 1..Len(Profiles) /\ Len(Profiles) \in Nat
    BY <1>2, LenProperties
  <2> QED
    BY <1>4, <2>1, IsASeq DEF Names
<1>6. BaseName \in DOMAIN Builtin
  BY DocsAssumption DEF BaseName
<1>7. <<>> \in Seq(DOMAIN Builtin) /\ <<BaseName>> \in Seq(DOMAIN Builtin)
  BY <1>6
<1> QED
  BY <1>5, <1>7, ConcatProperties DEF Wanted

Documents == {d \in Docs \cup {Builtin[n] : n \in DOMAIN Builtin} : d # Unset}

\* What the sections that parse_profile does not understand leave of a document.
LEMMA ParsedType ==
    ASSUME NEW doc \in Documents
    PROVE  /\ doc.layer \in LayerSet /\ Parsed(doc) \in LayerSet
           /\ Parsed(doc).binds = doc.layer.binds
           /\ "network" \notin doc.loose => Parsed(doc).network = doc.layer.network
           /\ \A item \in doc.layer.items \ Parsed(doc).items :
                \E s \in DOMAIN Within : item \in Within[s] /\ s \in doc.loose
<1> DEFINE d == doc.layer
           L == [f \in Fields |-> IF "process" \in doc.loose /\ f \in {"cwd", "clear_env"} THEN Unset ELSE d.last[f]]
           I == d.items \ UNION {Within[s] : s \in doc.loose \cap DOMAIN Within}
           M == IF "network" \in doc.loose THEN Unset ELSE d.network
<1>1. d \in LayerSet
  BY DocsAssumption DEF Documents
<1>2. L \in [Fields -> Raw \cup {Unset}] /\ I \in SUBSET Items /\ M \in NetworkModes \cup {Unset}
  BY <1>1 DEF LayerSet
<1>3. \A item \in d.items \ I : \E s \in DOMAIN Within : item \in Within[s] /\ s \in doc.loose
  OBVIOUS
<1>4. Parsed(doc) = [d EXCEPT !.network = M, !.last = L, !.items = I]
  BY <1>1 DEF Parsed, LayerSet
<1> HIDE DEF d, L, I, M
<1>5. /\ Parsed(doc) \in LayerSet /\ Parsed(doc).binds = d.binds
      /\ Parsed(doc).network = M /\ Parsed(doc).items = I
  BY <1>1, <1>2, <1>4 DEF LayerSet
<1> QED
  BY <1>1, <1>3, <1>5 DEF d, M

-----------------------------------------------------------------------------
(* How far main has come, and what that says of the request, of the        *)
(* profiles found, and of the merge.                                       *)

\* A profile that was found: the one asked for, of a document that parses.
FoundWanted ==
    /\ Len(found) <= Len(Wanted)
    /\ \A i \in 1..Len(found) :
         /\ found[i].name = Wanted[i] /\ found[i].doc \in Documents /\ ~Rejected(found[i].doc)
         /\ found[i].user # Unset => found[i].doc = found[i].user

MergesFound ==
    /\ Len(past) <= Len(found)
    /\ stage \notin {"layers", "conflict", "invalid"} => Len(past) = Len(found)
    /\ \A i \in 1..Len(past) : past[i] = Parsed(found[i].doc)

Record == [name : DOMAIN Builtin, user : Docs \cup {Unset}, doc : Documents]

Covered(I) == UNION {Covers[i] : i \in I}
RequestInv == request \in RequestSet /\ request.passes = Covered(request.items)

CliInv ==
    /\ RequestInv
    /\ argv \in Argvs \cup {<<>>}
    /\ cli \in {"library", "argv", "flags", "load", "merge", "over"} /\ (status = "none" \/ cli = "over")
    /\ cli = "library" => argv = <<>> /\ system = "Linux"
    /\ cli \in {"flags", "load", "merge"} => argv \in Argvs /\ argv # <<>>
    /\ cli \in {"argv", "flags", "load"} => Start
    /\ cli = "flags" => walk \in Seq(ToSet(argv)) /\ \A i \in 1..Len(walk) : walk[i].is \notin Apart
    /\ cli \in {"argv", "flags"} => found = <<>>
    /\ cli \in {"load", "merge"} =>
         Command # <<>> /\ system \in Systems /\ found \in Seq(Record) /\ FoundWanted
    /\ cli = "merge" => Len(found) = Len(Wanted) /\ MergesFound

LEMMA CliStarts == ASSUME IInit PROVE Start /\ CliInv
<1>1. Start
  BY LayersAssumption DEF IInit, Init, Start
<1>2. RequestInv
  BY LayersAssumption, EnvironmentAssumption DEF IInit, Init, RequestInv, Covered
<1> QED
  BY <1>1, <1>2 DEF IInit, CliInv

LEMMA CoversOfUnion ==
    ASSUME NEW A, NEW B
    PROVE  Covered(A \cup B) = Covered(A) \cup Covered(B)
<1>1. ASSUME NEW I PROVE \A x : x \in Covered(I) <=> \E i \in I : x \in Covers[i]
  BY Zenon DEF Covered
<1>2. \A x : x \in Covered(A \cup B) <=> x \in Covered(A) \cup Covered(B)
  BY <1>1
<1> QED
  BY <1>2

\* A token of the command line leaves a request a request.
LEMMA GrantedType ==
    ASSUME RequestInv, NEW token, Told(token), NEW r, r = Granted(token)
    PROVE  r \in RequestSet /\ r.passes = Covered(r.items)
<1>1. request \in RequestSet
  BY DEF RequestInv
<1> USE DEF RequestSet
<1>2. CASE token.is = "flag"
  <2>1. r = [request EXCEPT ![token.of] = TRUE]
    BY <1>2 DEF Granted
  <2>2. token.of \in {"no_base", "override"}
    BY <1>2 DEF Told
  <2>3. r \in RequestSet /\ r.items = request.items /\ r.passes = request.passes
    BY <1>1, <2>1, <2>2
  <2> QED
    BY <2>3 DEF RequestInv
<1>3. CASE token.is = "net" /\ token.of = Unset
  <2>1. r = [request EXCEPT !.network = "host"]
    BY <1>3 DEF Granted
  <2>3. "host" \in Words
    BY LayersAssumption DEF NetworkModes
  <2>2. r \in RequestSet /\ r.items = request.items /\ r.passes = request.passes
    BY <1>1, <2>1, <2>3
  <2> QED
    BY <2>2 DEF RequestInv
<1>4. CASE token.is = "net" /\ token.of # Unset
  <2>1. r = [request EXCEPT !.network = "proxy", !.items = @ \cup token.of]
    BY <1>4 DEF Granted
  <2>2. token.of \subseteq Items /\ \A i \in token.of : Covers[i] = {}
    BY <1>4 DEF Told
  <2>4. Covered(token.of) = {}
    BY <2>2 DEF Covered
  <2>5. "proxy" \in Words
    BY LayersAssumption DEF NetworkModes
  <2>3. r \in RequestSet /\ r.items = request.items \cup token.of /\ r.passes = request.passes
    <3>1. request.items \cup token.of \in SUBSET Items /\ "proxy" \in Words \cup {Unset}
      BY <1>1, <2>2, <2>5
    <3>2. r.items = request.items \cup token.of /\ r.passes = request.passes
      BY <1>1, <2>1
    <3> QED
      BY <1>1, <2>1, <3>1, <3>2
  <2> QED
    <3>1. Covered(r.items) = Covered(request.items)
      <4>1. Covered(request.items \cup token.of) = Covered(request.items) \cup Covered(token.of)
        BY CoversOfUnion
      <4> QED
        BY <2>3, <2>4, <4>1
    <3> QED
      BY <2>3, <3>1 DEF RequestInv
<1>5. CASE token.is = "env"
  <2>1. r = [request EXCEPT !.items = @ \cup token.of,
                            !.passes = @ \cup Covered(token.of)]
    BY <1>5 DEF Granted, Covered
  <2>2. token.of \subseteq Items
    BY <1>5 DEF Told
  <2>3. Covered(token.of) \subseteq Keys
    BY <2>2, EnvironmentAssumption DEF Covered
  <2>4. r \in RequestSet /\ r.items = request.items \cup token.of
        /\ r.passes = request.passes \cup Covered(token.of)
    BY <1>1, <2>1, <2>2, <2>3
  <2>5. request.passes = Covered(request.items)
    BY DEF RequestInv
  <2>6. Covered(request.items \cup token.of) =
          Covered(request.items) \cup Covered(token.of)
    BY CoversOfUnion
  <2>7. r.passes = Covered(r.items)
    BY <2>4, <2>5, <2>6, Zenon
  <2> QED
    BY <2>4, <2>7
<1>6. CASE token.is = "bind"
  <2>1. r = [request EXCEPT !.binds = @ \o token.of]
    BY <1>6 DEF Granted
  <2>2. request.binds \o token.of \in Seq(RawBinds)
    BY <1>1, <1>6, ConcatProperties DEF Told
  <2>3. r \in RequestSet /\ r.items = request.items /\ r.passes = request.passes
    BY <1>1, <2>1, <2>2
  <2> QED
    BY <2>3 DEF RequestInv
<1>7. CASE token.is \notin {"flag", "net", "env", "bind"}
  <2>1. r = request
    BY <1>7 DEF Granted
  <2> QED
    BY <2>1 DEF RequestInv
<1> QED
  BY <1>2, <1>3, <1>4, <1>5, <1>6, <1>7

LEMMA StartsNext == Start' => MInv'
<1>1. Start => MInv
  BY MergeStarts
<1> QED
  BY <1>1, PTL

\* A round of _parse_flags.
LEMMA ParseStep ==
    ASSUME MInv, CliInv, ParseFlag
    PROVE  MInv' /\ CliInv'
<1>1. /\ cli = "flags" /\ argv \in Argvs /\ argv # <<>> /\ Start /\ found = <<>> /\ RequestInv
      /\ walk \in Seq(ToSet(argv)) /\ walk # <<>> /\ status = "none"
      /\ \A i \in 1..Len(walk) : walk[i].is \notin Apart
  BY DEF CliInv, ParseFlag
<1>2. UNCHANGED <<stage, past, todo, asks, binds, env, items, network, last, argv, system, found, final>>
  BY DEF ParseFlag
<1>3. /\ Head(walk) \in ToSet(argv) /\ Tail(walk) \in Seq(ToSet(argv)) /\ Len(walk) \in Nat
      /\ \A i \in 1..Len(walk) : walk[i] \in ToSet(argv)
      /\ Len(Tail(walk)) = Len(walk) - 1
      /\ \A i \in 1..Len(Tail(walk)) : Tail(walk)[i] = walk[i + 1]
  BY <1>1, HeadTailProperties, ElementOfSeq
<1>4. Told(Head(walk))
  BY <1>1, <1>3, ArgvTold
<1>5. CASE /\ Takes(Head(walk))
           /\ request' = [request EXCEPT ![Head(walk).of] = walk[2].of]
           /\ walk' = Tail(Tail(walk)) /\ UNCHANGED <<cli, status, words>>
  <2>1. Head(walk).of \in {"project", "network"}
    BY <1>4, <1>5 DEF Takes, Told
  <2>2. walk[2].of \in Words
    <3>1. walk[2] \in ToSet(argv) /\ walk[2].is = "word"
      BY <1>1, <1>3, <1>5 DEF Takes, Dash, Apart
    <3> QED
      BY <1>1, <3>1, ArgvTold DEF Told
  <2>3. RequestInv'
    BY <1>1, <1>5, <2>1, <2>2 DEF RequestInv, RequestSet, Covered
  <2>4. walk' \in Seq(ToSet(argv)) /\ \A i \in 1..Len(walk') : walk'[i].is \notin Apart
    <3>1. Tail(walk) # <<>>
      <4>1. Len(Tail(walk)) > 0
        BY <1>3, <1>5 DEF Takes
      <4> QED
        BY <4>1, EmptySeq
    <3>2. /\ walk' \in Seq(ToSet(argv)) /\ Len(walk') = Len(Tail(walk)) - 1
          /\ \A i \in 1..Len(walk') : walk'[i] = Tail(walk)[i + 1]
      BY <1>3, <1>5, <3>1, HeadTailProperties
    <3>3. ASSUME NEW i \in 1..Len(walk') PROVE walk'[i] = walk[i + 2] /\ i + 2 \in 1..Len(walk)
      <4>1. i + 1 \in 1..Len(Tail(walk)) /\ i + 2 \in 1..Len(walk) /\ (i + 1) + 1 = i + 2
        BY <1>3, <3>2
      <4> QED
        BY <1>3, <3>2, <4>1
    <3> QED
      BY <1>1, <3>2, <3>3
  <2>5. Start'
    BY <1>1, <1>2, <2>3 DEF Start, RequestInv
  <2> QED
    BY <1>1, <1>2, <1>5, <2>3, <2>4, <2>5, StartsNext DEF CliInv
<1>6. CASE /\ request' = Granted(Head(walk))
           /\ walk' = Tail(walk) /\ UNCHANGED <<cli, status>>
  <2>1. RequestInv'
    BY <1>1, <1>4, <1>6, GrantedType DEF RequestInv, Covered
  <2>2. Start'
    BY <1>1, <1>2, <2>1 DEF Start, RequestInv
  <2>3. \A i \in 1..Len(walk') : walk'[i].is \notin Apart
    <3>1. \A i \in 1..Len(walk') : walk'[i] = walk[i + 1] /\ i + 1 \in 1..Len(walk)
      BY <1>3, <1>6
    <3> QED
      BY <1>1, <3>1
  <2> QED
    BY <1>1, <1>2, <1>3, <1>6, <2>1, <2>2, <2>3, StartsNext DEF CliInv
<1>7. CASE cli' = "over" /\ UNCHANGED <<request, walk, words>>
  <2>1. MInv'
    BY <1>2, <1>7, MergeStutters DEF vars
  <2> QED
    BY <1>1, <1>2, <1>7, <2>1 DEF CliInv, RequestInv, Covered
<1> QED
  <2>1. \/ /\ Takes(Head(walk))
           /\ request' = [request EXCEPT ![Head(walk).of] = walk[2].of]
           /\ walk' = Tail(Tail(walk)) /\ UNCHANGED <<cli, status, words>>
        \/ /\ request' = Granted(Head(walk))
           /\ walk' = Tail(walk) /\ UNCHANGED <<cli, status>>
        \/ cli' = "over" /\ UNCHANGED <<request, walk, words>>
    BY DEF ParseFlag, Quit
  <2> QED
    BY <1>5, <1>6, <1>7, <2>1

LEMMA LeftStays == ASSUME UNCHANGED argv PROVE Left' = Left /\ Command' = Command
<1>1. At("sep")' = At("sep")
  BY DEF At, SelectInSeq
<1> QED
  BY <1>1 DEF Left, Command

LEMMA WantedStays == ASSUME UNCHANGED <<request, argv, system>> PROVE Wanted' = Wanted
<1>1. Names' = Names
  BY LeftStays DEF Names, Profiles
<1> QED
  BY <1>1 DEF Wanted, BaseName

LEMMA FoundStep ==
    ASSUME CliInv, Load, cli' # "over"
    PROVE  /\ found' \in Seq(Record) /\ FoundWanted' /\ cli' = "load"
           /\ UNCHANGED <<vars, argv, walk, words, system, final, status>>
<1> DEFINE L == Len(found) + 1
           name == Wanted[L]
<1>1. /\ cli = "load" /\ argv \in Argvs /\ system \in Systems /\ found \in Seq(Record) /\ FoundWanted
      /\ Len(found) < Len(Wanted) /\ UNCHANGED <<vars, argv, walk, words, system, final>>
  BY DEF CliInv, Load
<1>2. Wanted \in Seq(DOMAIN Builtin) /\ Len(Wanted) \in Nat /\ Len(found) \in Nat
  BY <1>1, WantedType
<1>3. L \in 1..Len(Wanted) /\ name \in DOMAIN Builtin
  BY <1>1, <1>2, ElementOfSeq
<1>4. Wanted' = Wanted
  BY <1>1, WantedStays DEF vars
<1> HIDE DEF name
<1>5. PICK user \in Docs \cup {Unset} :
        LET doc == IF user # Unset THEN user ELSE Builtin[name]
        IN  /\ doc # Unset /\ ~Rejected(doc)
            /\ found' = Append(found, [name |-> name, user |-> user, doc |-> doc])
            /\ UNCHANGED <<cli, status>>
  BY DEF Load, Quit, name
<1> DEFINE doc == IF user # Unset THEN user ELSE Builtin[name]
           more == [name |-> name, user |-> user, doc |-> doc]
<1>6. doc \in Documents /\ ~Rejected(doc) /\ (user # Unset => doc = user)
      /\ found' = Append(found, more) /\ UNCHANGED <<cli, status>>
  BY <1>3, <1>5 DEF Documents
<1>7. more \in Record /\ more.name = name /\ more.user = user /\ more.doc = doc
  BY <1>3, <1>6 DEF Record
<1> HIDE DEF more, doc
<1>8. /\ found' \in Seq(Record) /\ Len(found') = L /\ found'[L] = more
      /\ \A i \in 1..Len(found) : found'[i] = found[i]
  BY <1>1, <1>6, <1>7, AppendProperties
<1>9. FoundWanted'
  <2>1. ASSUME NEW i \in 1..Len(found')
        PROVE  /\ found'[i].name = Wanted[i] /\ found'[i].doc \in Documents /\ ~Rejected(found'[i].doc)
               /\ found'[i].user # Unset => found'[i].doc = found'[i].user
    <3>1. CASE i \in 1..Len(found)
      BY <1>1, <1>8, <3>1 DEF FoundWanted
    <3>2. CASE i = L
      BY <1>6, <1>7, <1>8, <3>2 DEF name
    <3> QED
      BY <1>2, <1>8, <3>1, <3>2
  <2>2. Len(found') <= Len(Wanted)
    BY <1>2, <1>3, <1>8
  <2> QED
    BY <1>4, <2>1, <2>2 DEF FoundWanted
<1> QED
  BY <1>1, <1>6, <1>8, <1>9

LEMMA QuitStep ==
    ASSUME MInv, CliInv, UNCHANGED <<vars, argv>>, cli' = "over"
    PROVE  MInv' /\ CliInv'
<1>1. MInv'
  BY MergeStutters
<1> QED
  BY <1>1 DEF CliInv, RequestInv, Covered, vars

LEMMA SplitStep ==
    ASSUME MInv, CliInv, Split
    PROVE  MInv' /\ CliInv'
<1>1. UNCHANGED <<vars, argv, system, found, final>> /\ cli = "argv"
  BY DEF Split
<1>2. CASE cli' = "over"
  BY <1>1, <1>2, QuitStep
<1>3. CASE argv # <<>> /\ cli' = "flags" /\ walk' = Keep(Left, Kinds \ Apart) /\ UNCHANGED status
  <2>1. argv \in Argvs /\ Start /\ found = <<>> /\ RequestInv /\ status = "none"
    BY <1>1, <1>3 DEF CliInv
  <2>2. walk' \in Seq(ToSet(argv)) /\ \E h : Picks(Left, Kinds \ Apart, Len(Left), walk', h)
    BY <1>3, <2>1, LeftTold, KeepPicks
  <2>3. \A i \in 1..Len(walk') : walk'[i].is \notin Apart
    <3>1. PICK h : Picks(Left, Kinds \ Apart, Len(Left), walk', h)
      BY <2>2
    <3> QED
      BY <3>1 DEF Picks
  <2>4. Start'
    BY <1>1, <2>1 DEF Start, vars
  <2> QED
    BY <1>1, <1>3, <2>1, <2>2, <2>3, <2>4, MergeStutters DEF CliInv, RequestInv, Covered, vars
<1> QED
  BY <1>2, <1>3 DEF Split, Quit

Asked == argv \in Argvs /\ system \in Systems
Listed == Wanted \in Seq(DOMAIN Builtin)
LEMMA WantedNext == Asked' => Listed'
<1>1. Asked => Listed
  BY WantedType DEF Asked, Listed
<1> QED
  BY <1>1, PTL

LEMMA DispatchStep ==
    ASSUME MInv, CliInv, Dispatch
    PROVE  MInv' /\ CliInv'
<1>1. UNCHANGED <<vars, argv, walk, words, found, final>> /\ cli = "flags" /\ system' \in Systems
  BY DEF Dispatch
<1>2. CASE cli' = "over"
  BY <1>1, <1>2, QuitStep
<1>3. CASE cli' = "load" /\ Command # <<>> /\ UNCHANGED status
  <2>1. argv \in Argvs /\ argv # <<>> /\ Start /\ found = <<>> /\ RequestInv /\ status = "none"
    BY <1>1, <1>3 DEF CliInv
  <2>2. Len(found') = 0 /\ found' \in Seq(Record)
    BY <1>1, <2>1, EmptySeq
  <2>3. Len(Wanted') \in Nat
    BY <1>1, <2>1, WantedNext, LenProperties DEF Asked, Listed
  <2>4. FoundWanted'
    BY <2>2, <2>3 DEF FoundWanted
  <2>5. Command' # <<>>
    BY <1>1, <1>3, LeftStays
  <2>6. Start'
    BY <1>1, <2>1 DEF Start, vars
  <2> QED
    BY <1>1, <1>3, <2>1, <2>2, <2>4, <2>5, <2>6, MergeStutters DEF CliInv, RequestInv, Covered, vars
<1> QED
  BY <1>2, <1>3 DEF Dispatch, Quit

LEMMA LoadStep ==
    ASSUME MInv, CliInv, Load \/ Loaded
    PROVE  MInv' /\ CliInv'
<1>1. UNCHANGED <<vars, argv, system>> /\ cli = "load"
  BY DEF Load, Loaded
<1>2. CASE cli' = "over"
  BY <1>1, <1>2, QuitStep
<1>3. /\ argv \in Argvs /\ argv # <<>> /\ Start /\ RequestInv /\ status = "none" /\ Command # <<>>
      /\ system \in Systems /\ found \in Seq(Record) /\ FoundWanted
  BY <1>1 DEF CliInv
<1>4. Command' = Command /\ Wanted' = Wanted /\ Start' /\ MInv' /\ RequestInv'
  BY <1>1, <1>3, LeftStays, WantedStays, MergeStutters DEF Start, RequestInv, Covered, vars
<1>5. CASE Load /\ cli' # "over"
  BY <1>1, <1>3, <1>4, <1>5, FoundStep DEF CliInv
<1>6. CASE Loaded
  <2>1. cli' = "merge" /\ UNCHANGED <<found, status>> /\ Len(found) = Len(Wanted)
    BY <1>6 DEF Loaded
  <2>2. FoundWanted'
    BY <1>3, <1>4, <2>1 DEF FoundWanted
  <2>3. MergesFound'
    <3>1. Len(past') = 0 /\ stage' = "layers"
      BY <1>4, EmptySeq DEF Start
    <3>2. Len(found') \in Nat
      BY <1>3, <2>1
    <3> QED
      BY <3>1, <3>2 DEF MergesFound
  <2> QED
    BY <1>1, <1>3, <1>4, <2>1, <2>2, <2>3 DEF CliInv
<1> QED
  BY <1>2, <1>5, <1>6

\* A layer of a document found is merged, or conflicts.
LEMMA MergeFoundStep ==
    ASSUME MInv, CliInv, MergeFound
    PROVE  MInv' /\ CliInv'
<1> DEFINE L == Len(past) + 1
           l == Parsed(found[L].doc)
<1>1. /\ cli = "merge" /\ Len(past) < Len(found) /\ (MergeLayer(l) \/ LayerConflicts(l))
      /\ UNCHANGED <<argv, cli, walk, system, found, final, status>>
  BY DEF MergeFound, cvars
<1>2. /\ argv \in Argvs /\ argv # <<>> /\ RequestInv /\ status = "none" /\ Command # <<>>
      /\ system \in Systems /\ found \in Seq(Record) /\ FoundWanted
      /\ Len(found) = Len(Wanted) /\ MergesFound
  BY <1>1 DEF CliInv
<1>3. past \in Seq(LayerSet) /\ Len(past) \in Nat /\ Len(found) \in Nat
  BY <1>2, LenProperties DEF MInv, MergeType, TypeOK
<1>4. L \in 1..Len(found) /\ l \in LayerSet
  BY <1>1, <1>2, <1>3, ParsedType DEF FoundWanted
<1> HIDE DEF l
<1>5. /\ past' = Append(past, l) /\ stage = "layers" /\ stage' \in {"layers", "conflict"} /\ UNCHANGED request
  BY <1>1 DEF MergeLayer, LayerConflicts
<1>6. MInv'
  BY <1>1, <1>4, MergeSteps DEF MergeAct
<1>7. MergesFound'
  <2>1. /\ Len(past') = L /\ past'[L] = l
        /\ \A i \in 1..Len(past) : past'[i] = past[i]
        /\ \A i \in 1..L : i \in 1..Len(past) \/ i = L
    BY <1>3, <1>4, <1>5, MergeStep
  <2>2. \A i \in 1..L : past'[i] = Parsed(found[i].doc)
    BY <1>2, <2>1 DEF MergesFound, l
  <2>3. L <= Len(found)
    BY <1>4
  <2> QED
    BY <1>1, <1>5, <2>1, <2>2, <2>3 DEF MergesFound
<1>8. Command' = Command /\ Wanted' = Wanted /\ RequestInv'
  BY <1>1, <1>2, <1>5, LeftStays, WantedStays DEF RequestInv, Covered
<1>9. FoundWanted'
  BY <1>1, <1>2, <1>8 DEF FoundWanted
<1> QED
  BY <1>1, <1>2, <1>6, <1>7, <1>8, <1>9 DEF CliInv

\* The rest of the merge leaves the request and the layers alone.
LEMMA RestKeeps ==
    ASSUME MInv, LayerBind \/ LayersMerged \/ Rest
    PROVE  /\ UNCHANGED <<request, past>>
           /\ \/ stage = "layers" /\ stage' \in {"layers", "conflict", "invalid"}
              \/ LayersMerged
              \/ stage \notin {"layers", "conflict", "invalid"}
<1>1. ASSUME NEW override, AddNext(override)
      PROVE  UNCHANGED <<request, past>> /\ stage' \in {stage, "conflict", "invalid"}
  BY <1>1 DEF AddNext, AddBind
<1>2. CASE LayerBind
  BY <1>1, <1>2 DEF LayerBind
<1>3. CASE LayersMerged
  BY <1>3 DEF LayersMerged
<1>4. CASE Rest
  BY <1>1, <1>4 DEF Rest, BindProject, Inline, InlineBind, InlineBound, Defaults
<1> QED
  BY <1>2, <1>3, <1>4

LEMMA ResolveStep ==
    ASSUME MInv, CliInv, MergeAny \/ Resolve
    PROVE  MInv' /\ CliInv'
<1>1. UNCHANGED <<argv, cli, walk, words, system, found, final, status>>
  BY DEF MergeAny, Resolve, cvars
<1>2. CASE MergeAny
  <2>1. MergeAct /\ UNCHANGED request /\ cli = "library"
    BY <1>2, LayersAssumption DEF MergeAny, MergeAct, MergeLayer, LayerConflicts
  <2>2. RequestInv'
    BY <2>1 DEF CliInv, RequestInv, Covered
  <2> QED
    BY <1>1, <2>1, <2>2, MergeSteps DEF CliInv
<1>3. CASE Resolve
  <2>1. MergeAct /\ (LayerBind \/ LayersMerged \/ Rest) /\ cli \in {"library", "merge"}
    BY <1>3 DEF Resolve, MergeAct
  <2>2. MInv' /\ UNCHANGED <<request, past>>
    BY <2>1, MergeSteps, RestKeeps
  <2>3. RequestInv'
    BY <2>2 DEF CliInv, RequestInv, Covered
  <2>4. CASE cli = "library"
    BY <1>1, <2>2, <2>3, <2>4 DEF CliInv
  <2>5. CASE cli = "merge"
    <3>1. /\ argv \in Argvs /\ argv # <<>> /\ RequestInv /\ status = "none" /\ Command # <<>>
          /\ system \in Systems /\ found \in Seq(Record) /\ FoundWanted
          /\ Len(found) = Len(Wanted) /\ MergesFound
      BY <2>5 DEF CliInv
    <3>2. Command' = Command /\ Wanted' = Wanted
      BY <1>1, <2>2, LeftStays, WantedStays
    <3>3. FoundWanted'
      BY <1>1, <3>1, <3>2 DEF FoundWanted
    <3>4. stage' \notin {"layers", "conflict", "invalid"} => Len(past) = Len(found)
      <4>1. CASE LayersMerged /\ Len(past) = Len(found)
        BY <4>1
      <4>2. CASE LayerBind \/ Rest
        <5>1. CASE LayersMerged
          BY <4>2, <5>1 DEF LayersMerged, LayerBind, AddNext, Rest, BindProject, Inline, InlineBind, InlineBound, Defaults
        <5>2. CASE ~LayersMerged
          BY <3>1, <4>2, <5>2, RestKeeps DEF MergesFound
        <5> QED
          BY <5>1, <5>2
      <4> QED
        BY <1>3, <2>5, <4>1, <4>2 DEF Resolve
    <3>5. MergesFound'
      BY <1>1, <2>2, <3>1, <3>4 DEF MergesFound
    <3> QED
      BY <1>1, <2>2, <2>3, <2>5, <3>1, <3>2, <3>3, <3>5 DEF CliInv
  <2> QED
    BY <2>1, <2>4, <2>5
<1> QED
  BY <1>2, <1>3

LEMMA CliStep ==
    ASSUME MInv, CliInv, INext
    PROVE  MInv' /\ CliInv'
<1>1. CASE ResolveRaises \/ Explain \/ RunRaises \/ Run
  <2>1. UNCHANGED <<vars, argv>> /\ cli' = "over"
    BY <1>1 DEF ResolveRaises, Explain, RunRaises, Run, Quit
  <2> QED
    BY <2>1, QuitStep
<1> QED
  BY <1>1, SplitStep, ParseStep, DispatchStep, LoadStep, MergeFoundStep, ResolveStep DEF INext

LEMMA CliStutters == ASSUME MInv, CliInv, UNCHANGED ivars PROVE MInv' /\ CliInv'
<1>1. UNCHANGED <<vars, cvars>> /\ UNCHANGED <<argv, cli, walk, words, system, found, final, status>>
  BY DEF ivars, cvars
<1>2. MInv' /\ UNCHANGED <<request, past, stage>>
  BY <1>1, MergeStutters DEF vars
<1>3. Command' = Command /\ Wanted' = Wanted
  BY <1>1, <1>2, LeftStays, WantedStays
<1>4. RequestInv' = RequestInv /\ Start' = Start
  BY <1>1 DEF RequestInv, Covered, Start, vars
<1>5. FoundWanted' = FoundWanted
  BY <1>1, <1>3 DEF FoundWanted
<1>6. MergesFound' = MergesFound
  BY <1>1, <1>2 DEF MergesFound
<1> QED
  BY <1>1, <1>2, <1>3, <1>4, <1>5, <1>6 DEF CliInv

-----------------------------------------------------------------------------
(* The command runs under all it was asked to run under.                    *)

\* What RunsAsAsked promises of one profile.
Heeded(i) ==
    LET doc == found[i].doc
    IN  /\ doc.bad = {} /\ doc.loose \subseteq Tolerated
        /\ found[i].user # Unset => doc = found[i].user
        /\ doc.layer.network # Unset /\ "network" \notin doc.loose /\ request.network = Unset
             => Rank[network] <= Rank[doc.layer.network]
        /\ \A item \in doc.layer.items \ items :
             \E s \in DOMAIN Within : item \in Within[s] /\ s \in doc.loose
        /\ \A n \in DOMAIN doc.layer.binds :
             Expand[doc.layer.binds[n].source] \in Paths =>
               \E m \in DOMAIN binds : binds[m].source = Expand[doc.layer.binds[n].source]

LEMMA AllHeeded ==
    ASSUME MInv, CliInv, cli = "merge", stage = "resolved"
    PROVE  \A i \in DOMAIN found : Heeded(i)
<1>1. /\ found \in Seq(Record) /\ FoundWanted /\ MergesFound
      /\ past \in Seq(LayerSet) /\ binds \in Seq(Binds)
  BY DEF CliInv, MInv, MergeType, TypeOK
<1>2. /\ DOMAIN found = 1..Len(found) /\ DOMAIN past = 1..Len(found) /\ Len(past) = Len(found)
      /\ DOMAIN binds = 1..Len(binds)
  BY <1>1, LenProperties DEF MergesFound
<1> SUFFICES ASSUME NEW i \in 1..Len(found) PROVE Heeded(i)
  BY <1>2
<1> DEFINE doc == found[i].doc
<1>3. /\ doc \in Documents /\ ~Rejected(doc) /\ past[i] = Parsed(doc)
      /\ found[i].user # Unset => doc = found[i].user
  BY <1>1, <1>2 DEF FoundWanted, MergesFound
<1> HIDE DEF doc
<1>4. doc.bad = {} /\ doc.loose \subseteq Tolerated
  BY <1>3 DEF Rejected
<1>5. ASSUME doc.layer.network # Unset, "network" \notin doc.loose, request.network = Unset
      PROVE  Rank[network] <= Rank[doc.layer.network]
  <2>1. past[i].network = doc.layer.network
    BY <1>3, <1>5, ParsedType
  <2> QED
    BY <1>2, <1>5, <2>1, MergeImplies DEF NetworkRestricted
<1>6. ASSUME NEW item \in doc.layer.items \ items
      PROVE  \E s \in DOMAIN Within : item \in Within[s] /\ s \in doc.loose
  <2>1. items = United \cup request.items
    BY DEF MInv, Values
  <2>2. item \notin past[i].items
    BY <1>2, <2>1 DEF United
  <2> QED
    BY <1>3, <2>2, ParsedType
<1>7. ASSUME NEW n \in DOMAIN doc.layer.binds, Expand[doc.layer.binds[n].source] \in Paths
      PROVE  \E m \in DOMAIN binds : binds[m].source = Expand[doc.layer.binds[n].source]
  <2>1. past[i].binds = doc.layer.binds
    BY <1>3, ParsedType
  <2>2. i \in 1..Len(past) /\ n \in 1..Len(past[i].binds)
    BY <1>1, <1>2, <2>1, LayerParts
  <2>3. Served(i, n)
    BY <2>2 DEF MInv, Merging
  <2> QED
    BY <1>2, <1>7, <2>1, <2>3 DEF Served, Source
<1> QED
  BY <1>3, <1>4, <1>5, <1>6, <1>7 DEF Heeded, doc

LEMMA RunAsAsked ==
    ASSUME MInv, CliInv, Run
    PROVE  RunsAsAsked'
<1> SUFFICES ASSUME argv # <<>> PROVE RunsAsAsked'
  BY DEF Run, RunsAsAsked
<1>1. /\ cli = "merge" /\ stage = "resolved" /\ system # "other"
      /\ UNCHANGED <<vars, argv, system, found>>
  BY DEF Run, CliInv, BackendOf
<1>2. Command # <<>> /\ Len(found) = Len(Wanted) /\ FoundWanted /\ found \in Seq(Record)
  BY <1>1 DEF CliInv
<1>3. DOMAIN found = 1..Len(found)
  BY <1>2, LenProperties
<1>4. Command' = Command /\ Wanted' = Wanted
  BY <1>1, LeftStays, WantedStays DEF vars
<1>5. \A i \in DOMAIN found : Heeded(i)'
  BY <1>1, AllHeeded DEF Heeded, vars
<1>6. system' # "other" /\ Command' # <<>> /\ Len(found') = Len(Wanted')
      /\ (\A i \in DOMAIN found' : found'[i].name = Wanted'[i])
  BY <1>1, <1>2, <1>3, <1>4 DEF FoundWanted
<1> QED
  BY <1>1, <1>5, <1>6 DEF RunsAsAsked, Heeded

-----------------------------------------------------------------------------
(* The command's environment, variable by variable.                         *)

Clear(v) == IF v = Scratch THEN "tmp" ELSE IF v \in Literal THEN v ELSE Expand[v]
Through(k) ==
    \/ k \in request.passes
    \/ \E i \in DOMAIN past : \E p \in past[i].items : k \in Covers[p]
    \/ Clears # {} /\ past[Max(Clears)].last["clear_env"] = ClearOff
SetTo(k) ==
    CASE k \in request.passes -> Unset
      [] k \notin request.passes /\ request.env[k] # Unset -> Clear(request.env[k])
      [] k \notin request.passes /\ request.env[k] = Unset /\ Setters(k) # {} ->
           Clear(past[Max(Setters(k))].env[k])
      [] OTHER -> DefaultOf(k)

LEMMA SpelledSets ==
    ASSUME NEW v \in Raw
    PROVE  /\ AsExpanded(v) # Unset
           /\ Clear(v) = IF AsExpanded(v) = Scratch THEN "tmp" ELSE AsExpanded(v)
<1>1. Unset \notin Raw \cup Paths \cup {Empty, Relative, Unknown} /\ Literal \subseteq Raw
      /\ Expand[v] \in Paths \cup {Empty, Relative, Unknown}
  BY PathsAssumption
<1>2. Scratch \in Literal /\ Scratch \notin Paths \cup {Empty, Relative, Unknown}
  BY EnvironmentAssumption
<1> QED
  BY <1>1, <1>2 DEF AsExpanded, Clear

LEMMA SetIs ==
    ASSUME MInv, stage = "resolved", NEW k \in Keys
    PROVE  FromSet(k) = SetTo(k)
<1>1. env[k] = IF k \in request.passes THEN Unset ELSE Or(Spelled(k), DefaultOf(k))
  BY DEF MInv, Values
<1>2. request \in RequestSet /\ past \in Seq(LayerSet) /\ last["home"] \in Paths \cup {Unset}
  BY DEF MInv, MergeType, TypeOK
<1>3. Scratch # Unset /\ Scratch \notin Paths \cup {User}
  BY PathsAssumption, EnvironmentAssumption
<1>4. CASE k \in request.passes
  BY <1>1, <1>3, <1>4 DEF FromSet, SetTo
<1>5. CASE k \notin request.passes /\ request.env[k] # Unset
  <2>1. request.env[k] \in Raw
    BY <1>2, <1>5 DEF RequestSet
  <2>2. env[k] = AsExpanded(request.env[k])
    BY <1>1, <1>5, <2>1, SpelledSets DEF Spelled, Or
  <2>3. SetTo(k) = Clear(request.env[k])
    BY <1>5 DEF SetTo
  <2> QED
    BY <2>1, <2>2, <2>3, SpelledSets DEF FromSet
<1>6. CASE k \notin request.passes /\ request.env[k] = Unset /\ Setters(k) # {}
  <2> DEFINE v == past[Max(Setters(k))].env[k]
  <2>1. v \in Raw
    <3>1. DOMAIN past = 1..Len(past) /\ Len(past) \in Nat
      BY <1>2, LenProperties
    <3>2. Setters(k) \in SUBSET (1..Len(past))
      BY <3>1 DEF Setters
    <3>3. Max(Setters(k)) \in Setters(k)
      BY <1>6, <3>1, <3>2, GreatestExists
    <3>4. Max(Setters(k)) \in 1..Len(past) /\ v # Unset
      BY <3>2, <3>3 DEF Setters
    <3>5. past[Max(Setters(k))] \in LayerSet
      BY <1>2, <3>4, ElementOfSeq
    <3> QED
      BY <3>4, <3>5 DEF LayerSet
  <2>2. SetTo(k) = Clear(v)
    BY <1>6 DEF SetTo
  <2>3. LastSet(k) = v
    BY <1>6 DEF LastSet
  <2> HIDE DEF v
  <2>4. env[k] = AsExpanded(v)
    BY <1>1, <1>6, <2>1, <2>3, SpelledSets DEF Spelled, Or
  <2> QED
    BY <2>1, <2>2, <2>4, SpelledSets DEF FromSet
<1>7. CASE k \notin request.passes /\ request.env[k] = Unset /\ Setters(k) = {}
  <2>1. Spelled(k) = Unset
    BY <1>7 DEF Spelled, LastSet, AsExpanded, Or
  <2>2. env[k] = DefaultOf(k) /\ DefaultOf(k) \in Paths \cup {User, Unset}
    BY <1>1, <1>2, <1>7, <2>1 DEF Or, DefaultOf
  <2>3. SetTo(k) = DefaultOf(k)
    BY <1>7 DEF SetTo
  <2> QED
    BY <1>3, <2>2, <2>3 DEF FromSet
<1> QED
  BY <1>4, <1>5, <1>6, <1>7

LEMMA HostIs ==
    ASSUME MInv, RequestInv, stage = "resolved", NEW k \in Keys
    PROVE  FromHost(k) = IF Through(k) THEN HostEnv[k] ELSE Unset
<1>1. last["clear_env"] = LastClear /\ items = United \cup request.items
  BY DEF MInv, Values, Before, After
<1>2. ClearOff # Unset
  BY PathsAssumption, EnvironmentAssumption
<1>3. last["clear_env"] = ClearOff <=> Clears # {} /\ past[Max(Clears)].last["clear_env"] = ClearOff
  BY <1>1, <1>2 DEF LastClear
<1>4. (\E i \in items : k \in Covers[i]) <=>
         k \in request.passes \/ \E i \in DOMAIN past : \E p \in past[i].items : k \in Covers[p]
  <2>1. (\E i \in request.items : k \in Covers[i]) <=> k \in request.passes
    BY DEF RequestInv, Covered
  <2>2. (\E i \in United : k \in Covers[i]) <=> \E i \in DOMAIN past : \E p \in past[i].items : k \in Covers[p]
    BY DEF United
  <2> QED
    BY <1>1, <2>1, <2>2
<1> QED
  BY <1>3, <1>4 DEF FromHost, Through

Promised(k) ==
    CASE network = "proxy" /\ k \in ProxyKeys -> final[k] = "proxy"
      [] system = "Darwin" /\ k \in TmpKeys -> final[k] = "tmp"
      [] OTHER -> final[k] = IF SetTo(k) # Unset THEN SetTo(k)
                             ELSE IF Through(k) THEN HostEnv[k] ELSE Unset
AllPromised == \A k \in Keys : Promised(k)

LEMMA PromisedIs == AllPromised => CommandEnvironment
  BY DEF AllPromised, Promised, CommandEnvironment, SetTo, Through, Clear, Setters, Clears

LEMMA PromisedNext == AllPromised' => CommandEnvironment'
<1>1. AllPromised => CommandEnvironment
  BY PromisedIs
<1> QED
  BY <1>1, PTL

LEMMA EnvironmentIs == ASSUME CommandEnvironment, status = "command" PROVE AllPromised
  BY DEF AllPromised, Promised, CommandEnvironment, SetTo, Through, Clear, Setters, Clears

LEMMA SameSettings ==
    ASSUME UNCHANGED <<request, past, last>>
    PROVE  \A k \in Keys : SetTo(k)' = SetTo(k) /\ (Through(k)' <=> Through(k))
<1> SUFFICES ASSUME NEW k \in Keys
             PROVE  SetTo(k)' = SetTo(k) /\ (Through(k)' <=> Through(k))
  OBVIOUS
<1>1. Setters(k)' = Setters(k)
  BY DEF Setters
<1>2. Clears' = Clears
  BY DEF Clears
<1>3. DefaultOf(k)' = DefaultOf(k)
  BY DEF DefaultOf
<1>4. SetTo(k)' = SetTo(k)
  BY <1>1, <1>3 DEF SetTo
<1>5. Through(k)' <=> Through(k)
  BY <1>2 DEF Through
<1> QED
  BY <1>4, <1>5

LEMMA RunEnvironment ==
    ASSUME MInv, CliInv, Run
    PROVE  CommandEnvironment'
<1>1. /\ stage = "resolved" /\ system \in DOMAIN BackendOf /\ UNCHANGED <<vars, argv, system>>
      /\ final' = [k \in Keys |-> IF BackendOf[system] = "seatbelt" /\ k \in TmpKeys
                                    THEN "tmp" ELSE BuildEnv(network = "proxy")[k]]
  BY DEF Run
<1>2. RequestInv
  BY DEF CliInv
<1>3. BackendOf[system] = "seatbelt" <=> system = "Darwin"
  BY <1>1 DEF BackendOf
<1>4. ASSUME NEW k \in Keys
      PROVE  CASE network = "proxy" /\ k \in ProxyKeys -> final'[k] = "proxy"
               [] system = "Darwin" /\ k \in TmpKeys -> final'[k] = "tmp"
               [] OTHER -> final'[k] = IF SetTo(k) # Unset THEN SetTo(k)
                                       ELSE IF Through(k) THEN HostEnv[k] ELSE Unset
  <2>1. final'[k] = IF system = "Darwin" /\ k \in TmpKeys THEN "tmp"
                    ELSE IF network = "proxy" /\ k \in ProxyKeys THEN "proxy"
                    ELSE Or(FromSet(k), FromHost(k))
    BY <1>1, <1>3 DEF BuildEnv
  <2>2. k \in ProxyKeys => k \notin TmpKeys
    BY EnvironmentAssumption
  <2>3. Or(FromSet(k), FromHost(k)) = IF SetTo(k) # Unset THEN SetTo(k)
                                      ELSE IF Through(k) THEN HostEnv[k] ELSE Unset
    BY <1>1, <1>2, SetIs, HostIs DEF Or
  <2>4. CASE network = "proxy" /\ k \in ProxyKeys
    BY <2>1, <2>2, <2>4
  <2>5. CASE ~(network = "proxy" /\ k \in ProxyKeys) /\ system = "Darwin" /\ k \in TmpKeys
    BY <2>1, <2>5
  <2>6. CASE ~(network = "proxy" /\ k \in ProxyKeys) /\ ~(system = "Darwin" /\ k \in TmpKeys)
    BY <2>1, <2>3, <2>6
  <2> QED
    BY <2>4, <2>5, <2>6
<1>5. ASSUME NEW k \in Keys
      PROVE  Promised(k)'
  <2>1. SetTo(k)' = SetTo(k) /\ (Through(k)' <=> Through(k)) /\ network' = network /\ system' = system
    BY <1>1, SameSettings DEF vars
  <2> QED
    BY <2>1, <1>4 DEF Promised
<1> QED
  BY <1>5, PromisedNext DEF AllPromised

-----------------------------------------------------------------------------
(* What is granted is what was spelled. While _parse_flags walks the tokens *)
(* that Split kept, the request is what the tokens walked so far say.       *)

Kept == Keep(Left, Kinds \ Apart)
Gives(token) == token.is \in {"net", "env"} /\ token.of # Unset
Flagged(token, f) == token.is = "flag" /\ token.of = f
Networks(token) == token.is = "net" \/ (token.is = "option" /\ token.of = "network")

\* What the first n tokens of s say of the network: the last that does counts.
NetworkSays(r, s, n) ==
    \/ r.network = Unset /\ \A i \in 1..n : ~Networks(s[i])
    \/ \E m \in 1..n :
         /\ Networks(s[m]) /\ \A i \in 1..n : i > m => ~Networks(s[i])
         /\ \/ s[m].is = "option" /\ m + 1 \in 1..n /\ r.network = s[m + 1].of
            \/ s[m].is = "net" /\ r.network = IF s[m].of = Unset THEN "host" ELSE "proxy"
ItemsSay(r, s, n) == \A x : x \in r.items <=> \E i \in 1..n : Gives(s[i]) /\ x \in s[i].of
BindsSay(r, s, n) == \A x : x \in ToSet(r.binds) <=> \E i \in 1..n : s[i].is = "bind" /\ x \in ToSet(s[i].of)
FlagsSay(r, s, n) == \A f \in {"no_base", "override"} : r[f] <=> \E i \in 1..n : Flagged(s[i], f)
AllSay(r, s, n) == ItemsSay(r, s, n) /\ BindsSay(r, s, n) /\ FlagsSay(r, s, n) /\ NetworkSays(r, s, n)
Walked(n) ==
    /\ n + Len(walk) = Len(Kept)
    /\ \A i \in 1..Len(walk) : walk[i] = Kept[n + i]
    /\ AllSay(request, Kept, n)

\* The consequent of GrantsAreSpelled.
Granting ==
    /\ request.network = NetworkSaid
    /\ request.items = UNION {Left[i].of : i \in {j \in DOMAIN Left : Left[j].is \in {"net", "env"} /\ Left[j].of # Unset}}
    /\ request.passes = UNION {Covers[i] : i \in request.items}
    /\ ToSet(request.binds) = UNION {ToSet(Left[i].of) : i \in {j \in DOMAIN Left : Left[j].is = "bind"}}
    /\ \A f \in {"no_base", "override"} : request[f] <=> \E i \in DOMAIN Left : Says(i, "flag") /\ Left[i].of = f

GrantInv ==
    /\ cli = "argv" => request = Fresh
    /\ cli = "flags" => \E n \in Nat : Walked(n)
    /\ cli \in {"load", "merge"} \/ (argv # <<>> /\ status = "command") => Granting

LEMMA KeptType ==
    ASSUME argv \in Argvs
    PROVE  /\ Kept \in Seq(ToSet(argv)) /\ Len(Kept) \in Nat
           /\ \A i \in 1..Len(Kept) : Told(Kept[i]) /\ Kept[i].is \in Kinds \ Apart
           /\ \E h : Picks(Left, Kinds \ Apart, Len(Left), Kept, h)
<1>1. Kept \in Seq(ToSet(argv)) /\ \E h : Picks(Left, Kinds \ Apart, Len(Left), Kept, h)
  BY LeftTold, KeepPicks DEF Kept
<1>2. \A i \in 1..Len(Kept) : Kept[i].is \in Kinds \ Apart
  <2>1. PICK h : Picks(Left, Kinds \ Apart, Len(Left), Kept, h)
    BY <1>1
  <2> QED
    BY <2>1 DEF Picks
<1> QED
  BY <1>1, <1>2, ArgvTold, ElementOfSeq, LenProperties

LEMMA SetOfConcat ==
    ASSUME NEW S, NEW s \in Seq(S), NEW t \in Seq(S), NEW x
    PROVE  x \in ToSet(s \o t) <=> x \in ToSet(s) \/ x \in ToSet(t)
<1>1. /\ Len(s \o t) = Len(s) + Len(t) /\ Len(s) \in Nat /\ Len(t) \in Nat
      /\ \A i \in 1..Len(s) + Len(t) : (s \o t)[i] = IF i <= Len(s) THEN s[i] ELSE t[i - Len(s)]
      /\ s \o t \in Seq(S)
  BY ConcatProperties, LenProperties
<1>2. DOMAIN (s \o t) = 1..Len(s) + Len(t) /\ DOMAIN s = 1..Len(s) /\ DOMAIN t = 1..Len(t)
  BY <1>1, LenProperties
<1>3. ASSUME NEW u PROVE x \in ToSet(u) <=> \E i \in DOMAIN u : u[i] = x
  BY DEF ToSet
<1>4. ASSUME NEW i \in DOMAIN s, s[i] = x PROVE x \in ToSet(s \o t)
  <2>1. i \in DOMAIN (s \o t) /\ (s \o t)[i] = x
    BY <1>1, <1>2, <1>4
  <2> QED
    BY <2>1, <1>3
<1>5. ASSUME NEW i \in DOMAIN t, t[i] = x PROVE x \in ToSet(s \o t)
  <2>1. Len(s) + i \in 1..Len(s) + Len(t) /\ ~(Len(s) + i <= Len(s)) /\ (Len(s) + i) - Len(s) = i
    BY <1>1, <1>2
  <2>2. Len(s) + i \in DOMAIN (s \o t) /\ (s \o t)[Len(s) + i] = x
    BY <1>1, <1>2, <1>5, <2>1
  <2> QED
    BY <2>2, <1>3
<1>6. ASSUME NEW i \in DOMAIN (s \o t), (s \o t)[i] = x PROVE x \in ToSet(s) \/ x \in ToSet(t)
  <2>1. CASE i <= Len(s)
    <3>1. i \in DOMAIN s /\ s[i] = x
      BY <1>1, <1>2, <1>6, <2>1
    <3> QED
      BY <3>1, <1>3
  <2>2. CASE ~(i <= Len(s))
    <3>1. i - Len(s) \in DOMAIN t /\ t[i - Len(s)] = x
      BY <1>1, <1>2, <1>6, <2>2
    <3> QED
      BY <3>1, <1>3
  <2> QED
    BY <2>1, <2>2
<1> QED
  BY <1>3, <1>4, <1>5, <1>6
Alone == {"flag", "net", "env", "bind", "word"}

LEMMA GrantedIs ==
    ASSUME RequestInv, NEW token, Told(token), token.is \in Alone, NEW r, r = Granted(token)
    PROVE  /\ r.items = IF Gives(token) THEN request.items \cup token.of ELSE request.items
           /\ r.binds = IF token.is = "bind" THEN request.binds \o token.of ELSE request.binds
           /\ r.network = IF token.is = "net" THEN IF token.of = Unset THEN "host" ELSE "proxy" ELSE request.network
           /\ \A f \in {"no_base", "override"} : r[f] <=> request[f] \/ Flagged(token, f)
<1>1. request \in RequestSet
  BY DEF RequestInv
<1> USE DEF RequestSet
<1>2. CASE token.is = "flag"
  <2>1. r = [request EXCEPT ![token.of] = TRUE] /\ token.of \in {"no_base", "override"}
    BY <1>2 DEF Granted, Told
  <2>2. r.items = request.items /\ r.binds = request.binds /\ r.network = request.network
    BY <1>1, <2>1
  <2>3. \A f \in {"no_base", "override"} : r[f] <=> request[f] \/ Flagged(token, f)
    <3>1. CASE token.of = "no_base"
      BY <1>1, <1>2, <2>1, <3>1 DEF Flagged
    <3>2. CASE token.of = "override"
      BY <1>1, <1>2, <2>1, <3>2 DEF Flagged
    <3> QED
      BY <2>1, <3>1, <3>2
  <2> QED
    BY <1>2, <2>2, <2>3 DEF Gives
<1>3. CASE token.is = "net" /\ token.of = Unset
  <2>1. r = [request EXCEPT !.network = "host"]
    BY <1>3 DEF Granted
  <2> QED
    BY <1>1, <1>3, <2>1 DEF Gives, Flagged
<1>4. CASE token.is = "net" /\ token.of # Unset
  <2>1. r = [request EXCEPT !.network = "proxy", !.items = @ \cup token.of]
    BY <1>4 DEF Granted
  <2> QED
    BY <1>1, <1>4, <2>1 DEF Gives, Flagged
<1>5. CASE token.is = "env"
  <2>1. r = [request EXCEPT !.items = @ \cup token.of, !.passes = @ \cup UNION {Covers[i] : i \in token.of}]
    BY <1>5 DEF Granted
  <2>2. token.of # Unset
    BY <1>5 DEF Told
  <2> QED
    BY <1>1, <1>5, <2>1, <2>2 DEF Gives, Flagged
<1>6. CASE token.is = "bind"
  <2>1. r = [request EXCEPT !.binds = @ \o token.of]
    BY <1>6 DEF Granted
  <2> QED
    BY <1>1, <1>6, <2>1 DEF Gives, Flagged
<1>7. CASE token.is = "word"
  <2>1. r = request
    BY <1>7 DEF Granted
  <2> QED
    BY <1>7, <2>1 DEF Gives, Flagged
<1> QED
  BY <1>2, <1>3, <1>4, <1>5, <1>6, <1>7 DEF Alone

\* A token that stands alone: what the request says grows by what it says.
LEMMA OneMore ==
    ASSUME RequestInv, NEW s, NEW n \in Nat, Told(s[n + 1]), s[n + 1].is \in Alone,
           AllSay(request, s, n), NEW r, r = Granted(s[n + 1])
    PROVE  AllSay(r, s, n + 1)
<1> DEFINE token == s[n + 1]
<1>1. \A i \in 1..n + 1 : i \in 1..n \/ i = n + 1
  OBVIOUS
<1>2. 1..n \subseteq 1..n + 1 /\ n + 1 \in 1..n + 1 /\ n + 1 \notin 1..n
  OBVIOUS
<1>3. /\ r.items = IF Gives(token) THEN request.items \cup token.of ELSE request.items
      /\ r.binds = IF token.is = "bind" THEN request.binds \o token.of ELSE request.binds
      /\ r.network = IF token.is = "net" THEN IF token.of = Unset THEN "host" ELSE "proxy" ELSE request.network
      /\ \A f \in {"no_base", "override"} : r[f] <=> request[f] \/ Flagged(token, f)
  BY GrantedIs
<1>4. ItemsSay(r, s, n + 1)
  BY <1>1, <1>2, <1>3 DEF AllSay, ItemsSay
<1>5. BindsSay(r, s, n + 1)
  <2>1. ASSUME NEW x
        PROVE  x \in ToSet(r.binds) <=> x \in ToSet(request.binds) \/ (token.is = "bind" /\ x \in ToSet(token.of))
    <3>1. CASE token.is = "bind"
      <4>1. request.binds \in Seq(RawBinds) /\ token.of \in Seq(RawBinds)
        BY <3>1 DEF RequestInv, RequestSet, Told
      <4> QED
        BY <1>3, <3>1, <4>1, SetOfConcat
    <3>2. CASE token.is # "bind"
      BY <1>3, <3>2
    <3> QED
      BY <3>1, <3>2
  <2> QED
    BY <1>1, <1>2, <2>1 DEF AllSay, BindsSay
<1>6. FlagsSay(r, s, n + 1)
  BY <1>1, <1>2, <1>3 DEF AllSay, FlagsSay
<1>7. NetworkSays(r, s, n + 1)
  <2>1. CASE token.is = "net"
    <3>1. \A i \in 1..n + 1 : i > n + 1 => ~Networks(s[i])
      OBVIOUS
    <3> QED
      BY <1>2, <1>3, <2>1, <3>1 DEF NetworkSays, Networks
  <2>2. CASE token.is # "net"
    <3>1. ~Networks(token) /\ r.network = request.network
      BY <1>3, <2>2 DEF Networks, Alone
    <3>2. CASE request.network = Unset /\ \A i \in 1..n : ~Networks(s[i])
      BY <1>1, <3>1, <3>2 DEF NetworkSays
    <3>3. ASSUME NEW m \in 1..n, Networks(s[m]), \A i \in 1..n : i > m => ~Networks(s[i]),
                 \/ s[m].is = "option" /\ m + 1 \in 1..n /\ request.network = s[m + 1].of
                 \/ s[m].is = "net" /\ request.network = IF s[m].of = Unset THEN "host" ELSE "proxy"
          PROVE  NetworkSays(r, s, n + 1)
      <4>1. \A i \in 1..n + 1 : i > m => ~Networks(s[i])
        BY <1>1, <3>1, <3>3
      <4> QED
        BY <1>2, <3>1, <3>3, <4>1 DEF NetworkSays
    <3> QED
      BY <3>2, <3>3 DEF AllSay, NetworkSays
  <2> QED
    BY <2>1, <2>2
<1> QED
  BY <1>4, <1>5, <1>6, <1>7 DEF AllSay

\* An option and its value.
LEMMA TwoMore ==
    ASSUME RequestInv, NEW s, NEW n \in Nat, Told(s[n + 1]), s[n + 1].is = "option", s[n + 2].is = "word",
           AllSay(request, s, n), NEW r, r = [request EXCEPT ![s[n + 1].of] = s[n + 2].of]
    PROVE  AllSay(r, s, n + 2)
<1> DEFINE token == s[n + 1]
<1>1. \A i \in 1..n + 2 : i \in 1..n \/ i = n + 1 \/ i = n + 2
  OBVIOUS
<1>2. 1..n \subseteq 1..n + 2 /\ n + 1 \in 1..n + 2 /\ n + 2 \in 1..n + 2 /\ (n + 1) + 1 = n + 2
  OBVIOUS
<1>3. /\ r.items = request.items /\ r.binds = request.binds
      /\ r.network = IF token.of = "network" THEN s[n + 2].of ELSE request.network
      /\ \A f \in {"no_base", "override"} : r[f] <=> request[f]
  BY DEF RequestInv, RequestSet, Told
<1>4. ~Networks(s[n + 2]) /\ (Networks(token) <=> token.of = "network")
  BY DEF Networks
<1>5. ItemsSay(r, s, n + 2)
  BY <1>1, <1>2, <1>3 DEF AllSay, ItemsSay, Gives
<1>6. BindsSay(r, s, n + 2)
  BY <1>1, <1>2, <1>3 DEF AllSay, BindsSay
<1>7. FlagsSay(r, s, n + 2)
  BY <1>1, <1>2, <1>3 DEF AllSay, FlagsSay, Flagged
<1>8. NetworkSays(r, s, n + 2)
  <2>1. CASE token.of = "network"
    <3>1. \A i \in 1..n + 2 : i > n + 1 => ~Networks(s[i])
      BY <1>1, <1>4
    <3> QED
      BY <1>2, <1>3, <1>4, <2>1, <3>1 DEF NetworkSays
  <2>2. CASE token.of # "network"
    <3>1. ~Networks(token) /\ r.network = request.network
      BY <1>3, <1>4, <2>2
    <3>2. CASE request.network = Unset /\ \A i \in 1..n : ~Networks(s[i])
      BY <1>1, <1>4, <3>1, <3>2 DEF NetworkSays
    <3>3. ASSUME NEW m \in 1..n, Networks(s[m]), \A i \in 1..n : i > m => ~Networks(s[i]),
                 \/ s[m].is = "option" /\ m + 1 \in 1..n /\ request.network = s[m + 1].of
                 \/ s[m].is = "net" /\ request.network = IF s[m].of = Unset THEN "host" ELSE "proxy"
          PROVE  NetworkSays(r, s, n + 2)
      <4>1. \A i \in 1..n + 2 : i > m => ~Networks(s[i])
        BY <1>1, <1>4, <3>1, <3>3
      <4> QED
        BY <1>2, <3>1, <3>3, <4>1 DEF NetworkSays
    <3> QED
      BY <3>2, <3>3 DEF AllSay, NetworkSays
  <2> QED
    BY <2>1, <2>2
<1> QED
  BY <1>5, <1>6, <1>7, <1>8 DEF AllSay

LEMMA KeptStays == ASSUME UNCHANGED argv PROVE Kept' = Kept
  BY LeftStays DEF Kept

LEMMA ParseGrants ==
    ASSUME CliInv, GrantInv, ParseFlag
    PROVE  GrantInv'
<1>1. /\ cli = "flags" /\ argv \in Argvs /\ RequestInv /\ status = "none" /\ walk # <<>>
      /\ walk \in Seq(ToSet(argv)) /\ UNCHANGED argv /\ Kept' = Kept
  BY KeptStays DEF CliInv, ParseFlag
<1>2. PICK n \in Nat : Walked(n)
  BY <1>1 DEF GrantInv
<1>3. /\ Head(walk) = walk[1] /\ Tail(walk) \in Seq(ToSet(argv)) /\ Len(walk) \in Nat /\ Len(walk) >= 1
      /\ Len(Tail(walk)) = Len(walk) - 1
      /\ \A i \in 1..Len(Tail(walk)) : Tail(walk)[i] = walk[i + 1]
  BY <1>1, HeadTailProperties, EmptySeq
<1>4. /\ Kept \in Seq(ToSet(argv)) /\ Len(Kept) \in Nat
      /\ \A i \in 1..Len(Kept) : Told(Kept[i]) /\ Kept[i].is \in Kinds \ Apart
  BY <1>1, KeptType
<1>5. n + Len(walk) = Len(Kept) /\ (\A i \in 1..Len(walk) : walk[i] = Kept[n + i]) /\ AllSay(request, Kept, n)
  BY <1>2 DEF Walked
<1>6. walk[1] = Kept[n + 1] /\ n + 1 \in 1..Len(Kept)
  BY <1>3, <1>4, <1>5
<1>7. CASE Quit(IF Head(walk).is = "help" THEN "0" ELSE "2")
  BY <1>7 DEF Quit, GrantInv
<1>8. CASE Head(walk).is \in Alone /\ request' = Granted(Head(walk)) /\ walk' = Tail(walk) /\ UNCHANGED <<cli, status>>
  <2>1. AllSay(request', Kept, n + 1)
    BY <1>1, <1>3, <1>4, <1>5, <1>6, <1>8, OneMore
  <2>2. (n + 1) + Len(walk') = Len(Kept)
    BY <1>3, <1>5, <1>8
  <2>3. ASSUME NEW i \in 1..Len(walk') PROVE walk'[i] = Kept[(n + 1) + i]
    <3>1. walk'[i] = walk[i + 1] /\ i + 1 \in 1..Len(walk) /\ n + (i + 1) = (n + 1) + i
      BY <1>3, <1>8
    <3> QED
      BY <1>5, <3>1
  <2>4. Walked(n + 1)'
    BY <1>1, <2>1, <2>2, <2>3 DEF Walked
  <2> QED
    BY <1>1, <1>8, <2>4 DEF GrantInv
<1>9. CASE /\ Takes(Head(walk)) /\ request' = [request EXCEPT ![Head(walk).of] = walk[2].of]
           /\ walk' = Tail(Tail(walk)) /\ UNCHANGED <<cli, status>>
  <2>1. Head(walk).is = "option" /\ Len(walk) > 1 /\ walk[2].is \in {"profile", "word"}
    BY <1>9 DEF Takes, Dash
  <2>2. 2 \in 1..Len(walk) /\ walk[2] = Kept[n + 2] /\ n + 2 \in 1..Len(Kept)
    BY <1>3, <1>4, <1>5, <2>1
  <2>3. Kept[n + 2].is = "word"
    BY <1>4, <2>1, <2>2 DEF Apart
  <2>4. AllSay(request', Kept, n + 2)
    BY <1>1, <1>3, <1>4, <1>5, <1>6, <1>9, <2>1, <2>2, <2>3, TwoMore
  <2>5. Tail(walk) # <<>>
    <3>1. Len(Tail(walk)) > 0
      BY <1>3, <2>1
    <3> QED
      BY <3>1, EmptySeq
  <2>6. /\ Len(walk') = Len(Tail(walk)) - 1
        /\ \A i \in 1..Len(walk') : walk'[i] = Tail(walk)[i + 1]
    BY <1>3, <1>9, <2>5, HeadTailProperties
  <2>7. (n + 2) + Len(walk') = Len(Kept)
    BY <1>3, <1>5, <2>6
  <2>8. ASSUME NEW i \in 1..Len(walk') PROVE walk'[i] = Kept[(n + 2) + i]
    <3>1. /\ walk'[i] = Tail(walk)[i + 1] /\ i + 1 \in 1..Len(Tail(walk))
          /\ (i + 1) + 1 = i + 2 /\ i + 2 \in 1..Len(walk) /\ n + (i + 2) = (n + 2) + i
      BY <1>3, <2>1, <2>6
    <3> QED
      BY <1>3, <1>5, <3>1
  <2>9. Walked(n + 2)'
    BY <1>1, <2>4, <2>7, <2>8 DEF Walked
  <2> QED
    BY <1>1, <1>9, <2>9 DEF GrantInv
<1> QED
  BY <1>7, <1>8, <1>9 DEF ParseFlag, Alone

LEMMA SplitGrants ==
    ASSUME CliInv, GrantInv, Split
    PROVE  GrantInv'
<1>1. cli = "argv" /\ status = "none" /\ request = Fresh /\ UNCHANGED <<request, argv>>
  BY DEF CliInv, GrantInv, Split, vars
<1>2. CASE Quit("0")
  BY <1>1, <1>2 DEF Quit, GrantInv
<1>3. CASE argv # <<>> /\ cli' = "flags" /\ walk' = Keep(Left, Kinds \ Apart) /\ UNCHANGED status
  <2>1. argv \in Argvs
    BY <1>1, <1>3 DEF CliInv
  <2>2. walk' = Kept /\ Kept' = Kept /\ Len(Kept) \in Nat
    BY <1>1, <1>3, <2>1, KeptStays, KeptType DEF Kept
  <2>3. AllSay(request, Kept, 0)
    <3>1. /\ request.items = {} /\ request.binds = <<>> /\ request.network = Unset
          /\ request.no_base = FALSE /\ request.override = FALSE
      BY <1>1 DEF Fresh
    <3>2. ToSet(<<>>) = {}
      BY DEF ToSet
    <3> QED
      BY <3>1, <3>2 DEF AllSay, ItemsSay, BindsSay, FlagsSay, NetworkSays
  <2>4. Walked(0)'
    BY <1>1, <2>2, <2>3 DEF Walked
  <2> QED
    BY <1>1, <1>3, <2>4 DEF GrantInv
<1> QED
  BY <1>2, <1>3 DEF Split

\* What the tokens that Split kept say is what all the tokens say.
LEMMA KeptSaysAll ==
    ASSUME argv \in Argvs, RequestInv, AllSay(request, Kept, Len(Kept))
    PROVE  Granting
<1> DEFINE N == Len(Kept)
           L == Len(Left)
<1>1. /\ N \in Nat /\ \A i \in 1..N : Told(Kept[i]) /\ Kept[i].is \in Kinds \ Apart
      /\ \E h : Picks(Left, Kinds \ Apart, L, Kept, h)
  BY KeptType
<1>2. PICK h : Picks(Left, Kinds \ Apart, L, Kept, h)
  BY <1>1
<1>3. L \in Nat /\ DOMAIN Left = 1..L /\ \A i \in 1..L : Told(Left[i])
  BY LeftTold, ArgvTold
<1>4. /\ h \in [1..N -> 1..L]
      /\ \A j \in 1..N : Kept[j] = Left[h[j]]
      /\ \A i, j \in 1..N : i < j => h[i] < h[j]
      /\ \A i \in 1..L : Left[i].is \in Kinds \ Apart => \E j \in 1..N : h[j] = i
  BY <1>2 DEF Picks
<1>5. ItemsSay(request, Kept, N) /\ BindsSay(request, Kept, N) /\ FlagsSay(request, Kept, N) /\ NetworkSays(request, Kept, N)
  BY DEF AllSay
<1>6. \A i \in 1..L : Left[i].is \in Kinds
  BY <1>3 DEF Told
<1> HIDE DEF N, L
<1>7. \A j \in 1..N : h[j] \in 1..L
  BY <1>4
<1>8. request.items = UNION {Left[i].of : i \in {j \in DOMAIN Left : Left[j].is \in {"net", "env"} /\ Left[j].of # Unset}}
  <2> DEFINE I == {j \in DOMAIN Left : Left[j].is \in {"net", "env"} /\ Left[j].of # Unset}
  <2>1. \A x : x \in request.items <=> \E i \in I : x \in Left[i].of
    <3> SUFFICES ASSUME NEW x PROVE x \in request.items <=> \E i \in I : x \in Left[i].of
      OBVIOUS
    <3>1. ASSUME x \in request.items PROVE \E i \in I : x \in Left[i].of
      <4>1. PICK j \in 1..N : Gives(Kept[j]) /\ x \in Kept[j].of
        BY <1>5, <3>1 DEF ItemsSay
      <4>2. h[j] \in I /\ x \in Left[h[j]].of
        BY <1>3, <1>4, <1>7, <4>1 DEF Gives
      <4> QED
        BY <4>2
    <3>2. ASSUME NEW i \in I, x \in Left[i].of PROVE x \in request.items
      <4>1. Left[i].is \in Kinds \ Apart
        BY DEF Kinds, Apart
      <4>2. PICK j \in 1..N : h[j] = i
        BY <1>3, <1>4, <4>1
      <4>3. Gives(Kept[j]) /\ x \in Kept[j].of
        BY <1>4, <3>2, <4>2 DEF Gives
      <4> QED
        BY <1>5, <4>3 DEF ItemsSay
    <3> QED
      BY <3>1, <3>2
  <2> HIDE DEF I
  <2>2. \A x : x \in UNION {Left[i].of : i \in I} <=> \E i \in I : x \in Left[i].of
    BY Zenon
  <2>3. request.items = UNION {Left[i].of : i \in I}
    BY <2>1, <2>2
  <2> QED
    BY <2>3 DEF I
<1>9. ToSet(request.binds) = UNION {ToSet(Left[i].of) : i \in {j \in DOMAIN Left : Left[j].is = "bind"}}
  <2> DEFINE I == {j \in DOMAIN Left : Left[j].is = "bind"}
  <2>1. \A x : x \in ToSet(request.binds) <=> \E i \in I : x \in ToSet(Left[i].of)
    <3> SUFFICES ASSUME NEW x PROVE x \in ToSet(request.binds) <=> \E i \in I : x \in ToSet(Left[i].of)
      OBVIOUS
    <3>1. ASSUME x \in ToSet(request.binds) PROVE \E i \in I : x \in ToSet(Left[i].of)
      <4>1. PICK j \in 1..N : Kept[j].is = "bind" /\ x \in ToSet(Kept[j].of)
        BY <1>5, <3>1 DEF BindsSay
      <4>2. h[j] \in I /\ x \in ToSet(Left[h[j]].of)
        BY <1>3, <1>4, <1>7, <4>1
      <4> QED
        BY <4>2
    <3>2. ASSUME NEW i \in I, x \in ToSet(Left[i].of) PROVE x \in ToSet(request.binds)
      <4>1. Left[i].is \in Kinds \ Apart
        BY DEF Kinds, Apart
      <4>2. PICK j \in 1..N : h[j] = i
        BY <1>3, <1>4, <4>1
      <4>3. Kept[j].is = "bind" /\ x \in ToSet(Kept[j].of)
        BY <1>4, <3>2, <4>2
      <4> QED
        BY <1>5, <4>3 DEF BindsSay
    <3> QED
      BY <3>1, <3>2
  <2> HIDE DEF I
  <2>2. \A x : x \in UNION {ToSet(Left[i].of) : i \in I} <=> \E i \in I : x \in ToSet(Left[i].of)
    BY Zenon
  <2>3. ToSet(request.binds) = UNION {ToSet(Left[i].of) : i \in I}
    BY <2>1, <2>2
  <2> QED
    BY <2>3 DEF I
<1>10. ASSUME NEW f \in {"no_base", "override"}
       PROVE  request[f] <=> \E i \in DOMAIN Left : Says(i, "flag") /\ Left[i].of = f
  <2>1. \A i \in DOMAIN Left : Says(i, "flag") <=> Left[i].is = "flag"
    BY <1>3 DEF Says, Told
  <2>2. request[f] <=> \E j \in 1..N : Flagged(Kept[j], f)
    BY <1>5 DEF FlagsSay
  <2>3. ASSUME NEW j \in 1..N, Flagged(Kept[j], f)
        PROVE  \E i \in DOMAIN Left : Left[i].is = "flag" /\ Left[i].of = f
    <3>1. h[j] \in DOMAIN Left /\ Left[h[j]].is = "flag" /\ Left[h[j]].of = f
      BY <1>3, <1>4, <1>7, <2>3 DEF Flagged
    <3> QED
      BY <3>1
  <2>4. ASSUME NEW i \in DOMAIN Left, Left[i].is = "flag", Left[i].of = f
        PROVE  \E j \in 1..N : Flagged(Kept[j], f)
    <3>1. Left[i].is \in Kinds \ Apart
      BY <2>4 DEF Kinds, Apart
    <3>2. PICK j \in 1..N : h[j] = i
      BY <1>3, <1>4, <3>1
    <3>3. Flagged(Kept[j], f)
      BY <1>4, <2>4, <3>2 DEF Flagged
    <3> QED
      BY <3>3
  <2> QED
    BY <2>1, <2>2, <2>3, <2>4
<1>11. request.network = NetworkSaid
  <2> DEFINE says == {i \in DOMAIN Left : Left[i].is = "net" \/ Says(i, "network")}
  <2>1. \A i : i \in says <=> i \in 1..L /\ Networks(Left[i])
    BY <1>3, <1>6 DEF Says, Networks, Kinds
  <2>2. \A i \in 1..L : Networks(Left[i]) => \E j \in 1..N : h[j] = i
    BY <1>4 DEF Networks, Kinds, Apart
  <2>3. NetworkSaid = CASE says = {} -> Unset
                        [] says # {} /\ Left[Max(says)].is = "option" -> ValueOf(Max(says))
                        [] OTHER -> IF Left[Max(says)].of = Unset THEN "host" ELSE "proxy"
    BY DEF NetworkSaid
  <2> HIDE DEF says
  <2>4. CASE request.network = Unset /\ \A i \in 1..N : ~Networks(Kept[i])
    <3>1. says = {}
      BY <1>4, <2>1, <2>2, <2>4
    <3> QED
      BY <2>3, <2>4, <3>1
  <2>5. ASSUME NEW m \in 1..N, Networks(Kept[m]), \A i \in 1..N : i > m => ~Networks(Kept[i]),
               \/ Kept[m].is = "option" /\ m + 1 \in 1..N /\ request.network = Kept[m + 1].of
               \/ Kept[m].is = "net" /\ request.network = IF Kept[m].of = Unset THEN "host" ELSE "proxy"
        PROVE  request.network = NetworkSaid
    <3>1. h[m] \in 1..L /\ Left[h[m]] = Kept[m] /\ h[m] \in says
      BY <1>4, <1>7, <2>1, <2>5
    <3>2. ASSUME NEW i \in says PROVE i <= h[m]
      <4>1. PICK j \in 1..N : h[j] = i
        BY <2>1, <2>2
      <4>2. Networks(Kept[j])
        BY <1>4, <2>1, <4>1
      <4>3. j <= m
        BY <1>1, <2>5, <4>2
      <4>4. h[j] \in Nat /\ h[m] \in Nat /\ (j = m \/ h[j] < h[m])
        BY <1>1, <1>4, <1>7, <4>3
      <4> QED
        BY <4>1, <4>4
    <3>3. says \in SUBSET Nat
      BY <1>3, <2>1
    <3>4. Max(says) = h[m]
      BY <3>1, <3>2, <3>3, MaxIs
    <3>5. CASE Kept[m].is = "net"
      BY <2>3, <2>5, <3>1, <3>4, <3>5
    <3>6. CASE Kept[m].is = "option" /\ m + 1 \in 1..N /\ request.network = Kept[m + 1].of
      <4> DEFINE after == {j \in h[m] + 1..L : Left[j].is \notin Apart}
      <4>1. /\ h[m + 1] \in 1..L /\ h[m] < h[m + 1] /\ Left[h[m + 1]] = Kept[m + 1]
            /\ Kept[m + 1].is \notin Apart
        BY <1>1, <1>4, <1>7, <3>6
      <4>2. h[m + 1] \in after
        BY <1>3, <3>1, <4>1
      <4>3. ASSUME NEW i \in after PROVE h[m + 1] <= i
        <5>1. i \in 1..L /\ h[m] < i /\ Left[i].is \in Kinds \ Apart
          BY <1>3, <1>6, <3>1
        <5>2. PICK j \in 1..N : h[j] = i
          BY <1>4, <5>1
        <5>3. m < j
          <6>1. CASE j = m
            BY <3>1, <5>1, <5>2, <6>1
          <6>2. CASE j < m
            <7>1. h[j] < h[m] /\ h[j] \in Nat /\ h[m] \in Nat
              BY <1>4, <1>7, <6>2
            <7> QED
              BY <5>1, <5>2, <7>1
          <6> QED
            BY <1>1, <6>1, <6>2
        <5>4. h[j] \in Nat /\ h[m + 1] \in Nat /\ (j = m + 1 \/ h[m + 1] < h[j])
          BY <1>1, <1>4, <1>7, <3>6, <5>3
        <5> QED
          BY <5>2, <5>4
      <4>4. after \in SUBSET Nat
        BY <1>3, <3>1
      <4>5. ValueOf(h[m]) = Left[Min(after)].of
        BY DEF ValueOf, L
      <4> HIDE DEF after
      <4>6. Min(after) = h[m + 1]
        BY <4>2, <4>3, <4>4, MinIs
      <4>7. ValueOf(h[m]) = request.network
        BY <3>6, <4>1, <4>5, <4>6
      <4>8. says # {}
        BY <3>1
      <4> QED
        BY <2>3, <3>1, <3>4, <3>6, <4>7, <4>8
    <3> QED
      BY <2>5, <3>5, <3>6
  <2> QED
    BY <1>5, <2>4, <2>5 DEF NetworkSays
<1>12. request.passes = UNION {Covers[i] : i \in request.items}
  BY DEF RequestInv, Covered
<1> QED
  BY <1>8, <1>9, <1>10, <1>11, <1>12 DEF Granting

LEMMA GrantingStays == ASSUME UNCHANGED <<request, argv>>, Granting PROVE Granting'
<1>1. Left' = Left
  BY LeftStays
<1>2. NetworkSaid' = NetworkSaid
  BY <1>1 DEF NetworkSaid, ValueOf, Says
<1>3. (\A f \in {"no_base", "override"} : request[f] <=> \E i \in DOMAIN Left : Says(i, "flag") /\ Left[i].of = f)'
  BY <1>1 DEF Granting, Says
<1> QED
  BY <1>1, <1>2, <1>3 DEF Granting

LEMMA GrantStep ==
    ASSUME MInv, CliInv, GrantInv, INext
    PROVE  GrantInv'
<1>1. CASE Dispatch
  <2>1. cli = "flags" /\ walk = <<>> /\ status = "none" /\ argv \in Argvs /\ RequestInv /\ UNCHANGED <<request, argv>>
    BY <1>1 DEF Dispatch, CliInv, vars
  <2>2. PICK n \in Nat : Walked(n)
    BY <2>1 DEF GrantInv
  <2>3. n = Len(Kept) /\ AllSay(request, Kept, n)
    <3>1. Len(walk) = 0 /\ Len(Kept) \in Nat
      BY <2>1, EmptySeq, KeptType
    <3> QED
      BY <2>2, <3>1 DEF Walked
  <2>4. Granting'
    BY <2>1, <2>3, KeptSaysAll, GrantingStays
  <2>5. cli' \in {"load", "over"}
    BY <1>1 DEF Dispatch, Quit
  <2> QED
    BY <2>4, <2>5 DEF GrantInv
<1>2. CASE Load \/ Loaded
  <2>1. cli = "load" /\ cli' \in {"load", "merge", "over"} /\ UNCHANGED <<request, argv>>
    BY <1>2 DEF Load, Loaded, Quit, vars
  <2> QED
    BY <2>1, GrantingStays DEF GrantInv
<1>3. CASE MergeFound \/ MergeAny \/ Resolve
  <2>1. UNCHANGED <<argv, cli, status>> /\ cli \in {"library", "merge"}
    BY <1>3 DEF MergeFound, MergeAny, Resolve, cvars
  <2>2. UNCHANGED request
    BY <1>3, RestKeeps DEF MergeFound, MergeAny, Resolve, MergeLayer, LayerConflicts
  <2> QED
    BY <2>1, <2>2, GrantingStays DEF GrantInv, CliInv
<1>4. CASE ResolveRaises \/ Explain \/ RunRaises \/ Run
  <2>1. cli \in {"library", "merge"} /\ cli' = "over" /\ UNCHANGED <<request, argv>>
    BY <1>4 DEF ResolveRaises, Explain, RunRaises, Run, Quit, vars
  <2>2. argv # <<>> => cli = "merge"
    BY <2>1 DEF CliInv
  <2> QED
    BY <2>1, <2>2, GrantingStays DEF GrantInv
<1> QED
  BY <1>1, <1>2, <1>3, <1>4, SplitGrants, ParseGrants DEF INext

LEMMA GrantStutters == ASSUME GrantInv, UNCHANGED ivars PROVE GrantInv'
<1>1. UNCHANGED <<request, argv, cli, walk, status>>
  BY DEF ivars, vars, cvars
<1>2. Kept' = Kept
  BY <1>1, KeptStays
<1>3. \A n \in Nat : Walked(n)' = Walked(n)
  BY <1>1, <1>2 DEF Walked
<1> QED
  BY <1>1, <1>3, GrantingStays DEF GrantInv

LEMMA GrantsAre == ASSUME GrantInv PROVE GrantsAreSpelled
  BY DEF GrantInv, GrantsAreSpelled, Granting

-----------------------------------------------------------------------------
(* A command runs only by Run, and nothing happens after it.                *)

LEMMA OnlyRun ==
    ASSUME CliInv, INext, ~Run
    PROVE  status' # "command"
<1>1. cli # "over"
  BY DEF INext, Run, Split, ParseFlag, Dispatch, Load, Loaded, MergeFound, MergeAny, Resolve,
         ResolveRaises, Explain, RunRaises
<1>2. status = "none"
  BY <1>1 DEF CliInv
<1>3. CASE Split \/ ParseFlag \/ Dispatch
  BY <1>2, <1>3 DEF Split, ParseFlag, Dispatch, Quit
<1>4. CASE Load \/ Loaded
  BY <1>2, <1>4 DEF Load, Loaded, Quit
<1>5. CASE MergeFound \/ MergeAny \/ Resolve
  BY <1>2, <1>5 DEF MergeFound, MergeAny, Resolve, cvars
<1>6. CASE ResolveRaises \/ Explain \/ RunRaises
  BY <1>6 DEF ResolveRaises, Explain, RunRaises, Quit
<1> QED
  BY <1>3, <1>4, <1>5, <1>6 DEF INext

LEMMA AskedStutters == ASSUME UNCHANGED ivars, RunsAsAsked PROVE RunsAsAsked'
<1>1. UNCHANGED <<request, argv, system, found, status, binds, items, network>>
  BY DEF ivars, vars, cvars
<1>2. Command' = Command /\ Wanted' = Wanted
  BY <1>1, LeftStays, WantedStays
<1> QED
  BY <1>1, <1>2 DEF RunsAsAsked

LEMMA EnvironmentStutters == ASSUME UNCHANGED ivars, CommandEnvironment PROVE CommandEnvironment'
<1>1. UNCHANGED <<request, past, last, network, system, final, status>>
  BY DEF ivars, vars, cvars
<1>3. CASE status # "command"
  BY <1>1, <1>3 DEF CommandEnvironment
<1>4. CASE status = "command"
  <2>1. AllPromised
    BY <1>4, EnvironmentIs
  <2>2. \A k \in Keys : SetTo(k)' = SetTo(k) /\ (Through(k)' <=> Through(k))
    BY <1>1, SameSettings
  <2>3. AllPromised'
    BY <1>1, <2>1, <2>2 DEF AllPromised, Promised
  <2> QED
    BY <2>3, PromisedNext
<1> QED
  BY <1>3, <1>4

IInv == MInv /\ CliInv /\ GrantInv /\ RunsAsAsked /\ CommandEnvironment

\* From a command line, or from a library caller's layers: how far main has
\* come, what it has found and merged, and what the command was given.
THEOREM InvocationInvariant == ISpec => []IInv
<1>1. IInit => IInv
  <2> SUFFICES ASSUME IInit PROVE IInv
    OBVIOUS
  <2>1. MInv /\ CliInv
    BY CliStarts, MergeStarts
  <2>2. status = "none"
    BY DEF IInit
  <2>3. GrantInv
    BY <2>2 DEF IInit, GrantInv
  <2> QED
    BY <2>1, <2>2, <2>3 DEF IInv, RunsAsAsked, CommandEnvironment
<1>2. ASSUME IInv, INext PROVE IInv'
  <2>1. MInv' /\ CliInv' /\ GrantInv'
    BY <1>2, CliStep, GrantStep DEF IInv
  <2>2. RunsAsAsked' /\ CommandEnvironment'
    <3>1. CASE Run
      BY <1>2, <3>1, RunAsAsked, RunEnvironment DEF IInv
    <3>2. CASE ~Run
      BY <1>2, <3>2, OnlyRun DEF IInv, RunsAsAsked, CommandEnvironment
    <3> QED
      BY <3>1, <3>2
  <2> QED
    BY <2>1, <2>2 DEF IInv
<1>3. ASSUME IInv, UNCHANGED ivars PROVE IInv'
  BY <1>3, CliStutters, GrantStutters, AskedStutters, EnvironmentStutters DEF IInv
<1> QED
  BY <1>1, <1>2, <1>3, PTL DEF ISpec

\* BindsFollowRequests, however the layers and the request come: the list of
\* binds that _add_bind leaves is what a reader of all the requests would write.
THEOREM FollowsRequests == (Spec => []BindsFollowRequests) /\ (ISpec => []BindsFollowRequests)
<1>1. MInv => BindsFollowRequests
  BY MergeImplies
<1>2. IInv => BindsFollowRequests
  BY <1>1 DEF IInv
<1> QED
  BY <1>1, <1>2, MergeInvariant, InvocationInvariant, PTL

\* ConflictsReported: without override the merge passes the layers only if they
\* agree, and stops at a conflict only if they do not.
THEOREM ReportsConflicts == (Spec => []ConflictsReported) /\ (ISpec => []ConflictsReported)
<1>1. MInv => ConflictsReported
  BY MergeImplies
<1>2. IInv => ConflictsReported
  BY <1>1 DEF IInv
<1> QED
  BY <1>1, <1>2, MergeInvariant, InvocationInvariant, PTL

\* NetworkRestricted: no profile widens the network that another restricted.
THEOREM NetworkRestricts == (Spec => []NetworkRestricted) /\ (ISpec => []NetworkRestricted)
<1>1. MInv => NetworkRestricted
  BY MergeImplies
<1>2. IInv => NetworkRestricted
  BY <1>1 DEF IInv
<1> QED
  BY <1>1, <1>2, MergeInvariant, InvocationInvariant, PTL

\* GrantsAreSpelled: what _parse_flags makes of the request is what the tokens
\* left of the first "--" say, each of them, wherever it stands.
THEOREM GrantsOnlySpelled == ISpec => []GrantsAreSpelled
<1>1. IInv => GrantsAreSpelled
  BY GrantsAre DEF IInv
<1> QED
  BY <1>1, InvocationInvariant, PTL

\* RunsAsAsked: main runs the command under every profile it was asked for, the
\* base first, each of them heeded, or does not run it.
THEOREM RunsAllAsked == ISpec => []RunsAsAsked
  BY InvocationInvariant, PTL DEF IInv

\* CommandEnvironment: build_env gives every variable the value the documents
\* promise, from the request, the last layer that sets it, or the host.
THEOREM SetsEnvironment == ISpec => []CommandEnvironment
  BY InvocationInvariant, PTL DEF IInv
=============================================================================
