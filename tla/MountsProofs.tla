---------------------------- MODULE MountsProofs ----------------------------
(* Proofs about Mounts, for any host, policy, links and number of binds.    *)
EXTENDS Mounts, SequenceTheorems, FiniteSetTheorems, WellFoundedInduction, TLAPS

-----------------------------------------------------------------------------
(* Sets of naturals, as in InvocationProofs.                                *)

LEMMA LeastExists ==
    ASSUME NEW T \in SUBSET Nat, T # {}
    PROVE  \E x \in T : \A y \in T : x <= y
<1> DEFINE R == {ss \in Nat \X Nat : ss[1] < ss[2]}
<1>1. IsWellFoundedOn(R, Nat)
  BY NatLessThanWellFounded DEF OpToRel
<1>2. \A x, y \in Nat : y < x => <<y, x>> \in R
  OBVIOUS
<1> HIDE DEF R
<1>3. PICK x \in T : \A y \in T : <<y, x>> \notin R
  BY <1>1, WFMin
<1>4. ASSUME NEW y \in T PROVE x <= y
  <2>1. x \in Nat /\ y \in Nat /\ ~(y < x)
    BY <1>2, <1>3
  <2> QED
    BY <2>1
<1> QED
  BY <1>4

LEMMA Induction ==
    ASSUME NEW T, 0 \in T, \A n \in Nat : n \in T => n + 1 \in T
    PROVE  Nat \subseteq T
<1> SUFFICES ASSUME Nat \ T # {} PROVE FALSE
  OBVIOUS
<1>1. PICK x \in Nat \ T : \A y \in Nat \ T : x <= y
  BY LeastExists
<1>2. x - 1 \in Nat /\ x - 1 \in T
  BY <1>1
<1> QED
  BY <1>1, <1>2

LEMMA MaxIs ==
    ASSUME NEW S \in SUBSET Nat, NEW n \in S, \A m \in S : m <= n
    PROVE  Max(S) = n
<1>1. \A x \in S : (\A y \in S : x >= y) => x = n
  OBVIOUS
<1>2. \A y \in S : n >= y
  OBVIOUS
<1> QED
  BY <1>1, <1>2 DEF Max

LEMMA GreatestExists ==
    ASSUME NEW N \in Nat, NEW S \in SUBSET (1..N), S # {}
    PROVE  Max(S) \in S /\ \A y \in S : y <= Max(S)
<1> DEFINE T == {N - x : x \in S}
<1>1. T \in SUBSET Nat /\ T # {}
  <2>1. PICK z \in S : TRUE
    OBVIOUS
  <2>2. N - z \in T
    BY <2>1
  <2>3. ASSUME NEW x \in S PROVE N - x \in Nat
    BY <2>3
  <2> QED
    BY <2>2, <2>3
<1>2. PICK t \in T : \A y \in T : t <= y
  BY <1>1, LeastExists
<1>3. PICK x \in S : t = N - x
  BY <1>2
<1>4. \A y \in S : y <= x
  <2> SUFFICES ASSUME NEW y \in S PROVE y <= x
    OBVIOUS
  <2>1. t <= N - y
    BY <1>2
  <2> QED
    BY <1>3, <2>1
<1>5. S \in SUBSET Nat
  OBVIOUS
<1>6. Max(S) = x
  BY <1>4, <1>5, MaxIs
<1> QED
  BY <1>4, <1>6

LEMMA LeastIs ==
    ASSUME NEW S \in SUBSET Nat, S # {}
    PROVE  Min(S) \in S
<1>1. PICK x \in S : \A y \in S : x <= y
  BY LeastExists
<1> QED
  BY <1>1 DEF Min

-----------------------------------------------------------------------------
(* The types of a policy, which a merge keeps, whatever is merged.          *)

Policies ==
    [ok : BOOLEAN, binds : Seq(Binds), tmpfs : Seq(Paths),
     home : {h \in SUBSET Paths : IsFiniteSet(h)}, proc : BOOLEAN, dev : BOOLEAN, cwd : Paths]

LEMMA MergedType ==
    ASSUME NEW p \in Policies, NEW b \in Binds, NEW override \in BOOLEAN
    PROVE  Merged(p, b, override) \in Policies
<1> DEFINE same == {i \in DOMAIN p.binds : p.binds[i].source = b.source}
           i == Min(same)
<1>1. /\ p.binds \in Seq(Binds) /\ DOMAIN p.binds = 1..Len(p.binds) /\ Len(p.binds) \in Nat
      /\ \A j \in DOMAIN p.binds : p.binds[j] \in Binds
  <2>1. p.binds \in Seq(Binds)
    BY DEF Policies
  <2> QED
    BY <2>1, LenProperties, ElementOfSeq
<1>2. CASE same = {}
  <2>1. Append(p.binds, b) \in Seq(Binds)
    BY <1>1, AppendProperties
  <2>2. Merged(p, b, override) = [p EXCEPT !.binds = Append(p.binds, b)]
    BY <1>2 DEF Merged
  <2> QED
    BY <2>1, <2>2 DEF Policies
<1>3. CASE same # {}
  <2>1. same \in SUBSET Nat /\ same \subseteq DOMAIN p.binds
    BY <1>1
  <2>2. i \in DOMAIN p.binds
    BY <1>3, <2>1, LeastIs
  <2>3. Merged(p, b, override) =
          IF p.binds[i].mode = b.mode
            THEN [p EXCEPT !.binds = [p.binds EXCEPT ![i] = [p.binds[i] EXCEPT !.optional = p.binds[i].optional /\ b.optional]]]
          ELSE IF override THEN [p EXCEPT !.binds = [p.binds EXCEPT ![i] = b]]
          ELSE [p EXCEPT !.ok = FALSE]
    BY <1>3 DEF Merged, Policies
  <2> HIDE DEF same, i
  <2>4. [p.binds[i] EXCEPT !.optional = p.binds[i].optional /\ b.optional] \in Binds
    <3>1. p.binds[i] \in Binds /\ b.optional \in BOOLEAN
      BY <1>1, <2>2 DEF Binds
    <3>2. (p.binds[i].optional /\ b.optional) \in BOOLEAN
      OBVIOUS
    <3> QED
      BY <3>1, <3>2 DEF Binds
  <2>5. \A c \in Binds : [p.binds EXCEPT ![i] = c] \in Seq(Binds)
    BY <1>1, <2>2, ExceptSeq
  <2>6. \A s \in Seq(Binds) : [p EXCEPT !.binds = s] \in Policies
    BY DEF Policies
  <2>7. [p EXCEPT !.ok = FALSE] \in Policies
    BY DEF Policies
  <2> QED
    BY <2>3, <2>4, <2>5, <2>6, <2>7
<1> QED
  BY <1>2, <1>3

\* The first m merges of AddAll's recursive definition.
IsMerged(p, binds, override, m, f) ==
    f = [n \in 0..m |-> IF n = 0 THEN p ELSE Merged(f[n - 1], binds[n], override)]

LEMMA AllMerged ==
    ASSUME NEW p, NEW binds, NEW override, NEW N \in Nat
    PROVE  \E f : IsMerged(p, binds, override, N, f)
<1> DEFINE T == {m \in Nat : \E f : IsMerged(p, binds, override, m, f)}
<1>1. 0 \in T
  <2> DEFINE f == [n \in 0..0 |-> p]
  <2>1. f = [n \in 0..0 |-> IF n = 0 THEN p ELSE Merged(f[n - 1], binds[n], override)]
    OBVIOUS
  <2> HIDE DEF f
  <2>2. IsMerged(p, binds, override, 0, f)
    BY <2>1 DEF IsMerged
  <2> QED
    BY <2>2
<1>2. ASSUME NEW m \in Nat, m \in T PROVE m + 1 \in T
  <2>1. PICK f : IsMerged(p, binds, override, m, f)
    BY <1>2
  <2>2. f = [n \in 0..m |-> IF n = 0 THEN p ELSE Merged(f[n - 1], binds[n], override)]
    BY <2>1 DEF IsMerged
  <2>3. \A n \in 0..m : f[n] = IF n = 0 THEN p ELSE Merged(f[n - 1], binds[n], override)
    BY <2>2
  <2> DEFINE more == Merged(f[m], binds[m + 1], override)
             g == [n \in 0..m + 1 |-> IF n = m + 1 THEN more ELSE f[n]]
  <2>4. /\ g[m + 1] = more
        /\ \A n \in 0..m : g[n] = f[n]
        /\ \A n \in 0..m + 1 : n \in 0..m \/ n = m + 1
        /\ \A n \in 1..m + 1 : n - 1 \in 0..m
    BY <1>2
  <2>5. ASSUME NEW n \in 0..m + 1
        PROVE  g[n] = IF n = 0 THEN p ELSE Merged(g[n - 1], binds[n], override)
    <3> HIDE DEF g
    <3>1. CASE n = m + 1
      BY <2>4, <3>1
    <3>2. CASE n \in 0..m
      BY <2>3, <2>4, <3>2
    <3> QED
      BY <2>4, <3>1, <3>2
  <2>6. g = [n \in 0..m + 1 |-> g[n]]
    OBVIOUS
  <2> HIDE DEF g
  <2>7. IsMerged(p, binds, override, m + 1, g)
    BY <2>5, <2>6 DEF IsMerged
  <2> QED
    BY <2>7
<1> HIDE DEF T
<1>3. Nat \subseteq T
  BY <1>1, <1>2, Induction
<1> QED
  BY <1>3 DEF T

Stages(f, p, binds, override) ==
    f[0] = p /\ \A n \in Nat : n < Len(binds) => f[n + 1] = Merged(f[n], binds[n + 1], override)

LEMMA AddAllIs ==
    ASSUME NEW p, NEW binds \in Seq(Binds), NEW override
    PROVE  \E f : Stages(f, p, binds, override) /\ AddAll(p, binds, override) = f[Len(binds)]
<1> DEFINE N == Len(binds)
           first == CHOOSE f : IsMerged(p, binds, override, N, f)
<1>1. N \in Nat
  BY LenProperties
<1>2. AddAll(p, binds, override) = first[N]
  BY DEF AddAll, IsMerged
<1>3. IsMerged(p, binds, override, N, first)
  BY <1>1, AllMerged
<1> HIDE DEF first, N
<1>4. \A n \in 0..N : first[n] = IF n = 0 THEN p ELSE Merged(first[n - 1], binds[n], override)
  <2>1. first = [n \in 0..N |-> IF n = 0 THEN p ELSE Merged(first[n - 1], binds[n], override)]
    BY <1>3 DEF IsMerged
  <2> QED
    BY <2>1
<1>5. first[0] = p
  BY <1>1, <1>4
<1>6. ASSUME NEW n \in Nat, n < N PROVE first[n + 1] = Merged(first[n], binds[n + 1], override)
  <2>1. n + 1 \in 0..N /\ n + 1 # 0 /\ (n + 1) - 1 = n
    BY <1>1, <1>6
  <2> QED
    BY <1>4, <2>1
<1> QED
  BY <1>2, <1>5, <1>6 DEF N, Stages

LEMMA AddAllType ==
    ASSUME NEW p \in Policies, NEW binds \in Seq(Binds), NEW override \in BOOLEAN
    PROVE  AddAll(p, binds, override) \in Policies
<1> DEFINE N == Len(binds)
<1>1. N \in Nat /\ \A n \in 1..N : binds[n] \in Binds
  BY ElementOfSeq
<1>2. PICK first : Stages(first, p, binds, override) /\ AddAll(p, binds, override) = first[N]
  BY AddAllIs
<1> HIDE DEF N
<1> DEFINE T == {n \in Nat : n <= N => first[n] \in Policies}
<1>3. 0 \in T
  BY <1>2 DEF Stages
<1>4. ASSUME NEW n \in Nat, n \in T PROVE n + 1 \in T
  <2> SUFFICES ASSUME n + 1 <= N PROVE first[n + 1] \in Policies
    OBVIOUS
  <2>1. first[n] \in Policies /\ n + 1 \in 1..N /\ n < N
    BY <1>1, <1>4
  <2>2. first[n + 1] = Merged(first[n], binds[n + 1], override)
    BY <1>2, <2>1 DEF Stages, N
  <2> QED
    BY <1>1, <2>1, <2>2, MergedType
<1> HIDE DEF T
<1>5. Nat \subseteq T
  BY <1>3, <1>4, Induction
<1> QED
  BY <1>1, <1>2, <1>5 DEF T

\* What the types of a request are, whether it is one of those that are made first
\* or made after a report.
Typed(r) ==
    /\ r.base.binds \in Seq(Binds) /\ r.base.tmpfs \in Seq(Paths)
    /\ r.base.home \subseteq Paths /\ IsFiniteSet(r.base.home)
    /\ r.base.proc \in BOOLEAN /\ r.base.dev \in BOOLEAN /\ r.cwd \in Paths
    /\ r.profiles \in Seq(Binds) /\ r.binds \in Seq(Binds)
    /\ r.override \in BOOLEAN /\ r.bind_project \in BOOLEAN /\ r.proxied \in BOOLEAN

LEMMA RequestTyped == \A r \in Requests : Typed(r)
BY LayersAssumption DEF Typed

\* The policy that a request starts from, and the project's bind.
None(r) ==
    [ok |-> TRUE, binds |-> <<>>, tmpfs |-> r.base.tmpfs, home |-> r.base.home,
     proc |-> r.base.proc, dev |-> r.base.dev, cwd |-> r.cwd]
ProjectBind == [source |-> Project, mode |-> "rw", optional |-> FALSE]
Layered(r) == AddAll(None(r), r.base.binds \o r.profiles, r.override)
WithProject(r, p) == IF r.bind_project THEN Merged(p, ProjectBind, TRUE) ELSE p

\* What a request resolves to is a policy.
LEMMA ResolvedType ==
    ASSUME NEW r, Typed(r)
    PROVE  /\ None(r) \in Policies /\ ProjectBind \in Binds /\ r.base.binds \o r.profiles \in Seq(Binds)
           /\ Layered(r) \in Policies /\ WithProject(r, Layered(r)) \in Policies
           /\ Resolved(r) = AddAll(WithProject(r, Layered(r)), r.binds, TRUE)
           /\ Resolved(r) \in Policies
<1>1. None(r) \in Policies
  <2>1. <<>> \in Seq(Binds)
    BY EmptySeq
  <2> QED
    BY <2>1 DEF Policies, None, Typed
<1>2. ProjectBind \in Binds
  BY PathsAssumption DEF Binds, Modes, ProjectBind
<1>3. r.base.binds \o r.profiles \in Seq(Binds)
  BY ConcatProperties DEF Typed
<1>4. Layered(r) \in Policies
  BY <1>1, <1>3, AddAllType DEF Typed, Layered
<1>5. WithProject(r, Layered(r)) \in Policies
  BY <1>2, <1>4, MergedType DEF WithProject
<1>6. Resolved(r) = AddAll(WithProject(r, Layered(r)), r.binds, TRUE)
  BY DEF Resolved, WithProject, Layered, None, ProjectBind
<1>7. Resolved(r) \in Policies
  BY <1>5, <1>6, AddAllType DEF Typed
<1> QED
  BY <1>1, <1>2, <1>3, <1>4, <1>5, <1>6, <1>7

-----------------------------------------------------------------------------
(* The argv of bwrap: what goes before the binds, the binds in the order of *)
(* the policy, and what goes after them.                                    *)

Kinds == {"link", "ro", "rw", "proc", "dev", "dir", "tmpfs", "file", "chdir"}
Ops == [kind : Kinds, at : Paths, to : Paths, try : BOOLEAN]

\* What a policy p asks for before its binds.
Early(p) ==
    {o \in Ops :
       \/ o.kind = "link" /\ o.at \in DOMAIN Links /\ o.to = Links[o.at]
       \/ o.kind = "ro" /\ o.at \in ToSet(TopDirs) /\ ~o.try
       \/ o.kind = "proc" /\ o.at = <<"proc">> /\ p.proc
       \/ o.kind = "dev" /\ o.at = <<"dev">> /\ p.dev
       \/ o.kind = "dir" /\ o.at \in p.home
       \/ o.kind = "tmpfs" /\ o.at \in ToSet(p.tmpfs)}

\* What every command needs after them, the k-th of n operations.
Late(o, k, n, p, proxied) ==
    \/ k = 1 /\ o.kind = "dir" /\ o.at = Scratch
    \/ k = 2 /\ n = 3 /\ proxied /\ o.kind = "file" /\ o.at = ProxySocket
    \/ k = n /\ k # 1 /\ o.kind = "chdir" /\ o.at = p.cwd

\* The n binds of a policy p are in argv behind the first o operations.
Arranged(argv, o, p, proxied) ==
    /\ argv \in Seq(Ops)
    /\ o \in Nat
    /\ \A j \in 1..o : argv[j] \in Early(p)
    /\ \A i \in 1..Len(p.binds) : argv[o + i] = BindFlag(p.binds[i])
    /\ \E n \in {2, 3} :
         /\ Len(argv) = o + Len(p.binds) + n
         /\ \A k \in 1..n : Late(argv[o + Len(p.binds) + k], k, n, p, proxied)

LEMMA FunIsSeq ==
    ASSUME NEW Vals, NEW n \in Nat, NEW f \in [1..n -> Vals]
    PROVE  f \in Seq(Vals) /\ Len(f) = n
OBVIOUS

LEMMA MoreVals ==
    ASSUME NEW Vals, NEW More, Vals \subseteq More, NEW s \in Seq(Vals)
    PROVE  s \in Seq(More)
<1>1. Len(s) \in Nat /\ s \in [1..Len(s) -> Vals]
  BY LenProperties
<1>2. s \in [1..Len(s) -> More]
  BY <1>1
<1> QED
  BY <1>1, <1>2, FunIsSeq

LEMMA OneVal ==
    ASSUME NEW Vals, NEW v \in Vals
    PROVE  <<v>> \in Seq(Vals) /\ Len(<<v>>) = 1 /\ <<v>>[1] = v
OBVIOUS

LEMMA Joined ==
    ASSUME NEW Vals, NEW s \in Seq(Vals), NEW t \in Seq(Vals), NEW m, NEW n, m = Len(s), n = Len(t)
    PROVE  /\ m \in Nat /\ n \in Nat /\ s \o t \in Seq(Vals) /\ Len(s \o t) = m + n
           /\ \A j \in 1..m : (s \o t)[j] = s[j]
           /\ \A i \in 1..n : (s \o t)[m + i] = t[i]
<1>1. m \in Nat /\ n \in Nat
  BY LenProperties
<1>2. /\ s \o t \in Seq(Vals) /\ Len(s \o t) = m + n
      /\ \A j \in 1..m + n : (s \o t)[j] = IF j <= m THEN s[j] ELSE t[j - m]
  BY ConcatProperties
<1>3. \A j \in 1..m : j \in 1..m + n /\ j <= m
  BY <1>1
<1>4. \A i \in 1..n : m + i \in 1..m + n /\ ~(m + i <= m) /\ (m + i) - m = i
  BY <1>1
<1>5. \A i \in 1..n : (s \o t)[m + i] = t[(m + i) - m]
  BY <1>2, <1>4
<1> QED
  BY <1>1, <1>2, <1>3, <1>4, <1>5

LEMMA ListType ==
    ASSUME NEW Vals, IsFiniteSet(Vals)
    PROVE  SetToSeq(Vals) \in Seq(Vals)
<1>1. Cardinality(Vals) \in Nat /\ ExistsBijection(1..Cardinality(Vals), Vals)
  BY FS_CardinalityType
<1>2. \E f \in [1..Cardinality(Vals) -> Vals] : IsInjective(f)
  BY <1>1 DEF ExistsBijection, Bijection, Injection
<1>3. SetToSeq(Vals) \in [1..Cardinality(Vals) -> Vals]
  BY <1>2 DEF SetToSeq
<1> QED
  BY <1>1, <1>3

LEMMA LinkType ==
    ASSUME NEW p
    PROVE  LinkOps \in Seq(Early(p))
<1> DEFINE links == {Op("link", l, Links[l], FALSE) : l \in DOMAIN Links}
           tops == [i \in DOMAIN TopDirs |-> Op("ro", TopDirs[i], TopDirs[i], FALSE)]
<1>1. IsFiniteSet(links)
  <2> DEFINE f == [l \in DOMAIN Links |-> Op("link", l, Links[l], FALSE)]
  <2>1. f \in [DOMAIN Links -> links] /\ \A l \in DOMAIN Links : f[l].at = l
    BY DEF Op
  <2>2. \A o \in links : \E l \in DOMAIN Links : f[l] = o
    OBVIOUS
  <2> HIDE DEF f, links
  <2>3. f \in Injection(DOMAIN Links, links)
    BY <2>1 DEF Injection, IsInjective
  <2>4. f \in Surjection(DOMAIN Links, links)
    BY <2>1, <2>2 DEF Surjection
  <2>5. ExistsBijection(DOMAIN Links, links)
    BY <2>3, <2>4 DEF ExistsBijection, Bijection
  <2> QED
    BY <2>5, FS_Bijection, PathsAssumption
<1>2. SetToSeq(links) \in Seq(links)
  BY <1>1, ListType
<1>3. links \subseteq Early(p)
  <2> SUFFICES ASSUME NEW l \in DOMAIN Links PROVE Op("link", l, Links[l], FALSE) \in Early(p)
    OBVIOUS
  <2>1. l \in Paths /\ Links[l] \in Paths /\ "link" \in Kinds
    BY PathsAssumption DEF Kinds
  <2> DEFINE o == Op("link", l, Links[l], FALSE)
  <2>2. o \in Ops /\ o.kind = "link" /\ o.at = l /\ o.to = Links[l]
    BY <2>1 DEF Op, Ops
  <2> HIDE DEF o
  <2>3. o \in Early(p)
    BY <2>2 DEF Early
  <2> QED
    BY <2>3 DEF o
<1>4. SetToSeq(links) \in Seq(Early(p))
  BY <1>2, <1>3, MoreVals
<1>5. tops \in Seq(Early(p))
  <2>1. DOMAIN TopDirs = 1..Len(TopDirs) /\ Len(TopDirs) \in Nat /\ \A i \in DOMAIN TopDirs : TopDirs[i] \in Paths
    BY PathsAssumption, LenProperties, ElementOfSeq
  <2>2. \A i \in DOMAIN TopDirs : TopDirs[i] \in ToSet(TopDirs)
    BY DEF ToSet
  <2>3. \A i \in DOMAIN TopDirs : Op("ro", TopDirs[i], TopDirs[i], FALSE) \in Early(p)
    <3> SUFFICES ASSUME NEW i \in DOMAIN TopDirs PROVE Op("ro", TopDirs[i], TopDirs[i], FALSE) \in Early(p)
      OBVIOUS
    <3>1. TopDirs[i] \in Paths /\ "ro" \in Kinds
      BY <2>1 DEF Kinds
    <3> DEFINE o == Op("ro", TopDirs[i], TopDirs[i], FALSE)
    <3>2. o \in Ops /\ o.kind = "ro" /\ o.at = TopDirs[i] /\ ~o.try
      BY <3>1 DEF Op, Ops
    <3> HIDE DEF o
    <3>3. o \in Early(p)
      BY <2>2, <3>2 DEF Early
    <3> QED
      BY <3>3 DEF o
  <2>4. tops \in [1..Len(TopDirs) -> Early(p)]
    BY <2>1, <2>3
  <2> QED
    BY <2>1, <2>4, FunIsSeq
<1> QED
  BY <1>4, <1>5, ConcatProperties DEF LinkOps

LEMMA SpecialType ==
    ASSUME NEW p \in Policies
    PROVE  SpecialOps(p) \in Seq(Early(p))
<1> DEFINE homes == {Op("dir", h, h, FALSE) : h \in p.home}
<1>1. IsFiniteSet(homes)
  <2> DEFINE f == [h \in p.home |-> Op("dir", h, h, FALSE)]
  <2>1. f \in [p.home -> homes] /\ \A h \in p.home : f[h].at = h
    BY DEF Op
  <2>2. \A o \in homes : \E h \in p.home : f[h] = o
    OBVIOUS
  <2> HIDE DEF f, homes
  <2>3. f \in Injection(p.home, homes)
    BY <2>1 DEF Injection, IsInjective
  <2>4. f \in Surjection(p.home, homes)
    BY <2>1, <2>2 DEF Surjection
  <2>5. ExistsBijection(p.home, homes) /\ IsFiniteSet(p.home)
    BY <2>3, <2>4 DEF ExistsBijection, Bijection, Policies
  <2> QED
    BY <2>5, FS_Bijection
<1>2. SetToSeq(homes) \in Seq(homes)
  BY <1>1, ListType
<1>3. homes \subseteq Early(p)
  <2> SUFFICES ASSUME NEW h \in p.home PROVE Op("dir", h, h, FALSE) \in Early(p)
    OBVIOUS
  <2>1. h \in Paths /\ "dir" \in Kinds
    BY DEF Kinds, Policies
  <2> DEFINE o == Op("dir", h, h, FALSE)
  <2>2. o \in Ops /\ o.kind = "dir" /\ o.at = h
    BY <2>1 DEF Op, Ops
  <2> HIDE DEF o
  <2>3. o \in Early(p)
    BY <2>2 DEF Early
  <2> QED
    BY <2>3 DEF o
<1>4. SetToSeq(homes) \in Seq(Early(p))
  BY <1>2, <1>3, MoreVals
<1>5. /\ p.proc => Op("proc", <<"proc">>, <<"proc">>, FALSE) \in Early(p)
      /\ p.dev => Op("dev", <<"dev">>, <<"dev">>, FALSE) \in Early(p)
  <2>1. {<<"proc">>, <<"dev">>} \subseteq Paths /\ {"proc", "dev"} \subseteq Kinds
    BY PathsAssumption DEF Kinds
  <2> DEFINE o == Op("proc", <<"proc">>, <<"proc">>, FALSE)
             u == Op("dev", <<"dev">>, <<"dev">>, FALSE)
  <2>2. o \in Ops /\ o.kind = "proc" /\ o.at = <<"proc">> /\ u \in Ops /\ u.kind = "dev" /\ u.at = <<"dev">>
    BY <2>1 DEF Op, Ops
  <2> HIDE DEF o, u
  <2>3. (p.proc => o \in Early(p)) /\ (p.dev => u \in Early(p))
    BY <2>2 DEF Early
  <2> QED
    BY <2>3 DEF o, u
<1> DEFINE one == IF p.proc THEN <<Op("proc", <<"proc">>, <<"proc">>, FALSE)>> ELSE <<>>
           two == IF p.dev THEN <<Op("dev", <<"dev">>, <<"dev">>, FALSE)>> ELSE <<>>
<1>6. one \in Seq(Early(p)) /\ two \in Seq(Early(p))
  BY <1>5, OneVal, EmptySeq
<1>7. SpecialOps(p) = (one \o two) \o SetToSeq(homes)
  BY DEF SpecialOps
<1> HIDE DEF one, two, homes
<1> QED
  BY <1>4, <1>6, <1>7, ConcatProperties

LEMMA TmpfsType ==
    ASSUME NEW p \in Policies
    PROVE  TmpfsOps(p) \in Seq(Early(p))
<1>1. p.tmpfs \in Seq(Paths)
  BY DEF Policies
<1>2. DOMAIN p.tmpfs = 1..Len(p.tmpfs) /\ Len(p.tmpfs) \in Nat /\ \A i \in DOMAIN p.tmpfs : p.tmpfs[i] \in Paths
  BY <1>1, LenProperties, ElementOfSeq
<1>3. \A i \in DOMAIN p.tmpfs : Op("tmpfs", p.tmpfs[i], p.tmpfs[i], FALSE) \in Early(p)
  <2> SUFFICES ASSUME NEW i \in DOMAIN p.tmpfs PROVE Op("tmpfs", p.tmpfs[i], p.tmpfs[i], FALSE) \in Early(p)
    OBVIOUS
  <2>1. p.tmpfs[i] \in Paths /\ "tmpfs" \in Kinds
    BY <1>2 DEF Kinds
  <2> DEFINE o == Op("tmpfs", p.tmpfs[i], p.tmpfs[i], FALSE)
  <2>2. o \in Ops /\ o.kind = "tmpfs" /\ o.at = p.tmpfs[i]
    BY <2>1 DEF Op, Ops
  <2>3. p.tmpfs[i] \in ToSet(p.tmpfs)
    BY <1>2 DEF ToSet
  <2> HIDE DEF o
  <2>4. o \in Early(p)
    BY <2>2, <2>3 DEF Early
  <2> QED
    BY <2>4 DEF o
<1>4. TmpfsOps(p) \in [1..Len(p.tmpfs) -> Early(p)]
  BY <1>2, <1>3 DEF TmpfsOps
<1> QED
  BY <1>2, <1>4, FunIsSeq

LEMMA BindType ==
    ASSUME NEW p \in Policies
    PROVE  /\ Len(p.binds) \in Nat /\ DOMAIN p.binds = 1..Len(p.binds)
           /\ \A i \in DOMAIN p.binds : p.binds[i] \in Binds /\ BindFlag(p.binds[i]) \in Ops
           /\ BindOps(p) \in Seq(Ops) /\ Len(BindOps(p)) = Len(p.binds)
           /\ \A i \in DOMAIN p.binds : BindOps(p)[i] = BindFlag(p.binds[i])
<1>1. p.binds \in Seq(Binds)
  BY DEF Policies
<1>2. DOMAIN p.binds = 1..Len(p.binds) /\ Len(p.binds) \in Nat /\ \A i \in DOMAIN p.binds : p.binds[i] \in Binds
  BY <1>1, LenProperties, ElementOfSeq
<1>3. \A b \in Binds : BindFlag(b) \in Ops
  BY DEF BindFlag, Op, Ops, Binds, Modes, Kinds
<1>4. BindOps(p) \in [1..Len(p.binds) -> Ops] /\ \A i \in DOMAIN p.binds : BindOps(p)[i] = BindFlag(p.binds[i])
  BY <1>2, <1>3 DEF BindOps
<1>5. BindOps(p) \in Seq(Ops) /\ Len(BindOps(p)) = Len(p.binds)
  BY <1>2, <1>4, FunIsSeq
<1> QED
  BY <1>2, <1>3, <1>4, <1>5

LEMMA LastType ==
    ASSUME NEW p \in Policies, NEW proxied \in BOOLEAN
    PROVE  /\ ScratchOp \in Seq(Ops) /\ LastOps(p, proxied) \in Seq(Ops)
           /\ \E n \in {2, 3} :
                /\ Len(ScratchOp \o LastOps(p, proxied)) = n
                /\ \A k \in 1..n : Late((ScratchOp \o LastOps(p, proxied))[k], k, n, p, proxied)
<1> DEFINE scratch == Op("dir", Scratch, Scratch, FALSE)
           file == Op("file", ProxySocket, ProxySocket, FALSE)
           cd == Op("chdir", p.cwd, p.cwd, FALSE)
<1>1. {scratch, file, cd} \subseteq Ops
  BY PathsAssumption DEF Ops, Op, Kinds, Policies
<1>2. /\ scratch.kind = "dir" /\ scratch.at = Scratch
      /\ file.kind = "file" /\ file.at = ProxySocket
      /\ cd.kind = "chdir" /\ cd.at = p.cwd
  BY DEF Op
<1>3. ScratchOp = <<scratch>>
  BY DEF ScratchOp
<1>4. LastOps(p, proxied) = IF proxied THEN <<file>> \o <<cd>> ELSE <<>> \o <<cd>>
  BY DEF LastOps
<1> HIDE DEF scratch, file, cd
<1>5. ScratchOp \in Seq(Ops) /\ <<file>> \in Seq(Ops) /\ <<cd>> \in Seq(Ops) /\ <<>> \in Seq(Ops)
  BY <1>1, <1>3, OneVal, EmptySeq
<1> DEFINE last == LastOps(p, proxied)
           all == ScratchOp \o last
<1>6. CASE proxied
  <2>1. last = <<file>> \o <<cd>> /\ Len(<<file>>) = 1 /\ Len(<<cd>>) = 1
    BY <1>4, <1>6
  <2>2. last \in Seq(Ops) /\ Len(last) = 1 + 1 /\ last[1] = file /\ last[1 + 1] = cd
    BY <1>5, <2>1, Joined
  <2> HIDE DEF last
  <2>3. Len(ScratchOp) = 1 /\ ScratchOp[1] = scratch
    BY <1>3
  <2>4. Len(all) = 1 + 2 /\ (\A i \in 1..1 : all[i] = ScratchOp[i]) /\ (\A i \in 1..2 : all[1 + i] = last[i])
    <3>1. PICK a \in Nat, b \in Nat : a = Len(ScratchOp) /\ b = Len(last) /\ a = 1 /\ b = 2
      BY <2>2, <2>3
    <3>2. Len(all) = a + b /\ (\A i \in 1..a : all[i] = ScratchOp[i]) /\ (\A i \in 1..b : all[a + i] = last[i])
      <4>1. ScratchOp \in Seq(Ops) /\ last \in Seq(Ops)
        BY <1>5, <2>2
      <4>2. a = Len(ScratchOp) /\ b = Len(last)
        BY <3>1
      <4> QED
        BY <4>1, <4>2, Joined
    <3> QED
      BY <3>1, <3>2
  <2> HIDE DEF all
  <2>5. \A k \in 1..3 : Late(all[k], k, 3, p, proxied)
    <3>1. Len(all) = 3 /\ all[1] = scratch /\ all[2] = file /\ all[3] = cd
      BY <2>2, <2>3, <2>4
    <3> QED
      BY <1>2, <1>6, <3>1 DEF Late
  <2> QED
    BY <1>5, <2>2, <2>4, <2>5 DEF last, all
<1>7. CASE ~proxied
  <2>1. last = <<>> \o <<cd>>
    BY <1>4, <1>7
  <2>2. last = <<cd>>
    BY <1>5, <2>1, ConcatEmptySeq
  <2>3. Len(ScratchOp) = 1 /\ ScratchOp[1] = scratch /\ Len(last) = 1 /\ last[1] = cd /\ last \in Seq(Ops)
    BY <1>3, <1>5, <2>2
  <2> HIDE DEF last
  <2>4. Len(all) = 1 + 1 /\ (\A i \in 1..1 : all[i] = ScratchOp[i]) /\ (\A i \in 1..1 : all[1 + i] = last[i])
    <3>1. PICK a \in Nat, b \in Nat : a = Len(ScratchOp) /\ b = Len(last) /\ a = 1 /\ b = 1
      BY <2>3
    <3>2. Len(all) = a + b /\ (\A i \in 1..a : all[i] = ScratchOp[i]) /\ (\A i \in 1..b : all[a + i] = last[i])
      <4>1. ScratchOp \in Seq(Ops) /\ last \in Seq(Ops)
        BY <1>5, <2>3
      <4>2. a = Len(ScratchOp) /\ b = Len(last)
        BY <3>1
      <4> QED
        BY <4>1, <4>2, Joined
    <3> QED
      BY <3>1, <3>2
  <2> HIDE DEF all
  <2>5. \A k \in 1..2 : Late(all[k], k, 2, p, proxied)
    <3>1. Len(all) = 2 /\ all[1] = scratch /\ all[2] = cd
      BY <2>3, <2>4
    <3> QED
      BY <1>2, <3>1 DEF Late
  <2> QED
    BY <1>5, <2>3, <2>4, <2>5 DEF last, all
<1> QED
  BY <1>6, <1>7

LEMMA ArgvArranged ==
    ASSUME NEW p \in Policies, NEW proxied \in BOOLEAN
    PROVE  \E o : Arranged(Argv(p, proxied), o, p, proxied)
<1> DEFINE before == (LinkOps \o SpecialOps(p)) \o TmpfsOps(p)
           binds == BindOps(p)
           most == before \o binds
           after == ScratchOp \o LastOps(p, proxied)
<1>1. before \in Seq(Early(p))
  BY LinkType, SpecialType, TmpfsType, ConcatProperties
<1>2. binds \in Seq(Ops) /\ Len(binds) = Len(p.binds) /\ \A i \in 1..Len(p.binds) : binds[i] = BindFlag(p.binds[i])
  BY BindType
<1>3. Early(p) \subseteq Ops
  BY DEF Early
<1>4. PICK m \in {2, 3} : Len(after) = m /\ \A k \in 1..m : Late(after[k], k, m, p, proxied)
  BY LastType
<1>5. before \in Seq(Ops) /\ ScratchOp \in Seq(Ops) /\ LastOps(p, proxied) \in Seq(Ops) /\ after \in Seq(Ops)
  <2>1. ScratchOp \in Seq(Ops) /\ LastOps(p, proxied) \in Seq(Ops)
    BY LastType
  <2> QED
    BY <1>1, <1>3, <2>1, MoreVals, ConcatProperties
<1>6. Argv(p, proxied) = most \o after
  <2>1. Argv(p, proxied) = (most \o ScratchOp) \o LastOps(p, proxied)
    BY DEF Argv
  <2> HIDE DEF before, binds
  <2>2. most \in Seq(Ops)
    BY <1>2, <1>5, ConcatProperties
  <2> HIDE DEF most
  <2> QED
    BY <1>5, <2>1, <2>2, ConcatAssociative
<1> HIDE DEF before, binds, after
<1>7. PICK o \in Nat, n \in Nat : o = Len(before) /\ n = Len(binds)
  BY <1>2, <1>5, LenProperties
<1>8. /\ most \in Seq(Ops) /\ Len(most) = o + n
      /\ \A j \in 1..o : most[j] = before[j]
      /\ \A i \in 1..n : most[o + i] = binds[i]
  <2>1. before \in Seq(Ops) /\ binds \in Seq(Ops)
    BY <1>2, <1>5
  <2>2. o = Len(before) /\ n = Len(binds)
    BY <1>7
  <2> QED
    BY <2>1, <2>2, Joined
<1>9. \A j \in 1..o : before[j] \in Early(p)
  BY <1>1, <1>7, ElementOfSeq
<1> DEFINE argv == most \o after
<1> HIDE DEF most
<1>10. PICK k \in Nat : k = o + n
  OBVIOUS
<1>11. /\ argv \in Seq(Ops) /\ Len(argv) = k + m
       /\ \A j \in 1..k : argv[j] = most[j]
       /\ \A i \in 1..m : argv[k + i] = after[i]
  <2>1. k = Len(most) /\ m = Len(after) /\ most \in Seq(Ops) /\ after \in Seq(Ops)
    BY <1>4, <1>5, <1>8, <1>10
  <2> QED
    BY <2>1, Joined
<1> HIDE DEF argv
<1>12. \A j \in 1..o : argv[j] \in Early(p)
  <2>1. \A j \in 1..o : j \in 1..k
    BY <1>10
  <2> QED
    BY <1>8, <1>9, <1>11, <2>1
<1>13. n = Len(p.binds) /\ \A i \in 1..n : argv[o + i] = BindFlag(p.binds[i])
  <2>1. \A i \in 1..n : o + i \in 1..k
    BY <1>10
  <2>2. n = Len(p.binds)
    BY <1>2, <1>7
  <2> QED
    BY <1>2, <1>8, <1>11, <2>1, <2>2
<1>14. \A i \in 1..m : Late(argv[o + n + i], i, m, p, proxied)
  BY <1>4, <1>10, <1>11
<1>15. Len(argv) = o + n + m
  BY <1>10, <1>11
<1>16. Arranged(argv, o, p, proxied)
  BY <1>11, <1>12, <1>13, <1>14, <1>15 DEF Arranged
<1> QED
  BY <1>6, <1>16 DEF argv

LEMMA ArrangedSize ==
    ASSUME NEW p \in Policies, NEW argv, NEW o, NEW proxied, Arranged(argv, o, p, proxied)
    PROVE  o \in Nat /\ Len(p.binds) \in Nat /\ Len(argv) \in Nat /\ o + Len(p.binds) < Len(argv)
<1>1. PICK B \in Nat : B = Len(p.binds)
  BY BindType
<1>2. PICK m \in {2, 3} : Len(argv) = o + B + m
  BY <1>1 DEF Arranged
<1>3. o \in Nat
  BY DEF Arranged
<1> QED
  BY <1>1, <1>2, <1>3

-----------------------------------------------------------------------------
(***************************************************************************)
(* The sandbox: its mounts are those of the operations so far, in their    *)
(* order, but for those whose optional source is missing. f[k] is the      *)
(* operation of the k-th mount, 0 for the root.                            *)
(***************************************************************************)
Boxes == [ok : BOOLEAN, made : SUBSET Paths, mounts : Seq([kind : Kinds, at : Paths, to : Paths])]

Mounting(o) == o.kind \notin {"dir", "chdir"} /\ (o.kind \in Modes => o.at \in Host)
MountOf(o) == [kind |-> o.kind, at |-> o.at, to |-> o.to]

\* A place with nothing mounted over it since has been made.
Kept(box) ==
    \A k \in 2..Len(box.mounts) :
      (\A l \in 1..Len(box.mounts) : Under(box.mounts[k].at, box.mounts[l].at) => l <= k)
      => box.mounts[k].at \in box.made

Made(box, argv, n, f) ==
    /\ box \in Boxes /\ box.ok
    /\ Len(box.mounts) \in Nat \ {0}
    /\ f \in [1..Len(box.mounts) -> 0..n] /\ f[1] = 0
    /\ box.mounts[1] = [kind |-> "tmpfs", at |-> <<>>, to |-> <<>>]
    /\ \A k \in 2..Len(box.mounts) :
         /\ f[k] \in 1..n /\ Mounting(argv[f[k]])
         /\ box.mounts[k] = MountOf(argv[f[k]])
    /\ \A k, l \in 1..Len(box.mounts) : k < l => f[k] < f[l]
    /\ \A j \in 1..n : Mounting(argv[j]) => \E k \in 2..Len(box.mounts) : f[k] = j
    /\ \A j \in 1..n : argv[j].kind \in Modes /\ argv[j].at \notin Host => argv[j].try
    /\ Kept(box)

LEMMA Rooted ==
    ASSUME NEW Vals, NEW p \in Seq(Vals)
    PROVE  Under(p, <<>>)
<1>1. Len(<<>>) = 0 /\ SubSeq(<<>>, 1, 0) = <<>> /\ SubSeq(p, 1, 0) = <<>>
  BY SubSeqEmpty, EmptySeq
<1>2. Len(p) \in Nat
  BY LenProperties
<1> QED
  BY <1>1, <1>2 DEF Under, IsPrefix

LEMMA Itself ==
    ASSUME NEW p \in Paths
    PROVE  Under(p, p)
<1>1. p \in Seq(ToSet(p))
  BY PathsAssumption
<1>2. Len(p) \in Nat
  BY <1>1, LenProperties
<1> QED
  BY <1>2 DEF Under, IsPrefix

LEMMA RootMade ==
    ASSUME NEW argv
    PROVE  Made(NewRoot, argv, 0, [k \in {1} |-> 0])
<1> DEFINE root == [kind |-> "tmpfs", at |-> <<>>, to |-> <<>>]
<1>1. root \in [kind : Kinds, at : Paths, to : Paths]
  BY PathsAssumption DEF Kinds
<1>2. <<root>> \in Seq([kind : Kinds, at : Paths, to : Paths]) /\ Len(<<root>>) = 1 /\ <<root>>[1] = root
  BY <1>1, OneVal
<1>3. NewRoot \in Boxes /\ NewRoot.ok /\ NewRoot.mounts = <<root>>
  BY <1>2 DEF NewRoot, Boxes
<1> HIDE DEF root
<1>4. 1..1 = {1} /\ 2..1 = {} /\ 1..0 = {}
  OBVIOUS
<1>5. Made(NewRoot, argv, 0, [k \in {1} |-> 0])
  BY <1>2, <1>3, <1>4 DEF Made, Kept, root
<1> QED
  BY <1>5

\* One more operation that does not fail.
LEMMA MoreMade ==
    ASSUME NEW argv \in Seq(Ops), NEW n \in Nat, n < Len(argv), NEW f, NEW box, Made(box, argv, n, f),
           After(box, argv[n + 1]).ok
    PROVE  \E g : Made(After(box, argv[n + 1]), argv, n + 1, g)
<1> DEFINE o == argv[n + 1]
           new == After(box, o)
           N == Len(box.mounts)
<1>1. o \in Ops
  <2>1. n + 1 \in 1..Len(argv)
    BY LenProperties
  <2> QED
    BY <2>1, ElementOfSeq
<1>2. /\ box \in Boxes /\ box.ok /\ N \in Nat \ {0}
      /\ f \in [1..N -> 0..n] /\ f[1] = 0
      /\ box.mounts[1] = [kind |-> "tmpfs", at |-> <<>>, to |-> <<>>]
      /\ \A k \in 2..N : f[k] \in 1..n /\ Mounting(argv[f[k]]) /\ box.mounts[k] = MountOf(argv[f[k]])
      /\ \A k, l \in 1..N : k < l => f[k] < f[l]
      /\ \A j \in 1..n : Mounting(argv[j]) => \E k \in 2..N : f[k] = j
      /\ \A j \in 1..n : argv[j].kind \in Modes /\ argv[j].at \notin Host => argv[j].try
      /\ Kept(box)
  BY DEF Made
<1>3. \A j \in 1..n + 1 : j \in 1..n \/ j = n + 1
  OBVIOUS
<1> HIDE DEF new, o
<1>4. ASSUME new \in Boxes, new.ok, new.mounts = box.mounts, box.made \subseteq new.made, ~Mounting(o),
             o.kind \in Modes /\ o.at \notin Host => o.try
      PROVE  Made(new, argv, n + 1, f)
  <2>1. f \in [1..N -> 0..n + 1]
    BY <1>2
  <2>2. \A k \in 2..N : f[k] \in 1..n + 1
    BY <1>2
  <2>3. \A j \in 1..n + 1 : Mounting(argv[j]) => \E k \in 2..N : f[k] = j
    BY <1>2, <1>3, <1>4 DEF o
  <2>4. \A j \in 1..n + 1 : argv[j].kind \in Modes /\ argv[j].at \notin Host => argv[j].try
    BY <1>2, <1>3, <1>4 DEF o
  <2>5. Kept(new)
    BY <1>2, <1>4 DEF Kept
  <2> QED
    BY <1>2, <1>4, <2>1, <2>2, <2>3, <2>4, <2>5 DEF Made
<1>5. ASSUME new \in Boxes, new.ok, new.mounts = Append(box.mounts, MountOf(o)), Mounting(o),
             new.made = {p \in box.made : ~Under(p, o.at)} \cup Parents(o.at)
      PROVE  \E g : Made(new, argv, n + 1, g)
  <2> DEFINE g == [k \in 1..N + 1 |-> IF k = N + 1 THEN n + 1 ELSE f[k]]
  <2>1. MountOf(o) \in [kind : Kinds, at : Paths, to : Paths]
    BY <1>1 DEF MountOf, Ops
  <2>2. /\ Len(new.mounts) = N + 1 /\ \A k \in 1..N : new.mounts[k] = box.mounts[k]
        /\ new.mounts[N + 1] = MountOf(o)
    <3>1. box.mounts \in Seq([kind : Kinds, at : Paths, to : Paths])
      BY <1>2 DEF Boxes
    <3> QED
      BY <1>5, <2>1, <3>1, AppendProperties
  <2>3. /\ \A k \in 1..N + 1 : k \in 1..N \/ k = N + 1
        /\ \A k \in 2..N + 1 : k \in 2..N \/ k = N + 1
        /\ \A k \in 1..N : k \in 1..N + 1 /\ k # N + 1
        /\ \A k \in 2..N : k \in 1..N
        /\ 1 \in 1..N /\ N + 1 \in 1..N + 1 /\ N + 1 \in 2..N + 1
    BY <1>2
  <2>4. g[N + 1] = n + 1 /\ \A k \in 1..N : g[k] = f[k]
    BY <2>3
  <2>5. g \in [1..N + 1 -> 0..n + 1]
    <3>1. \A k \in 1..N : f[k] \in 0..n + 1
      BY <1>2
    <3> QED
      BY <2>3, <3>1
  <2> HIDE DEF g, N
  <2>6. ASSUME NEW k \in 2..N + 1
        PROVE  g[k] \in 1..n + 1 /\ Mounting(argv[g[k]]) /\ new.mounts[k] = MountOf(argv[g[k]])
    <3>1. CASE k = N + 1
      BY <1>5, <2>2, <2>4, <3>1 DEF o
    <3>2. CASE k \in 2..N
      BY <1>2, <2>2, <2>3, <2>4, <3>2
    <3> QED
      BY <2>3, <3>1, <3>2
  <2>7. ASSUME NEW k \in 1..N + 1, NEW l \in 1..N + 1, k < l PROVE g[k] < g[l]
    <3>1. k \in 1..N
      BY <1>2, <2>7
    <3>2. CASE l = N + 1
      BY <1>2, <2>4, <3>1, <3>2
    <3>3. CASE l \in 1..N
      BY <1>2, <2>4, <2>7, <3>1, <3>3
    <3> QED
      BY <2>3, <3>2, <3>3
  <2>8. ASSUME NEW j \in 1..n + 1, Mounting(argv[j]) PROVE \E k \in 2..N + 1 : g[k] = j
    <3>1. CASE j = n + 1
      BY <2>3, <2>4, <3>1
    <3>2. CASE j \in 1..n
      <4>1. PICK k \in 2..N : f[k] = j
        BY <1>2, <2>8, <3>2
      <4>2. k \in 2..N + 1 /\ g[k] = j
        BY <1>2, <2>3, <2>4, <4>1
      <4> QED
        BY <4>2
    <3> QED
      BY <1>3, <3>1, <3>2
  <2>9. \A j \in 1..n + 1 : argv[j].kind \in Modes /\ argv[j].at \notin Host => argv[j].try
    BY <1>2, <1>3, <1>5 DEF Mounting, o, Modes
  <2>10. g[1] = 0 /\ new.mounts[1] = [kind |-> "tmpfs", at |-> <<>>, to |-> <<>>]
    BY <1>2, <2>2, <2>3, <2>4
  <2>11. N + 1 \in Nat \ {0}
    BY <1>2
  <2>12. ASSUME NEW k \in 2..N + 1,
                \A l \in 1..N + 1 : Under(new.mounts[k].at, new.mounts[l].at) => l <= k
         PROVE  new.mounts[k].at \in new.made
    <3>1. CASE k = N + 1
      <4>1. new.mounts[k].at = o.at /\ o.at \in Paths
        BY <1>1, <2>2, <3>1 DEF MountOf, Ops
      <4>2. o.at \in Parents(o.at)
        BY <4>1, Itself DEF Parents
      <4> QED
        BY <1>5, <4>1, <4>2
    <3>2. CASE k \in 2..N
      <4>1. new.mounts[k] = box.mounts[k] /\ new.mounts[N + 1].at = o.at
        BY <2>2, <2>3, <3>2 DEF MountOf
      <4>2. ~Under(box.mounts[k].at, o.at)
        <5>1. ~(N + 1 <= k)
          BY <1>2, <3>2
        <5> QED
          BY <2>3, <2>12, <4>1, <5>1
      <4>3. \A l \in 1..N : Under(box.mounts[k].at, box.mounts[l].at) => l <= k
        BY <2>2, <2>3, <2>12, <4>1
      <4>4. box.mounts[k].at \in box.made
        BY <1>2, <3>2, <4>3 DEF Kept, N
      <4> QED
        BY <1>5, <4>1, <4>2, <4>4
    <3> QED
      BY <2>3, <3>1, <3>2
  <2>13. Kept(new)
    BY <2>2, <2>12 DEF Kept
  <2>14. Made(new, argv, n + 1, g)
    BY <1>5, <2>2, <2>5, <2>6, <2>7, <2>8, <2>9, <2>10, <2>11, <2>13 DEF Made
  <2> QED
    BY <2>14
<1>6. new =
        CASE o.kind = "chdir" -> [box EXCEPT !.ok = IsDir(box, o.at)]
          [] o.kind \in Modes /\ o.at \notin Host -> [box EXCEPT !.ok = o.try]
          [] OTHER ->
               IF ~(Present(box, o.at) \/ Kind(box, o.at) \in {"rw", "tmpfs", "dev"})
                 THEN [box EXCEPT !.ok = FALSE]
               ELSE IF o.kind = "dir" THEN [box EXCEPT !.made = box.made \cup Parents(o.at)]
               ELSE [box EXCEPT !.made = {p \in box.made : ~Under(p, o.at)} \cup Parents(o.at),
                                !.mounts = Append(box.mounts, MountOf(o))]
  BY <1>2 DEF After, new, MountOf
<1>7. /\ box.ok \in BOOLEAN /\ box.made \subseteq Paths /\ box.mounts \in Seq([kind : Kinds, at : Paths, to : Paths])
      /\ Parents(o.at) \subseteq Paths
  BY <1>2 DEF Boxes, Parents
<1>8. CASE o.kind = "chdir"
  <2>1. new = [box EXCEPT !.ok = IsDir(box, o.at)]
    BY <1>6, <1>8 DEF Modes
  <2>2. new.ok
    BY DEF new, o
  <2>3. new \in Boxes /\ new.mounts = box.mounts /\ box.made \subseteq new.made
    BY <1>2, <2>1 DEF Boxes, IsDir, CanRead
  <2>4. ~Mounting(o) /\ o.kind \notin Modes
    BY <1>8 DEF Mounting, Modes
  <2> QED
    BY <1>4, <2>2, <2>3, <2>4 DEF new, o
<1>9. CASE o.kind \in Modes /\ o.at \notin Host
  <2>1. new = [box EXCEPT !.ok = o.try] /\ o.try \in BOOLEAN
    BY <1>1, <1>6, <1>9 DEF Modes, Ops
  <2>2. new.ok
    BY DEF new, o
  <2>3. new \in Boxes /\ new.mounts = box.mounts /\ box.made \subseteq new.made /\ new.ok = o.try
    BY <1>2, <2>1 DEF Boxes
  <2>4. ~Mounting(o)
    BY <1>9 DEF Mounting
  <2> QED
    BY <1>4, <2>2, <2>3, <2>4 DEF new, o
<1>10. CASE o.kind # "chdir" /\ ~(o.kind \in Modes /\ o.at \notin Host)
  <2>1. new.ok
    BY DEF new, o
  <2>2. Present(box, o.at) \/ Kind(box, o.at) \in {"rw", "tmpfs", "dev"}
    <3> SUFFICES ASSUME ~(Present(box, o.at) \/ Kind(box, o.at) \in {"rw", "tmpfs", "dev"}) PROVE FALSE
      OBVIOUS
    <3>1. new = [box EXCEPT !.ok = FALSE]
      BY <1>6, <1>10
    <3> QED
      BY <1>2, <2>1, <3>1 DEF Boxes
  <2>3. CASE o.kind = "dir"
    <3>1. new = [box EXCEPT !.made = box.made \cup Parents(o.at)]
      BY <1>6, <1>10, <2>2, <2>3
    <3>2. new \in Boxes /\ new.mounts = box.mounts /\ box.made \subseteq new.made
      BY <1>2, <1>7, <3>1 DEF Boxes
    <3>3. ~Mounting(o) /\ o.kind \notin Modes
      BY <2>3 DEF Mounting, Modes
    <3> QED
      BY <1>4, <2>1, <3>2, <3>3 DEF new, o
  <2>4. CASE o.kind # "dir"
    <3>1. new = [box EXCEPT !.made = {p \in box.made : ~Under(p, o.at)} \cup Parents(o.at),
                            !.mounts = Append(box.mounts, MountOf(o))]
      BY <1>6, <1>10, <2>2, <2>4
    <3>2. Append(box.mounts, MountOf(o)) \in Seq([kind : Kinds, at : Paths, to : Paths])
      <4>1. MountOf(o) \in [kind : Kinds, at : Paths, to : Paths]
        BY <1>1 DEF MountOf, Ops
      <4> QED
        BY <1>7, <4>1, AppendProperties
    <3>3. /\ new \in Boxes /\ new.mounts = Append(box.mounts, MountOf(o))
          /\ new.made = {p \in box.made : ~Under(p, o.at)} \cup Parents(o.at)
      BY <1>2, <1>7, <3>1, <3>2 DEF Boxes
    <3>4. Mounting(o)
      BY <1>10, <2>4 DEF Mounting
    <3> QED
      BY <1>5, <2>1, <3>3, <3>4 DEF new, o
  <2> QED
    BY <2>3, <2>4
<1> QED
  BY <1>8, <1>9, <1>10

-----------------------------------------------------------------------------
(* The inductive invariant: bwrap is somewhere in the argv of the policy,   *)
(* and the sandbox is what it has mounted so far.                           *)

Arguments == Argv(policy, request.proxied)

Midway(n, f) ==
    /\ n \in 0..Len(Arguments)
    /\ todo = SubSeq(Arguments, n + 1, Len(Arguments))
    /\ Made(sandbox, Arguments, n, f)
    /\ IF stage = "mount" THEN n < Len(Arguments) ELSE n = Len(Arguments)

\* The operation after the first n is one that cannot be carried out.
Failing(n, f, box) ==
    /\ n \in Nat /\ n < Len(Arguments) /\ Made(box, Arguments, n, f) /\ ~After(box, Arguments[n + 1]).ok
    /\ (n + 1 = Len(Arguments) => todo = <<>>)

MountsInv ==
    /\ request \in Requests /\ audited \in BOOLEAN
    /\ policy = Resolved(request)
    /\ stage = "resolve" => sandbox = NewRoot
    /\ stage \in {"mount", "running"} /\ ~audited => \E n, f : Midway(n, f)
    /\ stage = "failed" /\ ~audited => \E n, f, box : Failing(n, f, box)
    /\ accesses \in Seq(Accesses)
    /\ stage = "reported" => report.denied = Denied(accesses, policy)

LEMMA ArgumentsType ==
    ASSUME MountsInv
    PROVE  /\ policy \in Policies /\ request.proxied \in BOOLEAN
           /\ Arguments \in Seq(Ops) /\ Len(Arguments) \in Nat \ {0}
           /\ \E o : Arranged(Arguments, o, policy, request.proxied)
<1>1. policy \in Policies /\ request.proxied \in BOOLEAN
  BY ResolvedType, RequestTyped DEF MountsInv, Typed
<1>2. PICK o : Arranged(Arguments, o, policy, request.proxied)
  BY <1>1, ArgvArranged DEF Arguments
<1>3. Arguments \in Seq(Ops) /\ o \in Nat /\ o + Len(policy.binds) < Len(Arguments)
  BY <1>2 DEF Arranged
<1>4. Len(Arguments) \in Nat /\ Len(policy.binds) \in Nat
  BY <1>1, <1>3, LenProperties, BindType
<1> QED
  BY <1>1, <1>2, <1>3, <1>4

LEMMA MountsInit == Init => MountsInv
<1> SUFFICES ASSUME Init PROVE MountsInv
  OBVIOUS
<1>1. <<>> \in Seq(Accesses)
  BY EmptySeq
<1> QED
  BY <1>1 DEF Init, MountsInv

LEMMA ResolveKeeps ==
    ASSUME MountsInv, Resolve
    PROVE  MountsInv'
<1>1. /\ UNCHANGED <<request, audited, policy, sandbox, accesses, report>>
      /\ stage = "resolve" /\ stage' \in {"mount", "conflict"} /\ sandbox = NewRoot
  BY DEF Resolve, MountsInv
<1>2. Arguments' = Arguments
  BY <1>1 DEF Arguments
<1>3. ASSUME stage' = "mount", ~audited PROVE \E n, f : Midway(n, f)'
  <2>1. todo' = Arguments
    <3>1. todo' = Argv(Resolved(request), audited \/ request.proxied)
      <4>1. PICK r, run : /\ r = (IF audited THEN Traced(Widen(request)) ELSE request) /\ run = Resolved(r)
                         /\ \/ stage' = "mount" /\ todo' = Argv(run, audited \/ r.proxied)
                            \/ stage' = "conflict" /\ UNCHANGED todo
        BY DEF Resolve
      <4>2. r = request
        BY <1>3, <4>1
      <4> QED
        BY <1>3, <4>1, <4>2
    <3>2. (audited \/ request.proxied) = request.proxied
      BY <1>3, ArgumentsType
    <3> QED
      BY <3>1, <3>2 DEF MountsInv, Arguments
  <2>2. Arguments \in Seq(Ops) /\ Len(Arguments) \in Nat \ {0}
    BY ArgumentsType
  <2>3. SubSeq(Arguments, 0 + 1, Len(Arguments)) = Arguments
    BY <2>2
  <2>4. Made(NewRoot, Arguments, 0, [k \in {1} |-> 0])
    BY RootMade
  <2>5. Midway(0, [k \in {1} |-> 0])'
    BY <1>1, <1>2, <1>3, <2>1, <2>2, <2>3, <2>4 DEF Midway
  <2> QED
    BY <2>5
<1> QED
  BY <1>1, <1>3 DEF MountsInv

LEMMA MountKeeps ==
    ASSUME MountsInv, Mount
    PROVE  MountsInv'
<1>1. /\ UNCHANGED <<request, audited, policy, accesses, report>>
      /\ stage = "mount" /\ sandbox' = After(sandbox, Head(todo)) /\ todo' = Tail(todo)
      /\ stage' = IF ~sandbox'.ok THEN "failed" ELSE IF todo' = <<>> THEN "running" ELSE "mount"
  BY DEF Mount
<1>2. Arguments' = Arguments
  BY <1>1 DEF Arguments
<1>3. ASSUME ~audited
      PROVE  IF sandbox'.ok THEN \E n, f : Midway(n, f)' ELSE \E n, f, box : Failing(n, f, box)'
  <2>1. PICK n, f : Midway(n, f)
    BY <1>1, <1>3 DEF MountsInv
  <2> DEFINE N == Len(Arguments)
  <2>2. /\ n \in Nat /\ N \in Nat /\ n < N /\ Arguments \in Seq(Ops)
        /\ todo = SubSeq(Arguments, n + 1, N) /\ Made(sandbox, Arguments, n, f)
    BY <1>1, <2>1, ArgumentsType DEF Midway
  <2> HIDE DEF N
  <2>3. /\ Head(todo) = Arguments[n + 1]
        /\ Tail(todo) = SubSeq(Arguments, n + 1 + 1, N)
        /\ Tail(todo) = <<>> <=> n + 1 = N
    <3>1. Head(todo) = Arguments[n + 1] /\ Tail(todo) = SubSeq(Arguments, n + 1 + 1, N)
      <4>1. n + 1 \in 1..Len(Arguments) /\ N \in n + 1..Len(Arguments)
        BY <2>2 DEF N
      <4> QED
        BY <2>2, <4>1, HeadTailOfSubSeq
    <3>2. Len(Tail(todo)) = IF n + 1 + 1 <= N THEN N - (n + 1 + 1) + 1 ELSE 0
      <4>1. \A i \in n + 1 + 1..N : Arguments[i] \in Ops
        BY <2>2, ElementOfSeq DEF N
      <4>2. n + 1 + 1 \in Int /\ N \in Int
        BY <2>2
      <4> QED
        BY <3>1, <4>1, <4>2, SubSeqProperties
    <3>3. Tail(todo) = <<>> => Len(Tail(todo)) = 0
      BY EmptySeq
    <3>4. n + 1 = N => Tail(todo) = <<>>
      BY <2>2, <3>1, SubSeqEmpty
    <3>5. ASSUME n + 1 # N PROVE Len(Tail(todo)) # 0
      <4>1. n + 1 + 1 <= N
        BY <2>2, <3>5
      <4>2. N - (n + 1 + 1) + 1 # 0
        BY <2>2, <4>1
      <4> QED
        BY <3>2, <4>1, <4>2
    <3> QED
      BY <3>1, <3>3, <3>4, <3>5
  <2>4. CASE sandbox'.ok
    <3>1. PICK g : Made(After(sandbox, Arguments[n + 1]), Arguments, n + 1, g)
      BY <1>1, <2>2, <2>3, <2>4, MoreMade DEF N
    <3>2. Midway(n + 1, g)'
      <4>1. n + 1 \in 0..N
        BY <2>2
      <4>2. todo' = SubSeq(Arguments, n + 1 + 1, N)
        BY <1>1, <2>3
      <4>3. Made(sandbox', Arguments, n + 1, g)
        BY <1>1, <2>3, <3>1
      <4>4. IF stage' = "mount" THEN n + 1 < N ELSE n + 1 = N
        <5>1. stage' = IF n + 1 = N THEN "running" ELSE "mount"
          BY <1>1, <2>3, <2>4
        <5> QED
          BY <2>2, <5>1
      <4> QED
        BY <1>2, <4>1, <4>2, <4>3, <4>4 DEF Midway, N
    <3> QED
      BY <2>4, <3>2
  <2>5. CASE ~sandbox'.ok
    <3>1. \E b : b = sandbox /\ n \in Nat /\ n < N /\ Made(b, Arguments, n, f) /\ ~After(b, Arguments[n + 1]).ok
            /\ (n + 1 = N => todo' = <<>>)
      BY <1>1, <2>2, <2>3, <2>5
    <3>2. \E b, g, m : Failing(m, g, b)'
      BY <1>2, <3>1 DEF Failing, N
    <3> QED
      BY <2>5, <3>2
  <2> QED
    BY <2>4, <2>5
<1>4. stage' \in {"mount", "running", "failed"} /\ (stage' \in {"mount", "running"} <=> sandbox'.ok)
  BY <1>1
<1> QED
  BY <1>1, <1>3, <1>4 DEF MountsInv

LEMMA RestKeeps ==
    ASSUME MountsInv, UNCHANGED <<request, audited, policy, todo, sandbox>>,
           stage' = stage \/ (audited /\ stage' = "reported"),
           accesses' \in Seq(Accesses), stage' = "reported" => report'.denied = Denied(accesses', policy)
    PROVE  MountsInv'
<1>1. \A n, f : stage' = stage /\ Midway(n, f) => Midway(n, f)'
  BY DEF Midway, Arguments
<1>2. \A n, f, box : Failing(n, f, box) => Failing(n, f, box)'
  BY DEF Failing, Arguments
<1> QED
  BY <1>1, <1>2 DEF MountsInv

\* The mounts of an unaudited run are always those of its policy, in order.
THEOREM MountsInvariant == Spec => []MountsInv
<1>1. MountsInv /\ [Next]_vars => MountsInv'
  <2> SUFFICES ASSUME MountsInv, [Next]_vars PROVE MountsInv'
    OBVIOUS
  <2>1. CASE Resolve
    BY <2>1, ResolveKeeps
  <2>2. CASE Mount
    BY <2>2, MountKeeps
  <2>3. ASSUME NEW a \in Accesses, Touch(a) PROVE MountsInv'
    <3>1. Append(accesses, a) \in Seq(Accesses)
      BY AppendProperties DEF MountsInv
    <3> QED
      BY <2>3, <3>1, RestKeeps DEF Touch
  <2>4. CASE Report
    <3>1. report'.denied = Denied(accesses, policy)
      BY <2>4 DEF Report
    <3> QED
      BY <2>4, <3>1, RestKeeps DEF Report, MountsInv
  <2>5. CASE UNCHANGED vars
    BY <2>5, RestKeeps DEF vars, MountsInv
  <2> QED
    BY <2>1, <2>2, <2>3, <2>4, <2>5 DEF Next
<1> QED
  BY <1>1, MountsInit, PTL DEF Spec

-----------------------------------------------------------------------------
(* What a path shows in the end.                                           *)

\* The mount that a path shows is the last one at or above it.
LEMMA TopIs ==
    ASSUME NEW box, NEW argv, NEW n, NEW f, Made(box, argv, n, f), NEW Vals, NEW p \in Seq(Vals)
    PROVE  \E k \in 1..Len(box.mounts) :
             /\ Top(box, p) = box.mounts[k] /\ Under(p, box.mounts[k].at)
             /\ \A l \in 1..Len(box.mounts) : Under(p, box.mounts[l].at) => l <= k
<1> DEFINE over == {i \in DOMAIN box.mounts : Under(p, box.mounts[i].at)}
<1>1. DOMAIN box.mounts = 1..Len(box.mounts) /\ Len(box.mounts) \in Nat \ {0}
  <2>1. box.mounts \in Seq([kind : Kinds, at : Paths, to : Paths])
    BY DEF Made, Boxes
  <2> QED
    BY <2>1, LenProperties DEF Made
<1>2. 1 \in over
  <2>1. box.mounts[1].at = <<>>
    BY DEF Made
  <2> QED
    BY <1>1, <2>1, Rooted
<1>3. over \in SUBSET (1..Len(box.mounts)) /\ over # {}
  BY <1>1, <1>2
<1>4. Max(over) \in over /\ \A y \in over : y <= Max(over)
  BY <1>1, <1>3, GreatestExists
<1>5. Top(box, p) = box.mounts[Max(over)]
  BY DEF Top
<1> QED
  BY <1>1, <1>4, <1>5

\* The first n operations of argv include all binds.
Past(n, argv, o, p) == n \in Nat /\ o + Len(p.binds) <= n /\ n <= Len(argv)

\* Once the binds are mounted, it is that of the last bind at or above it, if there
\* is one and the socket of the proxy does not hide it; otherwise one made before
\* the binds.
Shows(box, p, pol, proxied) ==
    /\ Under(p, Top(box, p).at)
    /\ \/ Above(pol.binds, p) = {} /\ Top(box, p).kind = "tmpfs"
       \/ Above(pol.binds, p) = {} /\ \E e \in Early(pol) : Top(box, p) = MountOf(e)
       \/ Above(pol.binds, p) # {} /\ Top(box, p).kind = pol.binds[Max(Above(pol.binds, p))].mode
       \/ proxied /\ Under(p, ProxySocket) /\ Top(box, p).kind = "file"

LEMMA Shown ==
    ASSUME NEW pol \in Policies, NEW proxied, NEW argv, NEW o, Arranged(argv, o, pol, proxied),
           NEW n, Past(n, argv, o, pol), NEW box, NEW f, Made(box, argv, n, f), NEW Vals, NEW p \in Seq(Vals)
    PROVE  Shows(box, p, pol, proxied)
<1> DEFINE B == Len(pol.binds)
           top == Top(box, p)
           M == Len(box.mounts)
           over == Above(pol.binds, p)
<1> SUFFICES /\ Under(p, Top(box, p).at)
             /\ \/ over = {} /\ Top(box, p).kind = "tmpfs"
                \/ over = {} /\ \E e \in Early(pol) : Top(box, p) = MountOf(e)
                \/ over # {} /\ Top(box, p).kind = pol.binds[Max(over)].mode
                \/ proxied /\ Under(p, ProxySocket) /\ Top(box, p).kind = "file"
  BY DEF Shows
<1>1. /\ argv \in Seq(Ops) /\ o \in Nat /\ B \in Nat
      /\ \A j \in 1..o : argv[j] \in Early(pol)
      /\ \A i \in 1..B : argv[o + i] = BindFlag(pol.binds[i])
      /\ DOMAIN pol.binds = 1..B /\ \A i \in 1..B : pol.binds[i] \in Binds
  BY BindType DEF Arranged
<1>2. PICK m \in {2, 3} : Len(argv) = o + B + m /\ \A h \in 1..m : Late(argv[o + B + h], h, m, pol, proxied)
  BY DEF Arranged
<1>3. PICK k \in 1..M : /\ top = box.mounts[k] /\ Under(p, box.mounts[k].at)
                        /\ \A l \in 1..M : Under(p, box.mounts[l].at) => l <= k
  BY TopIs
<1>4. /\ M \in Nat /\ f \in [1..M -> 0..n] /\ f[1] = 0
      /\ box.mounts[1].kind = "tmpfs"
      /\ \A h \in 2..M : f[h] \in 1..n /\ Mounting(argv[f[h]]) /\ box.mounts[h] = MountOf(argv[f[h]])
      /\ \A h, l \in 1..M : h < l => f[h] < f[l]
      /\ \A j \in 1..n : Mounting(argv[j]) => \E h \in 2..M : f[h] = j
  BY DEF Made
<1>5. n \in Nat /\ n >= o + B /\ n <= o + B + m
  BY <1>1, <1>2 DEF Past
<1> HIDE DEF B, top, M
<1>6. over \in SUBSET (1..B)
  BY <1>1 DEF Above
<1>7. ASSUME NEW i \in over PROVE i \in 1..B /\ k \in 2..M /\ o + i <= f[k]
  <2>1. i \in 1..B /\ Under(p, pol.binds[i].source) /\ pol.binds[i].source \in Host
    BY <1>1, <1>7 DEF Above
  <2>2. argv[o + i] = BindFlag(pol.binds[i]) /\ pol.binds[i] \in Binds
    BY <1>1, <2>1
  <2>3. Mounting(argv[o + i]) /\ MountOf(argv[o + i]).at = pol.binds[i].source
    BY <2>1, <2>2 DEF Mounting, MountOf, BindFlag, Op, Binds, Modes
  <2>4. o + i \in 1..n
    BY <1>1, <1>5, <2>1
  <2>5. PICK h \in 2..M : f[h] = o + i
    BY <1>4, <2>3, <2>4
  <2>6. h \in 1..M /\ Under(p, box.mounts[h].at)
    BY <1>4, <2>1, <2>3, <2>5
  <2>7. h <= k /\ h >= 2
    BY <1>3, <2>5, <2>6
  <2>8. k \in 2..M
    BY <1>4, <2>7
  <2>9. h = k \/ f[h] < f[k]
    BY <1>4, <2>6, <2>7
  <2>10. f[k] \in 0..n
    BY <1>4
  <2> QED
    BY <1>1, <2>1, <2>4, <2>5, <2>8, <2>9, <2>10
<1>8. CASE k = 1
  <2>1. over = {}
    <3>1. \A i \in over : k \in 2..M
      BY <1>7
    <3> QED
      BY <1>8, <3>1
  <2> QED
    BY <1>3, <1>4, <1>8, <2>1 DEF top
<1>9. CASE k \in 2..M
  <2>1. PICK j \in 1..n : j = f[k] /\ Mounting(argv[j]) /\ top = MountOf(argv[j])
    BY <1>3, <1>4, <1>9
  <2>2. \A i \in over : i \in 1..B /\ o + i <= j
    BY <1>7, <2>1
  <2>3. CASE j \in 1..o
    <3>1. over = {}
      <4>1. \A i \in 1..B : ~(o + i <= j)
        BY <1>1, <2>3
      <4> QED
        BY <2>2, <4>1
    <3>2. argv[j] \in Early(pol)
      BY <1>1, <2>3
    <3> QED
      BY <1>3, <2>1, <3>1, <3>2 DEF top
  <2>4. CASE j \in o + 1..o + B
    <3>1. PICK i \in 1..B : j = o + i
      <4>1. j - o \in 1..B /\ j = o + (j - o)
        BY <1>1, <2>4
      <4> QED
        BY <4>1
    <3>2. argv[j] = BindFlag(pol.binds[i]) /\ pol.binds[i] \in Binds
      BY <1>1, <3>1
    <3>3. top.at = pol.binds[i].source /\ top.kind = pol.binds[i].mode /\ pol.binds[i].source \in Host
      BY <2>1, <3>2 DEF MountOf, Mounting, BindFlag, Op, Binds, Modes
    <3>4. i \in over
      BY <1>1, <1>3, <3>3 DEF Above
    <3>5. \A y \in over : y <= i
      BY <1>1, <2>2, <3>1
    <3>6. Max(over) = i
      <4>1. over \in SUBSET Nat
        BY <1>1, <1>6
      <4> HIDE DEF over
      <4> QED
        BY <3>4, <3>5, <4>1, MaxIs
    <3> QED
      BY <1>3, <3>3, <3>4, <3>6 DEF top
  <2>5. CASE j \in o + B + 1..o + B + m
    <3>1. PICK h \in 1..m : j = o + B + h
      <4>1. PICK c \in Nat : c = o + B
        BY <1>1
      <4>2. j - c \in 1..m /\ j = c + (j - c)
        BY <2>5, <4>1
      <4> QED
        BY <4>1, <4>2
    <3>2. argv[j].kind = "file" /\ argv[j].at = ProxySocket /\ proxied
      BY <1>2, <2>1, <3>1 DEF Late, Mounting
    <3>3. top.kind = "file" /\ top.at = ProxySocket
      BY <2>1, <3>2 DEF MountOf
    <3> QED
      BY <1>3, <3>2, <3>3 DEF top
  <2> QED
    BY <1>1, <1>5, <2>1, <2>3, <2>4, <2>5
<1> QED
  BY <1>3, <1>4, <1>8, <1>9

\* In particular in the sandbox of a started command.
LEMMA ShownRunning ==
    ASSUME MountsInv, Running, NEW Vals, NEW p \in Seq(Vals)
    PROVE  /\ Under(p, Top(sandbox, p).at)
           /\ \/ Over(p) = {} /\ Top(sandbox, p).kind = "tmpfs"
              \/ Over(p) = {} /\ \E e \in Early(policy) : Top(sandbox, p) = MountOf(e)
              \/ Over(p) # {} /\ Top(sandbox, p).kind = policy.binds[Max(Over(p))].mode
              \/ Hidden(p) /\ Top(sandbox, p).kind = "file"
<1>1. PICK o : Arranged(Arguments, o, policy, request.proxied)
  BY ArgumentsType
<1>2. PICK n, f : Midway(n, f)
  BY DEF MountsInv, Running
<1>3. /\ n \in Nat /\ n = Len(Arguments) /\ Made(sandbox, Arguments, n, f)
      /\ policy \in Policies
  BY <1>2, ArgumentsType DEF Midway, Running
<1>4. o + Len(policy.binds) <= n
  <2>1. o \in Nat /\ Len(policy.binds) \in Nat
    BY <1>1, <1>3, BindType DEF Arranged
  <2>2. PICK m \in {2, 3} : Len(Arguments) = o + Len(policy.binds) + m
    BY <1>1 DEF Arranged
  <2> QED
    BY <1>3, <2>1, <2>2
<1>5. n <= Len(Arguments)
  BY <1>3
<1> DEFINE top == Top(sandbox, p)
           over == Above(policy.binds, p)
<1>6. /\ Under(p, top.at)
      /\ \/ over = {} /\ top.kind = "tmpfs"
         \/ over = {} /\ \E e \in Early(policy) : top = MountOf(e)
         \/ over # {} /\ top.kind = policy.binds[Max(over)].mode
         \/ request.proxied /\ Under(p, ProxySocket) /\ top.kind = "file"
  <2>1. policy \in Policies /\ n \in Nat /\ o + Len(policy.binds) <= n /\ n <= Len(Arguments)
    BY <1>3, <1>4, <1>5
  <2>2. Made(sandbox, Arguments, n, f)
    BY <1>3
  <2>3. Past(n, Arguments, o, policy)
    BY <2>1 DEF Past
  <2> QED
    <3>1. Shows(sandbox, p, policy, request.proxied)
      BY <1>1, <2>1, <2>2, <2>3, Shown
    <3> QED
      BY <3>1 DEF Shows
<1>7. over = Over(p) /\ (Hidden(p) <=> request.proxied /\ Under(p, ProxySocket))
  BY DEF Over, Hidden
<1> QED
  BY <1>6, <1>7

\* A bind whose source is missing was tried.
LEMMA Missing ==
    ASSUME MountsInv, Running, NEW i \in DOMAIN policy.binds, policy.binds[i].source \notin Host
    PROVE  policy.binds[i].optional
<1> DEFINE N == Len(Arguments)
           B == Len(policy.binds)
           argv == Arguments
<1>1. PICK o : Arranged(argv, o, policy, request.proxied)
  BY ArgumentsType
<1>2. /\ o \in Nat /\ B \in Nat /\ N \in Nat /\ o + B < N /\ i \in 1..B
      /\ argv[o + i] = BindFlag(policy.binds[i]) /\ policy.binds[i] \in Binds
  BY <1>1, ArgumentsType, BindType, ArrangedSize DEF Arranged
<1>3. \A j \in 1..N : argv[j].kind \in Modes /\ argv[j].at \notin Host => argv[j].try
  <2>1. PICK n, f : Midway(n, f)
    BY DEF MountsInv, Running
  <2>2. n = N /\ Made(sandbox, argv, n, f)
    BY <2>1 DEF Midway, Running
  <2> QED
    BY <2>2 DEF Made
<1> HIDE DEF N, B, argv
<1>4. o + i \in 1..N
  BY <1>2
<1>5. argv[o + i].kind \in Modes /\ argv[o + i].at = policy.binds[i].source /\ argv[o + i].try = policy.binds[i].optional
  BY <1>2 DEF BindFlag, Op, Binds
<1> QED
  BY <1>3, <1>4, <1>5

-----------------------------------------------------------------------------
(* What bwrap fails at.                                                    *)

LEMMA Longer ==
    ASSUME NEW p \in Paths, NEW q \in Paths, Under(p, q), p # q
    PROVE  Len(p) \in Nat /\ Len(q) \in Nat /\ Len(q) < Len(p)
<1>1. p \in Seq(ToSet(p)) /\ q \in Seq(ToSet(q))
  BY PathsAssumption
<1>2. Len(p) \in Nat /\ Len(q) \in Nat /\ SubSeq(p, 1, Len(p)) = p /\ SubSeq(q, 1, Len(q)) = q
  BY <1>1
<1>3. Len(q) <= Len(p) /\ SubSeq(q, 1, Len(q)) = SubSeq(p, 1, Len(q))
  BY DEF Under, IsPrefix
<1>4. Len(q) # Len(p)
  BY <1>2, <1>3
<1>5. PICK a \in Nat, b \in Nat : a = Len(p) /\ b = Len(q)
  BY <1>2
<1>6. b <= a /\ b # a
  BY <1>3, <1>4, <1>5
<1> QED
  BY <1>5, <1>6

\* The places at which something is mounted or made for a policy.
Own == {Scratch} \cup (IF request.proxied THEN {ProxySocket} ELSE {})
Sources == {policy.binds[i].source : i \in DOMAIN policy.binds}
Points == policy.home \cup ToSet(policy.tmpfs) \cup Sources \cup Own

\* Where the operation after the first n stands in the argv.
Stands(op, n, argv, o) ==
    /\ op \in Ops
    /\ \/ n < o /\ op \in Early(policy)
       \/ /\ o <= n /\ \E i \in DOMAIN policy.binds :
               n + 1 = o + i /\ op = BindFlag(policy.binds[i]) /\ policy.binds[i] \in Binds
       \/ /\ Past(n, argv, o, policy)
          /\ \E m \in {2, 3}, k \in 1..3 :
               /\ Len(argv) = o + Len(policy.binds) + m
               /\ k <= m /\ n + 1 = o + Len(policy.binds) + k /\ Late(op, k, m, policy, request.proxied)

LEMMA Standing ==
    ASSUME NEW argv, NEW o, policy \in Policies, Arranged(argv, o, policy, request.proxied),
           NEW n \in Nat, n < Len(argv)
    PROVE  Stands(argv[n + 1], n, argv, o)
<1> DEFINE B == Len(policy.binds)
<1>1. /\ argv \in Seq(Ops) /\ o \in Nat /\ B \in Nat
      /\ \A j \in 1..o : argv[j] \in Early(policy)
      /\ \A i \in 1..B : argv[o + i] = BindFlag(policy.binds[i])
      /\ DOMAIN policy.binds = 1..B /\ \A i \in 1..B : policy.binds[i] \in Binds
  BY BindType DEF Arranged
<1>2. PICK m \in {2, 3} : Len(argv) = o + B + m /\ \A h \in 1..m : Late(argv[o + B + h], h, m, policy, request.proxied)
  BY DEF Arranged
<1>3. argv[n + 1] \in Ops
  <2>1. n + 1 \in 1..Len(argv)
    BY <1>1, LenProperties
  <2> QED
    BY <1>1, <2>1, ElementOfSeq
<1> HIDE DEF B
<1>4. PICK c \in Nat : c = o + B
  BY <1>1
<1>5. CASE n < o
  BY <1>1, <1>3, <1>5 DEF Stands
<1>6. CASE o <= n /\ n < c
  <2>1. PICK i \in 1..B : n + 1 = o + i
    <3>1. (n + 1) - o \in 1..B /\ n + 1 = o + ((n + 1) - o)
      BY <1>1, <1>4, <1>6
    <3> QED
      BY <3>1
  <2> QED
    BY <1>1, <1>3, <1>6, <2>1 DEF Stands
<1>7. CASE c <= n
  <2>1. PICK h \in 1..m : n + 1 = c + h
    <3>1. (n + 1) - c \in 1..m /\ n + 1 = c + ((n + 1) - c)
      BY <1>2, <1>4, <1>7
    <3> QED
      BY <3>1
  <2>2. Past(n, argv, o, policy)
    BY <1>2, <1>4, <1>7 DEF Past, B
  <2>3. h \in 1..3 /\ h <= m
    OBVIOUS
  <2> QED
    BY <1>2, <1>3, <1>4, <2>1, <2>2, <2>3 DEF B, Stands
<1> QED
  BY <1>1, <1>4, <1>5, <1>6, <1>7

\* An operation that finds no room is in one of the last three cases of
\* FailureIsExplained, the last excluded here.
LEMMA NoRoom ==
    ASSUME MountsInv, NEW n, NEW f, NEW box, Failing(n, f, box),
           NEW op, op = Arguments[n + 1], op.kind # "chdir", ~(op.kind \in Modes /\ op.at \notin Host)
    PROVE  \/ \E p \in Points : Sealed(p)
           \/ \E p \in Own \ Host : LastOver(p, "ro")
<1> DEFINE q == op.at
           argv == Arguments
           top == Top(box, q)
           M == Len(box.mounts)
<1>1. PICK o : Arranged(argv, o, policy, request.proxied)
  BY ArgumentsType
<1>2. /\ policy \in Policies /\ n \in Nat /\ n < Len(argv) /\ Made(box, argv, n, f) /\ ~After(box, op).ok
      /\ op = argv[n + 1]
  BY ArgumentsType DEF Failing
<1> HIDE DEF q, argv, top, M
<1>3. Stands(op, n, argv, o)
  <2>1. policy \in Policies /\ n \in Nat /\ n < Len(argv)
    BY <1>2
  <2>2. op = argv[n + 1]
    BY <1>2
  <2> QED
    BY <1>1, <2>1, <2>2, Standing
<1>4. q \in Paths /\ q \in Seq(ToSet(q))
  BY <1>3, PathsAssumption DEF Stands, Ops, q
<1>5. ~Present(box, q) /\ Kind(box, q) \notin {"rw", "tmpfs", "dev"}
  <2>1. box.ok /\ box \in Boxes
    BY <1>2 DEF Made
  <2>2. After(box, op) =
          IF ~(Present(box, op.at) \/ Kind(box, op.at) \in {"rw", "tmpfs", "dev"})
            THEN [box EXCEPT !.ok = FALSE]
          ELSE IF op.kind = "dir" THEN [box EXCEPT !.made = box.made \cup Parents(op.at)]
          ELSE [box EXCEPT !.made = {p \in box.made : ~Under(p, op.at)} \cup Parents(op.at),
                           !.mounts = Append(box.mounts, [kind |-> op.kind, at |-> op.at, to |-> op.to])]
    BY <2>1 DEF After
  <2>3. Present(box, op.at) \/ Kind(box, op.at) \in {"rw", "tmpfs", "dev"} => After(box, op).ok
    BY <2>1, <2>2 DEF Boxes
  <2> QED
    BY <1>2, <2>3 DEF q
<1>6. PICK k \in 1..M : /\ top = box.mounts[k] /\ Under(q, box.mounts[k].at)
                        /\ \A l \in 1..M : Under(q, box.mounts[l].at) => l <= k
  BY <1>2, <1>4, TopIs DEF top, M
<1>7. /\ M \in Nat /\ f \in [1..M -> 0..n] /\ box.mounts[1].kind = "tmpfs" /\ Kept(box)
      /\ \A h \in 2..M : f[h] \in 1..n /\ Mounting(argv[f[h]]) /\ box.mounts[h] = MountOf(argv[f[h]])
  BY <1>2 DEF Made, M
<1>8. Kind(box, q) = IF top.kind = "link" THEN Top(box, top.to \o SubSeq(q, Len(top.at) + 1, Len(q))).kind ELSE top.kind
  BY DEF Kind, Target, top
<1>9. k \in 2..M
  <2>1. k # 1
    BY <1>5, <1>6, <1>7, <1>8
  <2> QED
    BY <1>7, <2>1
<1>10. PICK j \in 1..n : j = f[k] /\ Mounting(argv[j]) /\ top = MountOf(argv[j])
  BY <1>6, <1>7, <1>9
<1>11. top.at # q
  <2> SUFFICES ASSUME top.at = q PROVE FALSE
    OBVIOUS
  <2>1. q \in box.made
    BY <1>6, <1>7, <1>9 DEF Kept, M
  <2> QED
    BY <1>5, <2>1 DEF Present
<1>13. argv[j] \in Ops /\ top.at \in Paths
  <2>1. argv \in Seq(Ops) /\ j \in 1..Len(argv)
    BY <1>1, <1>2, <1>10, ArrangedSize DEF Arranged
  <2>2. argv[j] \in Ops
    BY <2>1, ElementOfSeq
  <2> QED
    BY <1>10, <2>2 DEF Ops, MountOf
<1>14. Len(q) \in Nat /\ Len(top.at) \in Nat /\ Len(top.at) < Len(q)
  BY <1>4, <1>6, <1>11, <1>13, Longer
<1>15. q \in Points \/ Len(q) = 1
  <2>1. CASE op \in Early(policy)
    <3>1. Len(<<"proc">>) = 1 /\ Len(<<"dev">>) = 1
      OBVIOUS
    <3> QED
      BY <2>1, <3>1, PathsAssumption DEF Early, Points, q
  <2>2. CASE \E i \in DOMAIN policy.binds : op = BindFlag(policy.binds[i]) /\ policy.binds[i] \in Binds
    <3>1. PICK h \in DOMAIN policy.binds : op = BindFlag(policy.binds[h])
      BY <2>2
    <3>2. op.at = policy.binds[h].source
      BY <3>1 DEF BindFlag, Op
    <3> QED
      BY <3>2 DEF Points, Sources, q
  <2>3. CASE \E m \in {2, 3}, h \in 1..3 : Late(op, h, m, policy, request.proxied)
    BY <2>3 DEF Late, Points, Own, q
  <2> QED
    BY <1>3, <2>1, <2>2, <2>3 DEF Stands
<1>16. argv[j].at = top.at /\ argv[j].kind = top.kind /\ top.kind \notin {"dir", "chdir"}
  BY <1>10 DEF MountOf, Mounting
<1>17. o \in Nat /\ \A h \in 1..o : argv[h] \in Early(policy)
  BY <1>1 DEF Arranged
<1>18. top.kind \notin {"rw", "tmpfs", "dev"}
  BY <1>5, <1>8
<1>19. CASE argv[j] \in Early(policy)
  <2>1. Len(<<"proc">>) = 1
    OBVIOUS
  <2>2. \/ top.kind = "link" /\ top.at \in DOMAIN Links
        \/ top.kind = "ro" /\ top.at \in ToSet(TopDirs)
        \/ top.kind = "proc" /\ top.at = <<"proc">> /\ policy.proc
    BY <1>16, <1>18, <1>19 DEF Early
  <2>3. Len(top.at) = 1 /\ Sealed(q)
    BY <1>6, <1>9, <2>1, <2>2, PathsAssumption DEF Sealed
  <2>4. PICK a \in Nat, b \in Nat : a = Len(q) /\ b = Len(top.at) /\ b < a /\ b = 1
    BY <1>14, <2>3
  <2>5. b < a /\ b = 1
    BY <2>4
  <2>6. a # 1
    BY <2>5
  <2> QED
    BY <1>15, <2>3, <2>4, <2>6
<1>20. CASE argv[j] \notin Early(policy)
  <2>1. ~(n < o)
    BY <1>2, <1>10, <1>17, <1>20
  <2>2. PICK i0 \in Nat : j = i0 + 1
    <3>1. j - 1 \in Nat /\ j = (j - 1) + 1
      BY <1>10, <1>2
    <3> QED
      BY <3>1
  <2>3. i0 < Len(argv) /\ ~(i0 < o)
    BY <1>2, <1>10, <1>17, <1>20, <2>2, ArgumentsType DEF argv
  <2>4. \/ \E i \in DOMAIN policy.binds : argv[j] = BindFlag(policy.binds[i]) /\ policy.binds[i] \in Binds
        \/ \E m \in {2, 3}, h \in 1..3 :
             h <= m /\ j = o + Len(policy.binds) + h /\ Late(argv[j], h, m, policy, request.proxied)
    <3>1. policy \in Policies
      BY <1>2
    <3>2. Stands(argv[i0 + 1], i0, argv, o)
      BY <1>1, <2>2, <2>3, <3>1, Standing
    <3> QED
      BY <2>2, <2>3, <3>2 DEF Stands
  <2>5. CASE \E m \in {2, 3}, h \in 1..3 :
               h <= m /\ j = o + Len(policy.binds) + h /\ Late(argv[j], h, m, policy, request.proxied)
    <3>1. PICK c \in Nat : c = o + Len(policy.binds)
      BY <1>2, <1>17, BindType
    <3>2. j = c + 2
      BY <1>16, <2>5, <3>1 DEF Late
    <3>3. ~(n + 1 <= c) /\ n + 1 # c + 1 /\ n + 1 # c + 2
      BY <1>2, <1>10, <3>1, <3>2
    <3>4. \A i \in DOMAIN policy.binds : n + 1 # o + i
      <4>1. DOMAIN policy.binds = 1..Len(policy.binds) /\ Len(policy.binds) \in Nat
        BY <1>2, BindType
      <4> QED
        BY <1>17, <3>1, <3>3, <4>1
    <3>5. PICK m \in {2, 3}, h \in 1..3 :
             h <= m /\ n + 1 = c + h /\ Late(op, h, m, policy, request.proxied)
      BY <1>3, <2>1, <3>1, <3>4 DEF Stands
    <3>6. h = 3
      BY <3>1, <3>3, <3>5
    <3> QED
      BY <3>5, <3>6 DEF Late
  <2>6. CASE \E i \in DOMAIN policy.binds : argv[j] = BindFlag(policy.binds[i]) /\ policy.binds[i] \in Binds
    <3>1. top.kind = "ro"
      BY <1>16, <1>18, <2>6 DEF BindFlag, Op, Binds, Modes
    <3>2. q \notin Host
      BY <1>5, <1>8, <3>1 DEF Present, CanRead
    <3>3. \A i \in DOMAIN policy.binds : policy.binds[i] \in Binds => op # BindFlag(policy.binds[i])
      BY <3>2 DEF BindFlag, Op, Binds, q
    <3>4. /\ Past(n, argv, o, policy)
          /\ \E m \in {2, 3}, h \in 1..3 : Late(op, h, m, policy, request.proxied)
      BY <1>3, <2>1, <3>3 DEF Stands
    <3>5. q \in Own
      BY <3>4 DEF Late, Own, q
    <3>6. Shows(box, q, policy, request.proxied)
      BY <1>1, <1>2, <1>4, <3>4, Shown
    <3>7. \/ \E e \in Early(policy) : top = MountOf(e)
          \/ Over(q) # {} /\ policy.binds[Max(Over(q))].mode = "ro"
      BY <3>1, <3>6 DEF Shows, Over, top
    <3>8. CASE \E e \in Early(policy) : top = MountOf(e)
      <4>1. top.at \in ToSet(TopDirs)
        BY <3>1, <3>8 DEF Early, MountOf
      <4>2. Sealed(q)
        BY <1>6, <4>1 DEF Sealed
      <4> QED
        BY <3>5, <4>2 DEF Points
    <3>9. CASE Over(q) # {} /\ policy.binds[Max(Over(q))].mode = "ro"
      BY <3>2, <3>5, <3>9 DEF LastOver
    <3> QED
      BY <3>7, <3>8, <3>9
  <2> QED
    BY <2>4, <2>5, <2>6
<1> QED
  BY <1>19, <1>20

-----------------------------------------------------------------------------
(* What merging leaves of a policy p: q is p with the first n of bs merged.  *)

Distinct(p) == \A i, j \in DOMAIN p.binds : p.binds[i].source = p.binds[j].source => i = j

\* The binds of p stand where they stood, and only override changes a mode.
Stays(p, bs, n, override, q) ==
    /\ Len(p.binds) <= Len(q.binds)
    /\ \A i \in DOMAIN p.binds :
         /\ q.binds[i].source = p.binds[i].source
         /\ \/ q.binds[i].mode = p.binds[i].mode
            \/ override /\ \E l \in 1..n : bs[l].source = p.binds[i].source /\ q.binds[i].mode = bs[l].mode

\* Each of bs is there, and if there was no conflict, with its mode.
Arrives(bs, n, q) ==
    \A l \in 1..n : \E i \in DOMAIN q.binds :
      /\ q.binds[i].source = bs[l].source
      /\ (\A m \in l + 1..n : bs[m].source # bs[l].source) /\ q.ok => q.binds[i].mode = bs[l].mode

\* What is new comes from bs, in its order.
Follows(p, bs, n, q) ==
    /\ \A i \in DOMAIN q.binds \ DOMAIN p.binds : \E l \in 1..n : bs[l].source = q.binds[i].source
    /\ \A i, j \in DOMAIN q.binds \ DOMAIN p.binds :
         i < j => \E l \in 1..n : /\ bs[l].source = q.binds[i].source
                                  /\ \A m \in 1..n : bs[m].source = q.binds[j].source => l < m

Adds(p, bs, n, override, q) ==
    /\ q \in Policies /\ Distinct(q) /\ (q.ok => p.ok)
    /\ Stays(p, bs, n, override, q) /\ Arrives(bs, n, q) /\ Follows(p, bs, n, q)

\* What one merge does, the new bind at a place of its own or at that of its source.
LEMMA MergedIs ==
    ASSUME NEW p \in Policies, NEW b \in Binds, NEW override \in BOOLEAN, Distinct(p)
    PROVE  LET q == Merged(p, b, override)
               N == Len(p.binds)
           IN  /\ q \in Policies /\ (q.ok => p.ok)
               /\ \/ /\ \A i \in 1..N : p.binds[i].source # b.source
                     /\ Len(q.binds) = N + 1 /\ q.binds[N + 1] = b /\ \A i \in 1..N : q.binds[i] = p.binds[i]
                  \/ \E i \in 1..N :
                       /\ p.binds[i].source = b.source /\ q.binds[i].source = b.source
                       /\ Len(q.binds) = N /\ \A j \in 1..N : j # i => q.binds[j] = p.binds[j]
                       /\ q.binds[i].mode = p.binds[i].mode \/ (override /\ q.binds[i].mode = b.mode)
                       /\ q.ok => q.binds[i].mode = b.mode
<1> DEFINE q == Merged(p, b, override)
           N == Len(p.binds)
           same == {i \in DOMAIN p.binds : p.binds[i].source = b.source}
           i == Min(same)
<1>1. /\ p.binds \in Seq(Binds) /\ DOMAIN p.binds = 1..N /\ N \in Nat
      /\ \A j \in 1..N : p.binds[j] \in Binds
  <2>1. p.binds \in Seq(Binds)
    BY DEF Policies
  <2> QED
    BY <2>1, LenProperties, ElementOfSeq
<1>2. q \in Policies
  BY MergedType
<1>3. CASE same = {}
  <2>1. q = [p EXCEPT !.binds = Append(p.binds, b)]
    BY <1>3 DEF Merged
  <2>2. q.binds = Append(p.binds, b) /\ q.ok = p.ok
    BY <2>1 DEF Policies
  <2>3. \A j \in 1..N : p.binds[j].source # b.source
    BY <1>1, <1>3
  <2> HIDE DEF q, same, i, N
  <2>4. Len(q.binds) = N + 1 /\ q.binds[N + 1] = b /\ \A j \in 1..N : q.binds[j] = p.binds[j]
    BY <1>1, <2>2, AppendProperties DEF N
  <2> QED
    BY <1>2, <2>2, <2>3, <2>4 DEF q, N
<1>4. CASE same # {}
  <2>1. same \in SUBSET Nat /\ same \subseteq DOMAIN p.binds
    BY <1>1
  <2>2. i \in 1..N /\ p.binds[i].source = b.source
    BY <1>1, <1>4, <2>1, LeastIs
  <2>3. q =
          IF p.binds[i].mode = b.mode
            THEN [p EXCEPT !.binds = [p.binds EXCEPT ![i] = [p.binds[i] EXCEPT !.optional = p.binds[i].optional /\ b.optional]]]
          ELSE IF override THEN [p EXCEPT !.binds = [p.binds EXCEPT ![i] = b]]
          ELSE [p EXCEPT !.ok = FALSE]
    BY <1>4 DEF Merged, Policies
  <2> HIDE DEF same, i, q, N
  <2> DEFINE c == [p.binds[i] EXCEPT !.optional = p.binds[i].optional /\ b.optional]
  <2>4. c.source = b.source /\ c.mode = p.binds[i].mode
    BY <1>1, <2>2 DEF Binds
  <2> HIDE DEF c
  <2>5. /\ q.ok => p.ok
        /\ \/ q.binds = [p.binds EXCEPT ![i] = c] /\ p.binds[i].mode = b.mode
           \/ q.binds = [p.binds EXCEPT ![i] = b] /\ override
           \/ q.binds = p.binds /\ ~q.ok
    BY <2>3 DEF Policies, c
  <2>6. ASSUME NEW d, q.binds = [p.binds EXCEPT ![i] = d]
        PROVE  Len(q.binds) = N /\ q.binds[i] = d /\ \A j \in 1..N : j # i => q.binds[j] = p.binds[j]
    <3>1. q.binds \in Seq(Binds) /\ DOMAIN q.binds = 1..N
      BY <1>1, <1>2, <2>6 DEF Policies
    <3>2. Len(q.binds) = N
      BY <1>1, <3>1, LenProperties
    <3> QED
      BY <1>1, <2>2, <2>6, <3>2
  <2>7. CASE q.binds = [p.binds EXCEPT ![i] = c] /\ p.binds[i].mode = b.mode
    BY <1>2, <2>2, <2>4, <2>5, <2>6, <2>7 DEF q, N
  <2>8. CASE q.binds = [p.binds EXCEPT ![i] = b] /\ override
    BY <1>2, <2>2, <2>5, <2>6, <2>8 DEF q, N
  <2>9. CASE q.binds = p.binds /\ ~q.ok
    BY <1>2, <2>2, <2>5, <2>9 DEF q, N
  <2> QED
    BY <2>5, <2>7, <2>8, <2>9
<1> QED
  BY <1>3, <1>4

LEMMA NoneAdded ==
    ASSUME NEW p \in Policies, NEW bs, NEW override, Distinct(p)
    PROVE  Adds(p, bs, 0, override, p)
<1>1. Len(p.binds) \in Nat /\ 1..0 = {}
  BY BindType
<1>2. Stays(p, bs, 0, override, p)
  BY <1>1 DEF Stays
<1>3. Arrives(bs, 0, p) /\ Follows(p, bs, 0, p)
  BY <1>1 DEF Arrives, Follows
<1> QED
  BY <1>2, <1>3 DEF Adds

LEMMA MoreAdded ==
    ASSUME NEW p \in Policies, NEW bs \in Seq(Binds), NEW n \in Nat, n < Len(bs), NEW override \in BOOLEAN,
           NEW q, Adds(p, bs, n, override, q)
    PROVE  Adds(p, bs, n + 1, override, Merged(q, bs[n + 1], override))
<1> DEFINE b == bs[n + 1]
           r == Merged(q, b, override)
           N == Len(q.binds)
           P == Len(p.binds)
<1>1. b \in Binds /\ q \in Policies /\ Distinct(q) /\ (q.ok => p.ok)
  <2>1. n + 1 \in 1..Len(bs)
    BY LenProperties
  <2> QED
    BY <2>1, ElementOfSeq DEF Adds
<1>2. N \in Nat /\ P \in Nat /\ DOMAIN q.binds = 1..N /\ DOMAIN p.binds = 1..P
  BY <1>1, BindType
<1>3. /\ r \in Policies /\ (r.ok => q.ok)
      /\ \/ /\ \A i \in 1..N : q.binds[i].source # b.source
            /\ Len(r.binds) = N + 1 /\ r.binds[N + 1] = b /\ \A i \in 1..N : r.binds[i] = q.binds[i]
         \/ \E i \in 1..N :
              /\ q.binds[i].source = b.source /\ r.binds[i].source = b.source
              /\ Len(r.binds) = N /\ \A j \in 1..N : j # i => r.binds[j] = q.binds[j]
              /\ r.binds[i].mode = q.binds[i].mode \/ (override /\ r.binds[i].mode = b.mode)
              /\ r.ok => r.binds[i].mode = b.mode
  BY <1>1, MergedIs
<1>4. P <= N /\ \A i \in 1..P : /\ q.binds[i].source = p.binds[i].source
                               /\ \/ q.binds[i].mode = p.binds[i].mode
                                  \/ override /\ \E l \in 1..n :
                                       bs[l].source = p.binds[i].source /\ q.binds[i].mode = bs[l].mode
  BY <1>2 DEF Adds, Stays
<1>5. \A l \in 1..n : \E i \in 1..N :
        /\ q.binds[i].source = bs[l].source
        /\ (\A m \in l + 1..n : bs[m].source # bs[l].source) /\ q.ok => q.binds[i].mode = bs[l].mode
  BY <1>2 DEF Adds, Arrives
<1>6. /\ \A i \in 1..N \ 1..P : \E l \in 1..n : bs[l].source = q.binds[i].source
      /\ \A i, j \in 1..N \ 1..P :
           i < j => \E l \in 1..n : /\ bs[l].source = q.binds[i].source
                                    /\ \A m \in 1..n : bs[m].source = q.binds[j].source => l < m
  BY <1>2 DEF Adds, Follows
<1>7. DOMAIN r.binds = 1..Len(r.binds) /\ Len(r.binds) \in Nat
  BY <1>3, BindType
<1>8. bs[n + 1] = b /\ n + 1 \in 1..n + 1 /\ \A l \in 1..n : l \in 1..n + 1 /\ l < n + 1 /\ n + 1 \in l + 1..n + 1
  OBVIOUS
<1>9. \A l \in 1..n + 1 : l \in 1..n \/ l = n + 1
  OBVIOUS
<1>10. \A l \in 1..n : \A m \in l + 1..n : m \in l + 1..n + 1
  OBVIOUS
<1> HIDE DEF b, r, N, P
\* What both cases leave to show, in terms of r.
<1>11. ASSUME \A i \in 1..N : r.binds[i].source = q.binds[i].source,
              Len(r.binds) >= N, Distinct(r),
              \A i \in 1..N : \/ r.binds[i].mode = q.binds[i].mode
                              \/ override /\ q.binds[i].source = b.source /\ r.binds[i].mode = b.mode,
              \E i \in 1..Len(r.binds) : r.binds[i].source = b.source /\ (r.ok => r.binds[i].mode = b.mode),
              \A i \in 1..N : q.binds[i].source # b.source => r.binds[i].mode = q.binds[i].mode,
              \A i \in 1..Len(r.binds) \ 1..N : /\ r.binds[i].source = b.source
                                                /\ \A l \in 1..n : bs[l].source # b.source
                                                /\ i = N + 1
       PROVE  Adds(p, bs, n + 1, override, r)
  <2>1. Stays(p, bs, n + 1, override, r)
    <3>1. P <= Len(r.binds)
      BY <1>2, <1>4, <1>7, <1>11
    <3>2. \A i \in 1..P : i \in 1..N
      BY <1>2, <1>4
    <3>3. ASSUME NEW i \in 1..P
          PROVE  /\ r.binds[i].source = p.binds[i].source
                 /\ \/ r.binds[i].mode = p.binds[i].mode
                    \/ override /\ \E l \in 1..n + 1 :
                         bs[l].source = p.binds[i].source /\ r.binds[i].mode = bs[l].mode
      <4>1. r.binds[i].source = p.binds[i].source
        BY <1>4, <1>11, <3>2
      <4>2. CASE r.binds[i].mode = q.binds[i].mode
        BY <1>4, <1>8, <4>1, <4>2
      <4>3. CASE override /\ q.binds[i].source = b.source /\ r.binds[i].mode = b.mode
        BY <1>4, <1>8, <4>1, <4>3
      <4> QED
        BY <1>11, <3>2, <4>1, <4>2, <4>3
    <3> QED
      BY <1>2, <3>1, <3>3 DEF Stays, P
  <2>2. Arrives(bs, n + 1, r)
    <3>1. ASSUME NEW l \in 1..n + 1
          PROVE  \E i \in 1..Len(r.binds) :
                   /\ r.binds[i].source = bs[l].source
                   /\ (\A m \in l + 1..n + 1 : bs[m].source # bs[l].source) /\ r.ok => r.binds[i].mode = bs[l].mode
      <4>1. CASE l = n + 1
        BY <1>8, <1>11, <4>1
      <4>2. CASE l \in 1..n
        <5>1. PICK i \in 1..N :
                /\ q.binds[i].source = bs[l].source
                /\ (\A m \in l + 1..n : bs[m].source # bs[l].source) /\ q.ok => q.binds[i].mode = bs[l].mode
          BY <1>5, <4>2
        <5>2. i \in 1..Len(r.binds) /\ r.binds[i].source = bs[l].source
          BY <1>2, <1>7, <1>11, <5>1
        <5>3. ASSUME \A m \in l + 1..n + 1 : bs[m].source # bs[l].source, r.ok
              PROVE  r.binds[i].mode = bs[l].mode
          <6>1. q.ok /\ b.source # bs[l].source
            BY <1>3, <1>8, <4>2, <5>3
          <6>2. \A m \in l + 1..n : bs[m].source # bs[l].source
            BY <1>10, <4>2, <5>3
          <6>3. q.binds[i].mode = bs[l].mode
            BY <5>1, <6>1, <6>2
          <6> QED
            BY <1>11, <5>1, <6>1, <6>3
        <5> QED
          BY <5>2, <5>3
      <4> QED
        BY <1>9, <4>1, <4>2
    <3> QED
      BY <1>7, <3>1 DEF Arrives
  <2>3. Follows(p, bs, n + 1, r)
    <3> DEFINE R == Len(r.binds)
    <3>1. \A i \in 1..R : i \in 1..N \/ i \in 1..R \ 1..N
      OBVIOUS
    <3>2. ASSUME NEW i \in 1..R \ 1..P PROVE \E l \in 1..n + 1 : bs[l].source = r.binds[i].source
      <4>1. CASE i \in 1..N
        <5>1. PICK l \in 1..n : bs[l].source = q.binds[i].source
          BY <1>6, <3>2, <4>1
        <5> QED
          BY <1>8, <1>11, <4>1, <5>1
      <4>2. CASE i \in 1..R \ 1..N
        BY <1>8, <1>11, <4>2
      <4> QED
        BY <3>1, <4>1, <4>2
    <3>3. ASSUME NEW i \in 1..R \ 1..P, NEW j \in 1..R \ 1..P, i < j
          PROVE  \E l \in 1..n + 1 : /\ bs[l].source = r.binds[i].source
                                     /\ \A m \in 1..n + 1 : bs[m].source = r.binds[j].source => l < m
      <4>1. i \in 1..N
        <5>1. CASE j \in 1..N
          BY <1>2, <3>3, <5>1
        <5>2. CASE j \in 1..R \ 1..N
          <6>1. j = N + 1
            BY <1>11, <5>2
          <6> QED
            BY <1>2, <3>3, <6>1
        <5> QED
          BY <3>1, <5>1, <5>2
      <4>2. i \in 1..N \ 1..P
        BY <3>3, <4>1
      <4>3. CASE j \in 1..N
        <5>1. PICK l \in 1..n : /\ bs[l].source = q.binds[i].source
                                /\ \A m \in 1..n : bs[m].source = q.binds[j].source => l < m
          BY <1>6, <3>3, <4>2, <4>3
        <5>2. bs[l].source = r.binds[i].source /\ r.binds[j].source = q.binds[j].source
          BY <1>11, <4>1, <4>3, <5>1
        <5>3. ASSUME NEW m \in 1..n + 1, bs[m].source = r.binds[j].source PROVE l < m
          BY <1>8, <1>9, <5>1, <5>2, <5>3
        <5> QED
          BY <1>8, <5>1, <5>2, <5>3
      <4>4. CASE j \in 1..R \ 1..N
        <5>1. PICK l \in 1..n : bs[l].source = q.binds[i].source
          BY <1>6, <4>2
        <5>2. bs[l].source = r.binds[i].source
          BY <1>11, <4>1, <5>1
        <5>3. r.binds[j].source = b.source /\ \A m \in 1..n : bs[m].source # b.source
          BY <1>11, <4>4
        <5>4. ASSUME NEW m \in 1..n + 1, bs[m].source = r.binds[j].source PROVE l < m
          BY <1>8, <1>9, <5>1, <5>3, <5>4
        <5> QED
          BY <1>8, <5>1, <5>2, <5>4
      <4> QED
        BY <3>1, <4>3, <4>4
    <3>4. DOMAIN r.binds \ DOMAIN p.binds = 1..R \ 1..P
      BY <1>2, <1>7
    <3> DEFINE new == 1..R \ 1..P
    <3>5. \A i \in new : \E l \in 1..n + 1 : bs[l].source = r.binds[i].source
      BY <3>2
    <3>6. \A i, j \in new :
            i < j => \E l \in 1..n + 1 : /\ bs[l].source = r.binds[i].source
                                         /\ \A m \in 1..n + 1 : bs[m].source = r.binds[j].source => l < m
      BY <3>3
    <3> HIDE DEF new
    <3>7. DOMAIN r.binds \ DOMAIN p.binds = new
      BY <3>4 DEF new
    <3> QED
      BY <3>5, <3>6, <3>7 DEF Follows
  <2> QED
    BY <1>1, <1>3, <1>11, <2>1, <2>2, <2>3 DEF Adds
<1>12. CASE /\ \A i \in 1..N : q.binds[i].source # b.source
            /\ Len(r.binds) = N + 1 /\ r.binds[N + 1] = b /\ \A i \in 1..N : r.binds[i] = q.binds[i]
  <2>1. \A i \in 1..N + 1 : i \in 1..N \/ i = N + 1
    BY <1>2
  <2>2. Distinct(r)
    <3>1. DOMAIN r.binds = 1..N + 1
      BY <1>7, <1>12
    <3>2. ASSUME NEW i \in 1..N + 1, NEW j \in 1..N + 1, r.binds[i].source = r.binds[j].source PROVE i = j
      BY <1>1, <1>2, <1>12, <2>1, <3>2 DEF Distinct
    <3> QED
      BY <3>1, <3>2 DEF Distinct
  <2>3. \A l \in 1..n : bs[l].source # b.source
    BY <1>5, <1>12
  <2>4. N + 1 \in 1..N + 1 /\ N + 1 >= N
    BY <1>2
  <2>5. \A i \in 1..N + 1 \ 1..N : i = N + 1
    BY <2>1
  <2>6. Adds(p, bs, n + 1, override, r)
    BY <1>11, <1>12, <2>2, <2>3, <2>4, <2>5
  <2> QED
    BY <2>6 DEF r, b
<1>13. ASSUME NEW i \in 1..N,
              q.binds[i].source = b.source, r.binds[i].source = b.source,
              Len(r.binds) = N, \A j \in 1..N : j # i => r.binds[j] = q.binds[j],
              r.binds[i].mode = q.binds[i].mode \/ (override /\ r.binds[i].mode = b.mode),
              r.ok => r.binds[i].mode = b.mode
       PROVE  Adds(p, bs, n + 1, override, r)
  <2>1. \A j \in 1..N : r.binds[j].source = q.binds[j].source
    BY <1>13
  <2>2. Distinct(r)
    BY <1>1, <1>2, <1>7, <1>13, <2>1 DEF Distinct
  <2>3. \A j \in 1..N : q.binds[j].source # b.source => r.binds[j].mode = q.binds[j].mode
    BY <1>13
  <2>4. \A j \in 1..N : r.binds[j].mode = q.binds[j].mode \/ (override /\ q.binds[j].source = b.source /\ r.binds[j].mode = b.mode)
    BY <1>13
  <2>5. \E j \in 1..Len(r.binds) : r.binds[j].source = b.source /\ (r.ok => r.binds[j].mode = b.mode)
    BY <1>13
  <2>6. Len(r.binds) >= N
    BY <1>2, <1>13
  <2>7. 1..Len(r.binds) \ 1..N = {}
    BY <1>13
  <2> QED
    BY <1>11, <2>1, <2>2, <2>3, <2>4, <2>5, <2>6, <2>7
<1> QED
  BY <1>3, <1>12, <1>13 DEF r, b

\* What merging all of them does.
LEMMA AllAdded ==
    ASSUME NEW p \in Policies, Distinct(p), NEW bs \in Seq(Binds), NEW override \in BOOLEAN
    PROVE  Adds(p, bs, Len(bs), override, AddAll(p, bs, override))
<1> DEFINE N == Len(bs)
<1>1. N \in Nat
  BY LenProperties
<1>2. PICK first : Stages(first, p, bs, override) /\ AddAll(p, bs, override) = first[N]
  BY AddAllIs
<1> DEFINE T == {n \in Nat : n <= N => Adds(p, bs, n, override, first[n])}
<1> HIDE DEF N
<1>3. 0 \in T
  BY <1>2, NoneAdded DEF Stages
<1>4. ASSUME NEW n \in Nat, n \in T PROVE n + 1 \in T
  <2> SUFFICES ASSUME n + 1 <= N PROVE Adds(p, bs, n + 1, override, first[n + 1])
    OBVIOUS
  <2>1. Adds(p, bs, n, override, first[n]) /\ n < N
    BY <1>1, <1>4
  <2>2. first[n + 1] = Merged(first[n], bs[n + 1], override)
    BY <1>2, <2>1 DEF Stages, N
  <2>3. n < Len(bs)
    BY <2>1 DEF N
  <2> QED
    BY <2>1, <2>2, <2>3, MoreAdded
<1> HIDE DEF T
<1>5. Nat \subseteq T
  BY <1>3, <1>4, Induction
<1> QED
  BY <1>1, <1>2, <1>5 DEF T, N

\* Merging two lists one after the other is merging the longer list.
LEMMA AddedTwice ==
    ASSUME NEW p, NEW s \in Seq(Binds), NEW t \in Seq(Binds), NEW override
    PROVE  AddAll(p, s \o t, override) = AddAll(AddAll(p, s, override), t, override)
<1>1. PICK m \in Nat, n \in Nat : m = Len(s) /\ n = Len(t)
  BY LenProperties
<1>2. /\ s \o t \in Seq(Binds) /\ Len(s \o t) = m + n
      /\ \A j \in 1..m : (s \o t)[j] = s[j]
      /\ \A i \in 1..n : (s \o t)[m + i] = t[i]
  <2>1. m = Len(s) /\ n = Len(t)
    BY <1>1
  <2> QED
    BY <2>1, Joined
<1>3. PICK f : Stages(f, p, s, override) /\ AddAll(p, s, override) = f[m]
  BY <1>1, AddAllIs
<1> DEFINE q == AddAll(p, s, override)
           all == s \o t
<1>4. PICK g : Stages(g, q, t, override) /\ AddAll(q, t, override) = g[n]
  BY <1>1, AddAllIs
<1> HIDE DEF q, all
<1>5. PICK h : Stages(h, p, all, override) /\ AddAll(p, all, override) = h[m + n]
  <2>1. all \in Seq(Binds) /\ Len(all) = m + n
    BY <1>2 DEF all
  <2> QED
    BY <2>1, AddAllIs
<1> DEFINE T == {k \in Nat : k <= m => h[k] = f[k]}
           U == {k \in Nat : k <= n => h[m + k] = g[k]}
<1>6. /\ \A k \in Nat : k < m => f[k + 1] = Merged(f[k], s[k + 1], override)
      /\ \A k \in Nat : k < n => g[k + 1] = Merged(g[k], t[k + 1], override)
      /\ \A k \in Nat : k < m + n => h[k + 1] = Merged(h[k], all[k + 1], override)
  BY <1>1, <1>2, <1>3, <1>4, <1>5 DEF Stages, all
<1>7. f[0] = p /\ g[0] = q /\ h[0] = p
  BY <1>3, <1>4, <1>5 DEF Stages
<1>8. Nat \subseteq T
  <2>1. 0 \in T
    BY <1>7
  <2>2. ASSUME NEW k \in Nat, k \in T PROVE k + 1 \in T
    <3> SUFFICES ASSUME k + 1 <= m PROVE h[k + 1] = f[k + 1]
      OBVIOUS
    <3>1. k < m /\ k < m + n /\ k + 1 \in 1..m /\ h[k] = f[k]
      BY <2>2
    <3>2. all[k + 1] = s[k + 1]
      BY <1>2, <3>1 DEF all
    <3> QED
      BY <1>6, <3>1, <3>2
  <2> HIDE DEF T
  <2> QED
    BY <2>1, <2>2, Induction
<1>9. h[m] = q
  <2>1. m \in T
    BY <1>8
  <2> QED
    BY <1>3, <2>1 DEF q
<1>10. Nat \subseteq U
  <2>1. 0 \in U
    BY <1>7, <1>9
  <2>2. ASSUME NEW k \in Nat, k \in U PROVE k + 1 \in U
    <3> SUFFICES ASSUME k + 1 <= n PROVE h[m + (k + 1)] = g[k + 1]
      OBVIOUS
    <3>1. k < n /\ m + k < m + n /\ m + k \in Nat /\ k + 1 \in 1..n /\ h[m + k] = g[k] /\ m + (k + 1) = (m + k) + 1
      BY <2>2
    <3>2. all[m + (k + 1)] = t[k + 1]
      BY <1>2, <3>1 DEF all
    <3> QED
      BY <1>6, <3>1, <3>2
  <2> HIDE DEF U
  <2> QED
    BY <2>1, <2>2, Induction
<1>11. n \in U
  BY <1>10
<1> QED
  BY <1>4, <1>5, <1>11 DEF q, all

-----------------------------------------------------------------------------
(* The sandbox that Box comes to.                                          *)

\* The first m sandboxes of Box's recursive definition.
IsBoxed(argv, m, f) ==
    f = [n \in 0..m |-> IF n = 0 THEN NewRoot ELSE After(f[n - 1], argv[n])]

LEMMA AllBoxed ==
    ASSUME NEW argv, NEW N \in Nat
    PROVE  \E f : IsBoxed(argv, N, f)
<1> DEFINE T == {m \in Nat : \E f : IsBoxed(argv, m, f)}
<1>1. 0 \in T
  <2> DEFINE f == [n \in 0..0 |-> NewRoot]
  <2>1. f = [n \in 0..0 |-> IF n = 0 THEN NewRoot ELSE After(f[n - 1], argv[n])]
    OBVIOUS
  <2> HIDE DEF f
  <2>2. IsBoxed(argv, 0, f)
    BY <2>1 DEF IsBoxed
  <2> QED
    BY <2>2
<1>2. ASSUME NEW m \in Nat, m \in T PROVE m + 1 \in T
  <2>1. PICK f : IsBoxed(argv, m, f)
    BY <1>2
  <2>2. f = [n \in 0..m |-> IF n = 0 THEN NewRoot ELSE After(f[n - 1], argv[n])]
    BY <2>1 DEF IsBoxed
  <2>3. \A n \in 0..m : f[n] = IF n = 0 THEN NewRoot ELSE After(f[n - 1], argv[n])
    BY <2>2
  <2> DEFINE more == After(f[m], argv[m + 1])
             g == [n \in 0..m + 1 |-> IF n = m + 1 THEN more ELSE f[n]]
  <2>4. /\ g[m + 1] = more
        /\ \A n \in 0..m : g[n] = f[n]
        /\ \A n \in 0..m + 1 : n \in 0..m \/ n = m + 1
        /\ \A n \in 1..m + 1 : n - 1 \in 0..m
    BY <1>2
  <2>5. ASSUME NEW n \in 0..m + 1
        PROVE  g[n] = IF n = 0 THEN NewRoot ELSE After(g[n - 1], argv[n])
    <3> HIDE DEF g
    <3>1. CASE n = m + 1
      BY <2>4, <3>1
    <3>2. CASE n \in 0..m
      BY <2>3, <2>4, <3>2
    <3> QED
      BY <2>4, <3>1, <3>2
  <2>6. g = [n \in 0..m + 1 |-> g[n]]
    OBVIOUS
  <2> HIDE DEF g
  <2>7. IsBoxed(argv, m + 1, g)
    BY <2>5, <2>6 DEF IsBoxed
  <2> QED
    BY <2>7
<1> HIDE DEF T
<1>3. Nat \subseteq T
  BY <1>1, <1>2, Induction
<1> QED
  BY <1>3 DEF T

\* It is made of the whole argv, unless one of its operations failed.
LEMMA BoxMade ==
    ASSUME NEW p \in Policies, NEW proxied \in BOOLEAN, Box(p, proxied).ok
    PROVE  \E f : Made(Box(p, proxied), Argv(p, proxied), Len(Argv(p, proxied)), f)
<1> DEFINE argv == Argv(p, proxied)
           N == Len(argv)
           box == CHOOSE f : IsBoxed(argv, N, f)
<1>1. argv \in Seq(Ops) /\ N \in Nat
  <2>1. PICK o : Arranged(argv, o, p, proxied)
    BY ArgvArranged
  <2> QED
    BY <2>1, LenProperties DEF Arranged
<1>2. Box(p, proxied) = box[N]
  BY DEF Box, IsBoxed
<1>3. IsBoxed(argv, N, box)
  BY <1>1, AllBoxed
<1> HIDE DEF box, argv, N
<1>4. \A n \in 0..N : box[n] = IF n = 0 THEN NewRoot ELSE After(box[n - 1], argv[n])
  <2>1. box = [n \in 0..N |-> IF n = 0 THEN NewRoot ELSE After(box[n - 1], argv[n])]
    BY <1>3 DEF IsBoxed
  <2> QED
    BY <2>1
<1> DEFINE T == {n \in Nat : n <= N /\ box[n].ok => \E f : Made(box[n], argv, n, f)}
<1>5. 0 \in T
  <2>1. box[0] = NewRoot
    BY <1>1, <1>4
  <2> QED
    BY <2>1, RootMade
<1>6. ASSUME NEW n \in Nat, n \in T PROVE n + 1 \in T
  <2> SUFFICES ASSUME n + 1 <= N, box[n + 1].ok PROVE \E f : Made(box[n + 1], argv, n + 1, f)
    OBVIOUS
  <2>1. n < N /\ n + 1 \in 0..N /\ n + 1 # 0 /\ (n + 1) - 1 = n
    BY <1>1
  <2>2. box[n + 1] = After(box[n], argv[n + 1])
    BY <1>4, <2>1
  <2>3. box[n].ok
    <3>1. ~box[n].ok => After(box[n], argv[n + 1]) = box[n]
      BY DEF After
    <3> QED
      BY <2>2, <3>1
  <2>4. PICK f : Made(box[n], argv, n, f)
    <3>1. n <= N
      BY <1>1, <2>1
    <3> QED
      BY <1>6, <2>3, <3>1
  <2>5. n < Len(argv) /\ After(box[n], argv[n + 1]).ok
    BY <2>1, <2>2 DEF N
  <2> QED
    BY <1>1, <2>2, <2>4, <2>5, MoreMade
<1> HIDE DEF T
<1>7. N \in T
  BY <1>1, <1>5, <1>6, Induction
<1>8. \E f : Made(box[N], argv, N, f)
  BY <1>1, <1>2, <1>7 DEF T
<1> QED
  BY <1>2, <1>8 DEF argv, N

\* So it shows what the last bind over a path says.
LEMMA BoxShows ==
    ASSUME NEW p \in Policies, NEW proxied \in BOOLEAN, Box(p, proxied).ok, NEW Vals, NEW path \in Seq(Vals)
    PROVE  Shows(Box(p, proxied), path, p, proxied)
<1> DEFINE argv == Argv(p, proxied)
           N == Len(argv)
<1>1. PICK o : Arranged(argv, o, p, proxied)
  BY ArgvArranged
<1>2. N \in Nat /\ o + Len(p.binds) < N /\ o \in Nat /\ Len(p.binds) \in Nat
  BY <1>1, ArrangedSize
<1>3. PICK f : Made(Box(p, proxied), argv, N, f)
  BY BoxMade
<1> HIDE DEF argv
<1>4. Past(N, argv, o, p)
  BY <1>2 DEF Past
<1> QED
  BY <1>1, <1>3, <1>4, Shown

-----------------------------------------------------------------------------
(* The profile that is suggested.                                          *)

LEMMA UnderIs ==
    ASSUME NEW Vals, NEW p \in Seq(Vals), NEW More, NEW q \in Seq(More)
    PROVE  Under(p, q) <=> Len(q) <= Len(p) /\ \A i \in 1..Len(q) : q[i] = p[i]
<1>1. PICK m \in Nat, n \in Nat : m = Len(p) /\ n = Len(q)
  BY LenProperties
<1>2. (\A i \in 1..m : p[i] \in Vals) /\ (\A i \in 1..n : q[i] \in More)
  BY <1>1, ElementOfSeq
<1> DEFINE a == SubSeq(q, 1, n)
           c == SubSeq(p, 1, n)
<1>3. SUFFICES ASSUME n <= m PROVE a = c <=> \A i \in 1..n : q[i] = p[i]
  BY <1>1 DEF Under, IsPrefix
<1>4. 1 \in Int /\ n \in Int /\ n - 1 + 1 = n /\ \A i \in 1..n : 1 + i - 1 = i
  BY <1>1
<1>5. a \in Seq(More) /\ Len(a) = n /\ \A i \in 1..n : a[i] = q[i]
  <2>1. /\ a \in Seq(More) /\ Len(a) = IF 1 <= n THEN n - 1 + 1 ELSE 0
        /\ \A i \in 1..n - 1 + 1 : a[i] = q[1 + i - 1]
    BY <1>2, <1>4, SubSeqProperties
  <2> HIDE DEF a
  <2> QED
    BY <1>4, <2>1
<1>6. c \in Seq(Vals) /\ Len(c) = n /\ \A i \in 1..n : c[i] = p[i]
  <2>1. \A i \in 1..n : p[i] \in Vals
    BY <1>1, <1>2, <1>3
  <2>2. /\ c \in Seq(Vals) /\ Len(c) = IF 1 <= n THEN n - 1 + 1 ELSE 0
        /\ \A i \in 1..n - 1 + 1 : c[i] = p[1 + i - 1]
    BY <1>4, <2>1, SubSeqProperties
  <2> HIDE DEF c
  <2> QED
    BY <1>4, <2>2
<1> HIDE DEF a, c
<1>7. (\A i \in 1..n : q[i] = p[i]) => a = c
  <2> SUFFICES ASSUME \A i \in 1..n : q[i] = p[i] PROVE a = c
    OBVIOUS
  <2> DEFINE V == Vals \cup More
  <2>1. Vals \subseteq V /\ More \subseteq V
    OBVIOUS
  <2> HIDE DEF V
  <2>2. a \in Seq(V) /\ c \in Seq(V)
    BY <1>5, <1>6, <2>1, MoreVals
  <2>3. \A i \in 1..Len(a) : a[i] = c[i]
    BY <1>5, <1>6
  <2>4. Len(a) = Len(c)
    BY <1>5, <1>6
  <2> QED
    BY <2>2, <2>3, <2>4, SeqEqual
<1> QED
  BY <1>5, <1>6, <1>7

LEMMA PathSize == ASSUME NEW p \in Paths PROVE p \in Seq(ToSet(p)) /\ Len(p) \in Nat
<1>1. p \in Seq(ToSet(p))
  BY PathsAssumption
<1> QED
  BY <1>1, LenProperties

\* Of two places a path is in, the shorter is above the longer.
LEMMA Nested ==
    ASSUME NEW p \in Paths, NEW q \in Paths, NEW r \in Paths, Under(p, q), Under(p, r), Len(q) <= Len(r)
    PROVE  Under(r, q)
<1>1. /\ p \in Seq(ToSet(p)) /\ q \in Seq(ToSet(q)) /\ r \in Seq(ToSet(r))
  BY PathSize
<1>2. PICK k \in Nat, m \in Nat, n \in Nat : k = Len(p) /\ m = Len(q) /\ n = Len(r)
  BY PathSize
<1>3. m <= k /\ \A i \in 1..m : q[i] = p[i]
  BY <1>1, <1>2, UnderIs
<1>4. n <= k /\ \A i \in 1..n : r[i] = p[i]
  BY <1>1, <1>2, UnderIs
<1>5. m <= n /\ \A i \in 1..m : i \in 1..n
  BY <1>2
<1>6. \A i \in 1..m : q[i] = r[i]
  BY <1>3, <1>4, <1>5
<1>7. Len(q) <= Len(r) /\ \A i \in 1..Len(q) : q[i] = r[i]
  BY <1>2, <1>6
<1> QED
  BY <1>1, <1>7, UnderIs

\* What is suggested for a path is the path or the directory it is in.
LEMMA GrantPathIs ==
    ASSUME NEW p \in Touched
    PROVE  /\ p \in Paths /\ GrantPath(p) \in Paths /\ Under(p, GrantPath(p))
           /\ GrantPath(p) = p \/ (p \notin Dirs /\ Len(p) = Len(GrantPath(p)) + 1)
<1>1. p \in Paths /\ p \in Seq(ToSet(p)) /\ Len(p) \in Nat
  BY PathSize, PathsAssumption
<1>2. CASE p \in Dirs \/ ~(Len(p) > MinDepth)
  BY <1>1, <1>2, Itself DEF GrantPath
<1>3. CASE p \notin Dirs /\ Len(p) > MinDepth
  <2>1. GrantPath(p) = Front(p)
    BY <1>3 DEF GrantPath
  <2>2. PICK n \in Nat : Len(p) = n + 1
    <3>1. MinDepth \in Nat
      BY LayersAssumption
    <3>2. Len(p) - 1 \in Nat /\ Len(p) = (Len(p) - 1) + 1
      BY <1>1, <1>3, <3>1
    <3> QED
      BY <3>2
  <2>3. p # <<>>
    <3>1. n + 1 # 0 /\ Len(<<>>) = 0
      OBVIOUS
    <3> QED
      BY <2>2, <3>1
  <2>4. Front(p) \in Paths
    BY <2>3, PathsAssumption
  <2> DEFINE c == SubSeq(p, 1, n)
  <2>5. Front(p) = c
    <3>1. (n + 1) - 1 = n
      OBVIOUS
    <3> QED
      BY <2>2, <3>1 DEF Front
  <2>6. \A i \in 1..n : p[i] \in ToSet(p)
    BY <1>1, <2>2, ElementOfSeq
  <2>7. /\ 1 \in Int /\ n \in Int /\ n - 1 + 1 = n /\ \A i \in 1..n : 1 + i - 1 = i
    OBVIOUS
  <2>8. /\ c \in Seq(ToSet(p)) /\ Len(c) = IF 1 <= n THEN n - 1 + 1 ELSE 0
        /\ \A i \in 1..n - 1 + 1 : c[i] = p[1 + i - 1]
    BY <2>6, <2>7, SubSeqProperties
  <2> HIDE DEF c
  <2>9. Len(c) = n /\ \A i \in 1..n : c[i] = p[i]
    BY <2>7, <2>8
  <2>10. Under(p, c)
    <3>1. n <= Len(p)
      BY <2>2
    <3>2. Len(c) <= Len(p) /\ \A i \in 1..Len(c) : c[i] = p[i]
      BY <2>9, <3>1
    <3> QED
      BY <1>1, <2>8, <3>2, UnderIs
  <2> QED
    BY <1>1, <1>3, <2>1, <2>2, <2>4, <2>5, <2>9, <2>10
<1> QED
  BY <1>2, <1>3

\* Shorter sources first, no bind comes before one that its source is in.
Ordered(s) == \A i, j \in DOMAIN s : i < j => ~Under(s[i].source, s[j].source)

Apart(B) == \A b, c \in B : b.source = c.source => b = c

LEMMA OrderExists ==
    ASSUME NEW B \in SUBSET Binds, IsFiniteSet(B), Apart(B)
    PROVE  \E s \in SetToSeqs(B) : Ordered(s)
<1> DEFINE Orderly(C) == \E s \in SetToSeqs(C) : Ordered(s)
           Small(n) == {C \in SUBSET B : IsFiniteSet(C) /\ Cardinality(C) = n}
           T == {n \in Nat : \A C \in Small(n) : Orderly(C)}
<1>1. 0 \in T
  <2> SUFFICES ASSUME NEW C \in Small(0) PROVE Orderly(C)
    OBVIOUS
  <2>1. Cardinality(C) = 0
    OBVIOUS
  <2>2. 1..0 = {}
    OBVIOUS
  <2> DEFINE s == [i \in 1..0 |-> C]
  <2>3. s \in SetToSeqs(C) /\ Ordered(s)
    BY <2>1, <2>2 DEF SetToSeqs, Ordered
  <2> QED
    BY <2>3
<1>2. ASSUME NEW n \in Nat, n \in T PROVE n + 1 \in T
  <2> SUFFICES ASSUME NEW C \in Small(n + 1) PROVE Orderly(C)
    OBVIOUS
  <2>1. C \subseteq B /\ IsFiniteSet(C) /\ Cardinality(C) = n + 1
    OBVIOUS
  <2>2. \A b \in C : b.source \in Paths /\ Len(b.source) \in Nat
    <3>1. \A b \in C : b.source \in Paths
      BY <2>1 DEF Binds
    <3> QED
      BY <3>1, PathSize
  <2> DEFINE L == {Len(b.source) : b \in C}
  <2>3. C # {}
    <3>1. n + 1 # 0
      OBVIOUS
    <3> QED
      BY <2>1, <3>1, FS_EmptySet
  <2>4. L \in SUBSET Nat /\ L # {}
    BY <2>2, <2>3
  <2>5. PICK x \in L : \A y \in L : x <= y
    BY <2>4, LeastExists
  <2>6. PICK b \in C : x = Len(b.source)
    BY <2>5
  <2>7. \A c \in C : Len(b.source) <= Len(c.source)
    BY <2>5, <2>6
  <2> DEFINE D == C \ {b}
  <2>8. D \in Small(n)
    <3>1. IsFiniteSet(D) /\ Cardinality(D) = (n + 1) - 1
      BY <2>1, <2>6, FS_RemoveElement
    <3> QED
      BY <2>1, <3>1
  <2>9. Orderly(D)
    BY <1>2, <2>8
  <2>10. PICK s \in SetToSeqs(D) : Ordered(s)
    BY <2>9
  <2>11. s \in [1..n -> D] /\ \A i, j \in 1..n : i # j => s[i] # s[j]
    BY <2>8, <2>10 DEF SetToSeqs
  <2>12. \A i, j \in 1..n : i < j => ~Under(s[i].source, s[j].source)
    BY <2>10, <2>11 DEF Ordered
  <2> HIDE DEF L, D, T, Small
  <2> DEFINE t == [i \in 1..n + 1 |-> IF i = 1 THEN b ELSE s[i - 1]]
  <2>13. /\ 1 \in 1..n + 1 /\ \A i \in 1..n + 1 : i = 1 \/ (i # 1 /\ i - 1 \in 1..n /\ 1 < i)
         /\ \A i, j \in 1..n + 1 : /\ i < j => j # 1
                                   /\ i < j /\ i # 1 => i - 1 < j - 1
                                   /\ i # j /\ i # 1 /\ j # 1 => i - 1 # j - 1
    OBVIOUS
  <2>14. /\ t[1] = b /\ \A i \in 1..n + 1 : i # 1 => t[i] = s[i - 1]
         /\ t = [i \in 1..n + 1 |-> t[i]] /\ DOMAIN t = 1..n + 1
    BY <2>13
  <2> HIDE DEF t
  <2>15. \A i \in 1..n + 1 : i # 1 => t[i] \in D
    BY <2>11, <2>13, <2>14
  <2>16. \A i \in 1..n + 1 : t[i] \in C
    BY <2>6, <2>14, <2>15 DEF D
  <2>17. ASSUME NEW i \in 1..n + 1, NEW j \in 1..n + 1, i # j PROVE t[i] # t[j]
    <3>1. CASE i = 1
      BY <2>14, <2>15, <2>17, <3>1 DEF D
    <3>2. CASE j = 1
      BY <2>14, <2>15, <2>17, <3>2 DEF D
    <3>3. CASE i # 1 /\ j # 1
      BY <2>11, <2>13, <2>14, <2>17, <3>3
    <3> QED
      BY <3>1, <3>2, <3>3
  <2>18. t \in SetToSeqs(C)
    <3>1. t \in [1..n + 1 -> C]
      BY <2>14, <2>16
    <3> QED
      BY <2>1, <2>17, <3>1 DEF SetToSeqs
  <2>19. ASSUME NEW i \in 1..n + 1, NEW j \in 1..n + 1, i < j PROVE ~Under(t[i].source, t[j].source)
    <3>1. CASE i = 1
      <4>1. t[i] = b /\ t[j] \in D /\ t[j] \in C
        BY <2>13, <2>14, <2>15, <2>16, <2>19, <3>1
      <4>2. b.source # t[j].source
        BY <2>1, <2>6, <4>1 DEF Apart, D
      <4>3. Len(b.source) <= Len(t[j].source)
        BY <2>7, <4>1
      <4>4. b.source \in Paths /\ t[j].source \in Paths
        BY <2>2, <2>6, <4>1
      <4> SUFFICES ASSUME Under(b.source, t[j].source) PROVE FALSE
        BY <4>1
      <4>5. PICK k \in Nat, m \in Nat : k = Len(b.source) /\ m = Len(t[j].source) /\ m < k
        BY <4>2, <4>4, Longer
      <4>6. k <= m
        BY <4>3, <4>5
      <4>7. m < k
        BY <4>5
      <4> QED
        BY <4>6, <4>7
    <3>2. CASE i # 1
      BY <2>12, <2>13, <2>14, <2>19, <3>2
    <3> QED
      BY <3>1, <3>2
  <2>20. Ordered(t)
    BY <2>14, <2>19 DEF Ordered
  <2> QED
    BY <2>18, <2>20
<1> HIDE DEF T
<1>3. Cardinality(B) \in T
  <2>1. Cardinality(B) \in Nat
    BY FS_CardinalityType
  <2> QED
    BY <1>1, <1>2, <2>1, Induction
<1>4. Orderly(B)
  BY <1>3 DEF T
<1> QED
  BY <1>4

\* One bind for each path that is suggested, writable if something written is in it.
LEMMA SuggestedBindsAre ==
    ASSUME NEW denied \in SUBSET Accesses, IsFiniteSet(denied)
    PROVE  LET B == SuggestedBinds(denied)
           IN  /\ B \subseteq Binds /\ IsFiniteSet(B) /\ Apart(B)
               /\ \A b \in B : \E a \in denied : b.source = GrantPath(a.path)
               /\ \A a \in denied : Len(GrantPath(a.path)) > TopDepth =>
                    \E b \in B : b.source = GrantPath(a.path) /\ (a.mode = "rw" => b.mode = "rw")
<1> DEFINE grouped == {[path |-> GrantPath(a.path), mode |-> a.mode] : a \in denied}
           mode(path) == IF [path |-> path, mode |-> "rw"] \in grouped THEN "rw" ELSE "ro"
           bind(path) == [source |-> path, mode |-> mode(path), optional |-> TRUE]
           deep == {g \in grouped : Len(g.path) > TopDepth}
           large == {a \in denied : Len(GrantPath(a.path)) > TopDepth}
           B == SuggestedBinds(denied)
           f == [a \in large |-> bind(GrantPath(a.path))]
<1>1. B = {bind(path) : path \in {g.path : g \in deep}}
  BY DEF SuggestedBinds
<1>2. {g.path : g \in deep} = {GrantPath(a.path) : a \in large}
  <2>1. ASSUME NEW a \in large PROVE \E g \in deep : g.path = GrantPath(a.path)
    <3> DEFINE g == [path |-> GrantPath(a.path), mode |-> a.mode]
    <3>1. g \in grouped /\ g.path = GrantPath(a.path) /\ Len(GrantPath(a.path)) > TopDepth
      OBVIOUS
    <3> HIDE DEF g, grouped
    <3> QED
      BY <3>1
  <2>2. ASSUME NEW g \in deep PROVE \E a \in large : g.path = GrantPath(a.path)
    <3>1. PICK a \in denied : g = [path |-> GrantPath(a.path), mode |-> a.mode]
      OBVIOUS
    <3>2. g.path = GrantPath(a.path) /\ Len(g.path) > TopDepth
      BY <3>1
    <3> QED
      BY <3>2
  <2> HIDE DEF deep, large
  <2> QED
    BY <2>1, <2>2
<1>3. \A a \in denied : GrantPath(a.path) \in Paths
  BY GrantPathIs DEF Accesses
<1>4. \A path : mode(path) \in Modes
  BY DEF Modes
<1>5. \A a \in denied : a.mode = "rw" => mode(GrantPath(a.path)) = "rw"
  OBVIOUS
<1> HIDE DEF mode, grouped
<1>6. \A path : bind(path).source = path /\ bind(path).mode = mode(path)
  OBVIOUS
<1>7. \A path \in Paths : bind(path) \in Binds
  BY <1>4 DEF Binds
<1> HIDE DEF bind, deep
<1>8. B = {bind(GrantPath(a.path)) : a \in large}
  BY <1>1, <1>2
<1>9. \A a \in large : f[a] = bind(GrantPath(a.path))
  OBVIOUS
<1> HIDE DEF B, f
<1>10. f \in [large -> B]
  BY <1>8 DEF f
<1>11. IsFiniteSet(B)
  <2>1. \A b \in B : \E a \in large : f[a] = b
    BY <1>8, <1>9
  <2>2. f \in Surjection(large, B)
    BY <1>10, <2>1 DEF Surjection
  <2>3. IsFiniteSet(large)
    BY FS_Subset
  <2> QED
    BY <2>2, <2>3, FS_Surjection
<1>12. B \subseteq Binds
  BY <1>3, <1>7, <1>8
<1>13. Apart(B)
  BY <1>6, <1>8 DEF Apart
<1>14. \A b \in B : \E a \in denied : b.source = GrantPath(a.path)
  BY <1>6, <1>8
<1>15. ASSUME NEW a \in denied, Len(GrantPath(a.path)) > TopDepth
       PROVE  \E b \in B : b.source = GrantPath(a.path) /\ (a.mode = "rw" => b.mode = "rw")
  <2>1. bind(GrantPath(a.path)) \in B
    BY <1>8, <1>15
  <2> QED
    BY <1>5, <1>6, <2>1
<1> QED
  BY <1>11, <1>12, <1>13, <1>14, <1>15 DEF B

LEMMA SuggestedIs ==
    ASSUME NEW denied \in SUBSET Accesses, IsFiniteSet(denied)
    PROVE  LET s == Suggested(denied)
           IN  /\ s \in Seq(Binds) /\ Ordered(s)
               /\ \A i, j \in 1..Len(s) : s[i].source = s[j].source => i = j
               /\ \A i \in 1..Len(s) : \E a \in denied : s[i].source = GrantPath(a.path)
               /\ \A a \in denied : Len(GrantPath(a.path)) > TopDepth =>
                    \E i \in 1..Len(s) : s[i].source = GrantPath(a.path) /\ (a.mode = "rw" => s[i].mode = "rw")
<1> DEFINE B == SuggestedBinds(denied)
           s == Suggested(denied)
           n == Cardinality(B)
<1>1. /\ B \subseteq Binds /\ IsFiniteSet(B) /\ Apart(B)
      /\ \A b \in B : \E a \in denied : b.source = GrantPath(a.path)
      /\ \A a \in denied : Len(GrantPath(a.path)) > TopDepth =>
           \E b \in B : b.source = GrantPath(a.path) /\ (a.mode = "rw" => b.mode = "rw")
  BY SuggestedBindsAre
<1>2. s = CHOOSE t \in SetToSeqs(B) : Ordered(t)
  BY DEF Suggested, Ordered
<1> HIDE DEF B, s
<1>3. s \in SetToSeqs(B) /\ Ordered(s)
  <2>1. \E t \in SetToSeqs(B) : Ordered(t)
    BY <1>1, OrderExists
  <2> QED
    BY <1>2, <2>1
<1>4. n \in Nat
  BY <1>1, FS_CardinalityType
<1>5. s \in [1..n -> B] /\ \A i, j \in 1..n : i # j => s[i] # s[j]
  BY <1>3 DEF SetToSeqs
<1>6. s \in [1..n -> Binds]
  BY <1>1, <1>5
<1> HIDE DEF n
<1>7. s \in Seq(Binds) /\ Len(s) = n
  BY <1>4, <1>6, FunIsSeq
<1>8. \A b \in B : \E i \in 1..n : s[i] = b
  <2>1. s \in Injection(1..n, B)
    BY <1>5 DEF Injection, IsInjective
  <2>2. IsFiniteSet(1..n) /\ Cardinality(1..n) = n
    <3>1. 1 \in Int /\ n \in Int
      BY <1>4
    <3>2. IsFiniteSet(1..n) /\ Cardinality(1..n) = IF 1 > n THEN 0 ELSE n - 1 + 1
      BY <3>1, FS_Interval
    <3>3. (IF 1 > n THEN 0 ELSE n - 1 + 1) = n
      BY <1>4
    <3> QED
      BY <3>2, <3>3
  <2>3. s \in Surjection(1..n, B)
    BY <1>1, <2>1, <2>2, FS_Injection DEF n
  <2> QED
    BY <2>3 DEF Surjection
<1>9. ASSUME NEW i \in 1..n, NEW j \in 1..n, s[i].source = s[j].source PROVE i = j
  <2>1. s[i] \in B /\ s[j] \in B
    BY <1>5
  <2>2. s[i] = s[j]
    BY <1>1, <1>9, <2>1 DEF Apart
  <2> QED
    BY <1>5, <2>2
<1>10. \A i \in 1..n : \E a \in denied : s[i].source = GrantPath(a.path)
  BY <1>1, <1>5
<1>11. \A a \in denied : Len(GrantPath(a.path)) > TopDepth =>
         \E i \in 1..n : s[i].source = GrantPath(a.path) /\ (a.mode = "rw" => s[i].mode = "rw")
  BY <1>1, <1>8
<1> QED
  BY <1>3, <1>7, <1>9, <1>10, <1>11 DEF s

-----------------------------------------------------------------------------
(* The request with the suggested profile, against the request without it. *)

\* The suggestions come after the layers, and all else after both.
LEMMA RetriedIs ==
    ASSUME MountsInv, stage = "reported"
    PROVE  /\ Typed(request) /\ Typed(Retried) /\ report.denied \in SUBSET Accesses /\ IsFiniteSet(report.denied)
           /\ Retried.binds = request.binds
           /\ Layered(Retried) = AddAll(Layered(request), Suggested(report.denied), request.override)
           /\ \A p : WithProject(Retried, p) = WithProject(request, p)
<1>1. Typed(request) /\ request \in Requests
  BY RequestTyped DEF MountsInv
<1>2. report.denied \in SUBSET Accesses /\ IsFiniteSet(report.denied)
  <2>1. report.denied \subseteq ToSet(accesses) /\ accesses \in Seq(Accesses)
    BY DEF MountsInv, Denied
  <2>2. PICK n \in Nat : n = Len(accesses) /\ accesses \in [1..n -> Accesses]
    BY <2>1, LenProperties
  <2>3. ToSet(accesses) = {accesses[i] : i \in 1..n}
    BY <2>2 DEF ToSet
  <2>4. accesses \in Surjection(1..n, ToSet(accesses))
    BY <2>2, <2>3 DEF Surjection
  <2>5. IsFiniteSet(1..n)
    <3>1. 1 \in Int /\ n \in Int
      BY <2>2
    <3> QED
      BY <3>1, FS_Interval
  <2>6. IsFiniteSet(ToSet(accesses))
    BY <2>4, <2>5, FS_Surjection
  <2> QED
    BY <2>1, <2>2, <2>3, <2>6, FS_Subset
<1> DEFINE s == Suggested(report.denied)
<1>3. s \in Seq(Binds)
  BY <1>2, SuggestedIs
<1> HIDE DEF s
<1>4. /\ Retried.base = request.base /\ Retried.profiles = request.profiles \o s
      /\ Retried.binds = request.binds /\ Retried.bind_project = request.bind_project
      /\ Retried.override = request.override /\ Retried.proxied = request.proxied
      /\ Retried.cwd = request.cwd
  BY <1>1, LayersAssumption DEF Retried, s
<1>5. request.profiles \o s \in Seq(Binds)
  BY <1>1, <1>3, ConcatProperties DEF Typed
<1>6. Typed(Retried)
  BY <1>1, <1>4, <1>5 DEF Typed
<1>7. None(Retried) = None(request)
  BY <1>4 DEF None
<1>8. Layered(Retried) = AddAll(Layered(request), s, request.override)
  <2>1. request.base.binds \in Seq(Binds) /\ request.profiles \in Seq(Binds)
    BY <1>1 DEF Typed
  <2> DEFINE first == request.base.binds \o request.profiles
  <2>2. first \in Seq(Binds)
    BY <2>1, ConcatProperties
  <2>3. request.base.binds \o (request.profiles \o s) = first \o s
    <3>1. \A x, y, z \in Seq(Binds) : x \o (y \o z) = (x \o y) \o z
      BY ConcatAssociative
    <3> QED
      BY <1>3, <2>1, <3>1
  <2>4. Layered(Retried) = AddAll(None(request), request.base.binds \o (request.profiles \o s), request.override)
    BY <1>4, <1>7 DEF Layered
  <2>5. Layered(request) = AddAll(None(request), first, request.override)
    BY DEF Layered
  <2> HIDE DEF first
  <2> QED
    BY <1>3, <2>2, <2>3, <2>4, <2>5, AddedTwice
<1> QED
  BY <1>1, <1>2, <1>4, <1>6, <1>8 DEF WithProject, s

\* What is merged before the request's own binds, as a list.
ProjectBinds(r) == IF r.bind_project THEN <<ProjectBind>> ELSE <<>>

LEMMA ProjectAdded ==
    ASSUME NEW r, NEW p \in Policies, Distinct(p)
    PROVE  /\ ProjectBinds(r) \in Seq(Binds)
           /\ \A i \in 1..Len(ProjectBinds(r)) : r.bind_project /\ ProjectBinds(r)[i] = ProjectBind
           /\ Adds(p, ProjectBinds(r), Len(ProjectBinds(r)), TRUE, WithProject(r, p))
<1>1. ProjectBind \in Binds
  BY PathsAssumption DEF Binds, Modes, ProjectBind
<1>2. CASE r.bind_project
  <2> DEFINE one == <<ProjectBind>>
  <2>1. one \in Seq(Binds) /\ Len(one) = 1 /\ one[1] = ProjectBind
    BY <1>1, OneVal
  <2>2. ProjectBinds(r) = one /\ WithProject(r, p) = Merged(p, ProjectBind, TRUE)
    BY <1>2 DEF ProjectBinds, WithProject
  <2> HIDE DEF one
  <2>3. Adds(p, one, 0, TRUE, p)
    BY NoneAdded
  <2>4. PICK k \in Nat : k = 0
    OBVIOUS
  <2>5. k < Len(one) /\ k + 1 = 1
    BY <2>1, <2>4
  <2>6. Adds(p, one, k + 1, TRUE, Merged(p, one[k + 1], TRUE))
    BY <2>1, <2>3, <2>4, <2>5, MoreAdded
  <2>7. Adds(p, one, 1, TRUE, Merged(p, ProjectBind, TRUE))
    BY <2>1, <2>5, <2>6
  <2>8. \A i \in 1..1 : i = 1
    OBVIOUS
  <2> QED
    BY <1>2, <2>1, <2>2, <2>7, <2>8
<1>3. CASE ~r.bind_project
  <2>1. ProjectBinds(r) = <<>> /\ WithProject(r, p) = p /\ Len(<<>>) = 0 /\ 1..0 = {}
    BY <1>3 DEF ProjectBinds, WithProject
  <2>2. Adds(p, <<>>, 0, TRUE, p)
    BY NoneAdded
  <2>3. <<>> \in Seq(Binds)
    BY EmptySeq
  <2> QED
    BY <2>1, <2>2, <2>3
<1> QED
  BY <1>2, <1>3

\* The layers of a request, and what is added to them.
LEMMA LayersAdded ==
    ASSUME NEW r, Typed(r)
    PROVE  /\ Layered(r) \in Policies /\ Distinct(Layered(r))
           /\ LET p == WithProject(r, Layered(r))
              IN  /\ Adds(Layered(r), ProjectBinds(r), Len(ProjectBinds(r)), TRUE, p)
                  /\ Adds(p, r.binds, Len(r.binds), TRUE, Resolved(r))
<1> DEFINE p == WithProject(r, Layered(r))
<1>1. /\ None(r) \in Policies /\ r.base.binds \o r.profiles \in Seq(Binds)
      /\ Layered(r) \in Policies /\ p \in Policies /\ Resolved(r) = AddAll(p, r.binds, TRUE)
  BY ResolvedType
<1>2. Distinct(None(r))
  <2>1. None(r).binds = <<>>
    BY DEF None
  <2> QED
    BY <2>1 DEF Distinct
<1>3. Distinct(Layered(r))
  <2>1. r.override \in BOOLEAN
    BY DEF Typed
  <2> QED
    BY <1>1, <1>2, <2>1, AllAdded DEF Adds, Layered
<1>4. Adds(Layered(r), ProjectBinds(r), Len(ProjectBinds(r)), TRUE, p)
  BY <1>1, <1>3, ProjectAdded
<1>5. Distinct(p) /\ r.binds \in Seq(Binds)
  BY <1>4 DEF Adds, Typed
<1> HIDE DEF p
<1>6. Adds(p, r.binds, Len(r.binds), TRUE, Resolved(r))
  BY <1>1, <1>5, AllAdded
<1> QED
  BY <1>1, <1>3, <1>4, <1>6 DEF p

-----------------------------------------------------------------------------
(* The suggested profile does what it was suggested for.                   *)

\* The bind that is suggested for an access is there the next time, and writable if
\* it was to be.
LEMMA Included ==
    ASSUME MountsInv, stage = "reported", Resolved(Retried).ok, NEW a \in report.denied,
           Len(GrantPath(a.path)) > TopDepth
    PROVE  \E i \in DOMAIN Layered(Retried).binds :
             /\ Layered(Retried).binds[i].source = GrantPath(a.path)
             /\ a.mode = "rw" => Layered(Retried).binds[i].mode = "rw"
<1> DEFINE s == Suggested(report.denied)
           two == Layered(Retried)
           most == WithProject(Retried, two)
<1>1. /\ Typed(request) /\ Typed(Retried) /\ report.denied \in SUBSET Accesses /\ IsFiniteSet(report.denied)
      /\ two = AddAll(Layered(request), s, request.override)
  BY RetriedIs
<1>2. two.ok
  <2>1. Adds(two, ProjectBinds(Retried), Len(ProjectBinds(Retried)), TRUE, most)
        /\ Adds(most, Retried.binds, Len(Retried.binds), TRUE, Resolved(Retried))
    BY <1>1, LayersAdded
  <2> QED
    BY <2>1 DEF Adds
<1>3. /\ s \in Seq(Binds)
      /\ \A i, j \in 1..Len(s) : s[i].source = s[j].source => i = j
      /\ \A b \in report.denied : Len(GrantPath(b.path)) > TopDepth =>
           \E i \in 1..Len(s) : s[i].source = GrantPath(b.path) /\ (b.mode = "rw" => s[i].mode = "rw")
  BY <1>1, SuggestedIs
<1>4. Adds(Layered(request), s, Len(s), request.override, two)
  <2>1. Layered(request) \in Policies /\ Distinct(Layered(request)) /\ request.override \in BOOLEAN
    BY <1>1, LayersAdded DEF Typed
  <2> QED
    BY <1>1, <1>3, <2>1, AllAdded
<1> HIDE DEF s, two
<1>5. PICK l \in 1..Len(s) : s[l].source = GrantPath(a.path) /\ (a.mode = "rw" => s[l].mode = "rw")
  BY <1>3
<1>6. PICK i \in DOMAIN two.binds :
        /\ two.binds[i].source = s[l].source
        /\ (\A m \in l + 1..Len(s) : s[m].source # s[l].source) /\ two.ok => two.binds[i].mode = s[l].mode
  BY <1>4 DEF Adds, Arrives
<1>7. \A m \in l + 1..Len(s) : s[m].source # s[l].source
  <2> SUFFICES ASSUME NEW m \in l + 1..Len(s), s[m].source = s[l].source PROVE FALSE
    OBVIOUS
  <2>1. m \in 1..Len(s) /\ m # l
    BY <1>3, LenProperties
  <2> QED
    BY <1>3, <2>1
<1> QED
  BY <1>2, <1>5, <1>6, <1>7 DEF two

\* A later bind over the path that is not the request's own is writable as well.
LEMMA Uppermost ==
    ASSUME MountsInv, stage = "reported", Resolved(Retried).ok, NEW a \in report.denied,
           a.mode = "rw", ~Hindered(a),
           NEW i \in DOMAIN Layered(Retried).binds,
           Layered(Retried).binds[i].source = GrantPath(a.path), Layered(Retried).binds[i].mode = "rw",
           NEW k \in DOMAIN Resolved(Retried).binds, i <= k,
           Under(a.path, Resolved(Retried).binds[k].source), Resolved(Retried).binds[k].source \in Host
    PROVE  Resolved(Retried).binds[k].mode = "rw"
<1> DEFINE path == a.path
           g == GrantPath(path)
           own == request.binds
           s == Suggested(report.denied)
           proj == ProjectBinds(Retried)
           one == Layered(request)
           two == Layered(Retried)
           most == WithProject(Retried, two)
           run == Resolved(Retried)
           root == run.binds[k].source
<1>1. /\ Typed(request) /\ Typed(Retried) /\ report.denied \in SUBSET Accesses /\ IsFiniteSet(report.denied)
      /\ Retried.binds = own /\ two = AddAll(one, s, request.override)
      /\ policy = Resolved(request)
  BY RetriedIs DEF MountsInv
<1>2. /\ path \in Touched /\ path \in Paths /\ g \in Paths /\ Under(path, g)
      /\ g = path \/ (path \notin Dirs /\ Len(path) = Len(g) + 1)
  <2>1. path \in Touched
    BY <1>1 DEF Accesses
  <2> QED
    BY <2>1, GrantPathIs
<1>3. /\ s \in Seq(Binds) /\ Ordered(s)
      /\ \A l \in 1..Len(s) : \E b \in report.denied : s[l].source = GrantPath(b.path)
  BY <1>1, SuggestedIs
<1>4. /\ \A x \in DOMAIN own : ~Under(path, own[x].source)
      /\ request.override => \A x \in DOMAIN policy.binds : policy.binds[x].source # g
      /\ path \in Host \ Dirs => \A b \in report.denied : b.path # path => ~Under(b.path, path)
  BY DEF Hindered
<1>5. /\ Adds(two, proj, Len(proj), TRUE, most) /\ Adds(most, own, Len(own), TRUE, run)
      /\ Distinct(most)
  <2>1. Adds(two, proj, Len(proj), TRUE, most) /\ Adds(most, Retried.binds, Len(Retried.binds), TRUE, run)
    BY <1>1, LayersAdded
  <2> QED
    BY <1>1, <2>1 DEF Adds
<1>6. \A l \in 1..Len(proj) : Retried.bind_project /\ proj[l] = ProjectBind
  <2>1. two \in Policies /\ Distinct(two)
    BY <1>1, LayersAdded
  <2> QED
    BY <2>1, ProjectAdded
<1>7. one \in Policies /\ Distinct(one) /\ Adds(one, s, Len(s), request.override, two)
  <2>1. one \in Policies /\ Distinct(one) /\ request.override \in BOOLEAN
    BY <1>1, LayersAdded DEF Typed
  <2> QED
    BY <1>1, <1>3, <2>1, AllAdded
<1>8. two \in Policies /\ most \in Policies /\ run \in Policies /\ run.ok /\ most.ok /\ two.ok
  BY <1>5, <1>7 DEF Adds
<1>9. \A l \in 1..Len(own) : ~Under(path, own[l].source)
  <2>1. own \in Seq(Binds)
    BY <1>1 DEF Typed
  <2>2. DOMAIN own = 1..Len(own)
    BY <2>1, LenProperties
  <2> QED
    BY <1>4, <2>2
<1>10. Under(path, root) /\ root \in Host /\ root \in Paths
  BY PathsAssumption
<1> HIDE DEF path, g, own, s, proj, one, two, most, run, root
\* It is none of the request's own.
<1>11. k \in DOMAIN most.binds /\ most.binds[k].source = root /\ most.binds[k].mode = run.binds[k].mode
  <2>1. k \in DOMAIN most.binds
    <3> SUFFICES ASSUME k \in DOMAIN run.binds \ DOMAIN most.binds PROVE FALSE
      BY DEF run
    <3>1. PICK l \in 1..Len(own) : own[l].source = root
      BY <1>5 DEF Adds, Follows, root
    <3> QED
      BY <1>9, <1>10, <3>1
  <2>2. /\ run.binds[k].source = most.binds[k].source
        /\ \/ run.binds[k].mode = most.binds[k].mode
           \/ \E l \in 1..Len(own) : own[l].source = most.binds[k].source
    BY <1>5, <2>1 DEF Adds, Stays
  <2> QED
    BY <1>9, <1>10, <2>1, <2>2 DEF root
\* If it is the project's, it is writable.
<1>12. CASE \E l \in 1..Len(proj) : proj[l].source = root
  <2>1. PICK l \in 1..Len(proj) : proj[l].source = root
    BY <1>12
  <2>2. PICK x \in DOMAIN most.binds :
          /\ most.binds[x].source = proj[l].source
          /\ (\A m \in l + 1..Len(proj) : proj[m].source # proj[l].source) /\ most.ok => most.binds[x].mode = proj[l].mode
    BY <1>5 DEF Adds, Arrives
  <2>3. x = k
    BY <1>5, <1>11, <2>1, <2>2 DEF Distinct
  <2>4. \A m \in l + 1..Len(proj) : FALSE
    <3>1. Len(proj) = 0 \/ Len(proj) = 1
      BY DEF proj, ProjectBinds
    <3>2. PICK c \in 0..1 : c = Len(proj)
      BY <3>1
    <3>3. l \in 1..c /\ \A m \in l + 1..c : FALSE
      BY <2>1, <3>2
    <3> QED
      BY <3>2, <3>3
  <2>5. proj[l].mode = "rw"
    BY <1>6 DEF ProjectBind
  <2> QED
    BY <1>8, <1>11, <2>2, <2>3, <2>4, <2>5 DEF run
\* Otherwise it is of the layers or of the suggestions.
<1>13. CASE \A l \in 1..Len(proj) : proj[l].source # root
  <2>1. k \in DOMAIN two.binds
    <3> SUFFICES ASSUME k \in DOMAIN most.binds \ DOMAIN two.binds PROVE FALSE
      BY <1>11
    <3>1. PICK l \in 1..Len(proj) : proj[l].source = most.binds[k].source
      BY <1>5 DEF Adds, Follows
    <3> QED
      BY <1>11, <1>13, <3>1
  <2>2. two.binds[k].source = root /\ two.binds[k].mode = run.binds[k].mode
    <3>1. /\ most.binds[k].source = two.binds[k].source
          /\ \/ most.binds[k].mode = two.binds[k].mode
             \/ \E l \in 1..Len(proj) : proj[l].source = two.binds[k].source
      BY <1>5, <2>1 DEF Adds, Stays
    <3> QED
      BY <1>11, <1>13, <3>1
  <2>3. i \in DOMAIN two.binds /\ two.binds[i].source = g /\ two.binds[i].mode = "rw"
    BY DEF two, g, path
  <2>4. /\ DOMAIN two.binds = 1..Len(two.binds) /\ DOMAIN one.binds = 1..Len(one.binds)
        /\ Len(two.binds) \in Nat /\ Len(one.binds) \in Nat
    BY <1>7, <1>8, BindType
  <2>5. i \notin DOMAIN one.binds
    <3> SUFFICES ASSUME i \in DOMAIN one.binds PROVE FALSE
      OBVIOUS
    <3> DEFINE mid == WithProject(request, one)
               pr == ProjectBinds(request)
    <3>1. Adds(one, pr, Len(pr), TRUE, mid) /\ Adds(mid, own, Len(own), TRUE, policy)
      BY <1>1, LayersAdded DEF one, own
    <3>2. \A l \in 1..Len(pr) : pr[l] = ProjectBind
      BY <1>7, ProjectAdded
    <3> HIDE DEF mid, pr
    <3>3. /\ two.binds[i].source = one.binds[i].source
          /\ two.binds[i].mode = one.binds[i].mode \/ request.override
      BY <1>7 DEF Adds, Stays
    <3>4. i \in DOMAIN mid.binds /\ i \in DOMAIN policy.binds
      <4>1. Len(one.binds) <= Len(mid.binds) /\ Len(mid.binds) <= Len(policy.binds)
        BY <3>1 DEF Adds, Stays
      <4>2. mid \in Policies /\ policy \in Policies
        BY <3>1 DEF Adds
      <4>3. /\ DOMAIN mid.binds = 1..Len(mid.binds) /\ Len(mid.binds) \in Nat
            /\ DOMAIN policy.binds = 1..Len(policy.binds) /\ Len(policy.binds) \in Nat
        BY <4>2, BindType
      <4> QED
        BY <2>4, <4>1, <4>3
    <3>5. /\ mid.binds[i].source = one.binds[i].source
          /\ \/ mid.binds[i].mode = one.binds[i].mode
             \/ \E l \in 1..Len(pr) : mid.binds[i].mode = pr[l].mode
      BY <3>1 DEF Adds, Stays
    <3>6. /\ policy.binds[i].source = mid.binds[i].source
          /\ \/ policy.binds[i].mode = mid.binds[i].mode
             \/ \E l \in 1..Len(own) : own[l].source = mid.binds[i].source
      BY <3>1, <3>4 DEF Adds, Stays
    <3>7. policy.binds[i].source = g /\ ~request.override
      BY <1>4, <2>3, <3>3, <3>4, <3>5, <3>6
    <3>8. policy.binds[i].mode = "rw"
      <4>1. one.binds[i].mode = "rw"
        BY <2>3, <3>3, <3>7
      <4>2. mid.binds[i].mode = "rw"
        BY <3>2, <3>5, <4>1 DEF ProjectBind
      <4> QED
        BY <1>2, <1>9, <3>6, <3>7, <4>2
    <3>9. Granted(a, policy)
      BY <1>2, <3>4, <3>7, <3>8 DEF Granted, path
    <3> QED
      BY <3>9 DEF MountsInv, Denied
  <2>6. CASE k = i
    BY <2>2, <2>3, <2>6 DEF run
  <2>7. CASE k # i
    <3>1. i < k /\ k \notin DOMAIN one.binds
      BY <2>1, <2>3, <2>4, <2>5, <2>7
    <3>2. PICK l \in 1..Len(s) : /\ s[l].source = g
                                 /\ \A m \in 1..Len(s) : s[m].source = root => l < m
      BY <1>7, <2>1, <2>2, <2>3, <2>5, <3>1 DEF Adds, Follows
    <3>3. PICK m \in 1..Len(s) : s[m].source = root
      BY <1>7, <2>1, <2>2, <3>1 DEF Adds, Follows
    <3>4. ~Under(g, root)
      <4>1. DOMAIN s = 1..Len(s) /\ l < m
        BY <1>3, <3>2, <3>3, LenProperties
      <4> QED
        BY <1>3, <3>2, <3>3, <4>1 DEF Ordered
    <3>5. g # path /\ path \notin Dirs /\ Len(path) = Len(g) + 1
      BY <1>2, <1>10, <3>4
    <3>6. PICK x \in Nat, y \in Nat, z \in Nat : x = Len(path) /\ y = Len(g) /\ z = Len(root)
      BY <1>2, <1>10, PathSize
    <3>7. ~(z <= y) /\ x = y + 1
      BY <1>2, <1>10, <3>4, <3>5, <3>6, Nested
    <3>8. root = path
      <4> SUFFICES ASSUME root # path PROVE FALSE
        OBVIOUS
      <4>1. z < x
        BY <1>2, <1>10, <3>6, Longer
      <4> QED
        BY <3>7, <4>1
    <3>9. PICK b \in report.denied : root = GrantPath(b.path)
      BY <1>3, <3>3
    <3>10. b.path # path
      BY <3>5, <3>8, <3>9 DEF g
    <3>11. Under(b.path, path)
      <4>1. b.path \in Touched
        BY <1>1 DEF Accesses
      <4> QED
        BY <3>8, <3>9, <4>1, GrantPathIs
    <3> QED
      BY <1>4, <1>10, <3>5, <3>8, <3>10, <3>11
  <2> QED
    BY <2>6, <2>7
<1> QED
  BY <1>12, <1>13

-----------------------------------------------------------------------------
(* The properties.                                                         *)

\* Whatever the layers, every bind of a started command shows the host.
THEOREM BindsAlwaysShow == Spec => []BindsShowThrough
<1>1. MountsInv => BindsShowThrough
  <2> SUFFICES ASSUME MountsInv, Running, NEW i \in DOMAIN policy.binds
               PROVE  IF policy.binds[i].source \in Host
                        THEN CanRead(sandbox, policy.binds[i].source) \/ Hidden(policy.binds[i].source)
                        ELSE policy.binds[i].optional
    BY DEF BindsShowThrough
  <2>1. CASE policy.binds[i].source \notin Host
    BY <2>1, Missing
  <2>2. CASE policy.binds[i].source \in Host
    <3> DEFINE s == policy.binds[i].source
               j == Max(Over(s))
    <3>1. s \in Paths /\ DOMAIN policy.binds = 1..Len(policy.binds) /\ Len(policy.binds) \in Nat
      BY ArgumentsType, BindType DEF Binds
    <3>2. i \in Over(s)
      BY <2>2, <3>1, Itself DEF Over, Above
    <3>3. j \in DOMAIN policy.binds
      <4>1. Over(s) \in SUBSET (1..Len(policy.binds))
        BY <3>1 DEF Over, Above
      <4> QED
        BY <3>1, <3>2, <4>1, GreatestExists
    <3>4. policy.binds[j].mode \in Modes
      BY <3>3, ArgumentsType, BindType DEF Binds
    <3>5. s \in Seq(ToSet(s))
      BY <3>1, PathsAssumption
    <3>6. Hidden(s) \/ Top(sandbox, s).kind = policy.binds[j].mode
      BY <3>2, <3>5, ShownRunning
    <3> HIDE DEF s, j
    <3>7. Hidden(s) \/ CanRead(sandbox, s)
      BY <3>4, <3>6 DEF CanRead, Kind, Target, Modes
    <3> QED
      BY <2>2, <3>7 DEF s
  <2> QED
    BY <2>1, <2>2
<1> QED
  BY <1>1, MountsInvariant, PTL

\* The host is written and read where the policy says, and nowhere else.
THEOREM HostIsAlwaysGranted == Spec => []HostIsGranted
<1>1. MountsInv => HostIsGranted
  <2> SUFFICES ASSUME MountsInv, Running, NEW p \in Paths
               PROVE  /\ LastOver(p, "rw") /\ ~Hidden(p) => WritesHost(sandbox, p)
                      /\ WritesHost(sandbox, p) =>
                           \/ LastOver(p, "rw")
                           \/ /\ Over(p) = {}
                              /\ \E l \in DOMAIN Links :
                                   Under(p, l) /\ LastOver(Links[l] \o SubSeq(p, Len(l) + 1, Len(p)), "rw")
                      /\ CanRead(sandbox, p) =>
                           Over(p) # {} \/ \E l \in DOMAIN Links \cup ToSet(TopDirs) : Under(p, l)
    BY DEF HostIsGranted
  <2> DEFINE top == Top(sandbox, p)
  <2>1. p \in Seq(ToSet(p))
    BY PathsAssumption
  <2>2. /\ Under(p, top.at)
        /\ \/ Over(p) = {} /\ top.kind = "tmpfs"
           \/ Over(p) = {} /\ \E e \in Early(policy) : top = MountOf(e)
           \/ Over(p) # {} /\ top.kind = policy.binds[Max(Over(p))].mode
           \/ Hidden(p) /\ top.kind = "file"
    BY <2>1, ShownRunning
  <2>3. Over(p) # {} => policy.binds[Max(Over(p))].mode \in Modes
    <3>1. DOMAIN policy.binds = 1..Len(policy.binds) /\ Len(policy.binds) \in Nat
      BY ArgumentsType, BindType
    <3>2. Over(p) \in SUBSET (1..Len(policy.binds))
      BY <3>1 DEF Over, Above
    <3>3. Over(p) # {} => Max(Over(p)) \in DOMAIN policy.binds
      BY <3>1, <3>2, GreatestExists
    <3> QED
      BY <3>3, ArgumentsType, BindType DEF Binds
  <2>4. Kind(sandbox, p) =
             IF top.kind = "link"
               THEN Top(sandbox, top.to \o SubSeq(p, Len(top.at) + 1, Len(p))).kind
               ELSE top.kind
    BY DEF Kind, Target
  <2> HIDE DEF top
  <2>5. LastOver(p, "rw") /\ ~Hidden(p) => WritesHost(sandbox, p)
    BY <2>2, <2>4 DEF LastOver, WritesHost
  <2>6. CASE top.kind = "link"
    <3>1. Over(p) = {} /\ \E e \in Early(policy) : top = MountOf(e)
      BY <2>2, <2>3, <2>6 DEF Modes
    <3>2. top.at \in DOMAIN Links /\ top.to = Links[top.at]
      BY <2>6, <3>1 DEF Early, MountOf
    <3> DEFINE l == top.at
               r == Links[l] \o SubSeq(p, Len(l) + 1, Len(p))
               V == ToSet(p) \cup ToSet(Links[l])
    <3>3. r \in Seq(V)
      <4>1. Links[l] \in Seq(ToSet(Links[l])) /\ l \in Seq(ToSet(l))
        BY <3>2, PathsAssumption
      <4>2. Len(l) \in Nat /\ Len(p) \in Nat /\ \A i \in 1..Len(p) : p[i] \in ToSet(p)
        BY <2>1, <4>1, LenProperties, ElementOfSeq
      <4>3. \A i \in Len(l) + 1..Len(p) : p[i] \in ToSet(p)
        BY <4>2
      <4>4. Len(l) + 1 \in Int /\ Len(p) \in Int
        BY <4>2
      <4>5. SubSeq(p, Len(l) + 1, Len(p)) \in Seq(ToSet(p))
        BY <4>3, <4>4, SubSeqProperties
      <4> HIDE DEF l
      <4>6. ToSet(p) \subseteq V /\ ToSet(Links[l]) \subseteq V
        OBVIOUS
      <4> HIDE DEF V
      <4>7. Links[l] \in Seq(V) /\ SubSeq(p, Len(l) + 1, Len(p)) \in Seq(V)
        BY <4>1, <4>5, <4>6, MoreVals
      <4> QED
        BY <4>7, ConcatProperties
    <3>4. \/ Top(sandbox, r).kind = "tmpfs"
          \/ \E e \in Early(policy) : Top(sandbox, r) = MountOf(e)
          \/ Over(r) # {} /\ Top(sandbox, r).kind = policy.binds[Max(Over(r))].mode
          \/ Top(sandbox, r).kind = "file"
      BY <3>3, ShownRunning
    <3> HIDE DEF r
    <3>5. Top(sandbox, r).kind = "rw" => LastOver(r, "rw")
      BY <3>4 DEF Early, MountOf, LastOver
    <3>6. WritesHost(sandbox, p) => LastOver(r, "rw")
      BY <2>4, <2>6, <3>2, <3>5 DEF WritesHost, r
    <3> QED
      BY <2>2, <2>5, <3>1, <3>2, <3>6 DEF r
  <2>7. CASE top.kind # "link"
    <3>1. Kind(sandbox, p) = top.kind
      BY <2>4, <2>7
    <3>2. top.kind = "rw" => LastOver(p, "rw")
      BY <2>2 DEF Early, MountOf, LastOver
    <3>3. top.kind = "ro" => Over(p) # {} \/ top.at \in ToSet(TopDirs)
      BY <2>2 DEF Early, MountOf
    <3>4. WritesHost(sandbox, p) => LastOver(p, "rw")
      BY <3>1, <3>2 DEF WritesHost
    <3>5. CanRead(sandbox, p) => Over(p) # {} \/ top.at \in ToSet(TopDirs)
      BY <3>1, <3>2, <3>3 DEF CanRead, LastOver
    <3> QED
      BY <2>2, <2>5, <3>4, <3>5
  <2> QED
    BY <2>6, <2>7
<1> QED
  BY <1>1, MountsInvariant, PTL

\* A path below a bind shows what the last one over it says.
LEMMA LastBindShows ==
    ASSUME MountsInv, Running, NEW p \in Paths, Over(p) # {}, ~Hidden(p)
    PROVE  LET j == Max(Over(p))
           IN  /\ j \in Over(p) /\ j \in Nat /\ policy.binds[j].mode \in Modes
               /\ \A i \in Over(p) : i \in Nat /\ i <= j
               /\ Kind(sandbox, p) = policy.binds[j].mode
<1> DEFINE j == Max(Over(p))
           top == Top(sandbox, p)
<1>1. DOMAIN policy.binds = 1..Len(policy.binds) /\ Len(policy.binds) \in Nat
  BY ArgumentsType, BindType
<1>2. Over(p) \in SUBSET (1..Len(policy.binds))
  BY <1>1 DEF Over, Above
<1>3. j \in Over(p) /\ \A i \in Over(p) : i <= j
  BY <1>1, <1>2, GreatestExists
<1>4. policy.binds[j].mode \in Modes
  BY <1>1, <1>2, <1>3, ArgumentsType, BindType DEF Binds
<1>5. p \in Seq(ToSet(p))
  BY PathsAssumption
<1>6. top.kind = policy.binds[j].mode
  BY <1>5, ShownRunning
<1>7. Kind(sandbox, p) = policy.binds[j].mode
  BY <1>4, <1>6 DEF Kind, Target, Modes
<1> QED
  BY <1>1, <1>2, <1>3, <1>4, <1>7

\* When bwrap gives up, the policy shows why, or its working directory is none.
THEOREM FailureAlwaysExplained == Spec => []FailureIsExplained
<1>1. MountsInv => FailureIsExplained
  <2> SUFFICES ASSUME MountsInv, stage = "failed", ~audited
               PROVE  \/ \E i \in DOMAIN policy.binds : ~policy.binds[i].optional /\ policy.binds[i].source \notin Host
                      \/ \E p \in Points : Sealed(p)
                      \/ \E p \in Own \ Host : LastOver(p, "ro")
                      \/ todo = <<>> /\ (policy.cwd \notin Dirs \/ Over(policy.cwd) = {} \/ Hidden(policy.cwd))
    BY DEF FailureIsExplained, Points, Own, Sources
  <2>1. PICK n, f, box : Failing(n, f, box)
    BY DEF MountsInv
  <2>2. PICK o : Arranged(Arguments, o, policy, request.proxied)
    BY ArgumentsType
  <2>3. /\ policy \in Policies /\ n \in Nat /\ n < Len(Arguments) /\ Made(box, Arguments, n, f)
        /\ ~After(box, Arguments[n + 1]).ok
    BY <2>1, ArgumentsType DEF Failing
  <2>4. PICK op : op = Arguments[n + 1]
    OBVIOUS
  <2>5. /\ op \in Ops
        /\ \/ op \in Early(policy)
           \/ \E i \in DOMAIN policy.binds : op = BindFlag(policy.binds[i]) /\ policy.binds[i] \in Binds
           \/ /\ Past(n, Arguments, o, policy)
              /\ \E m \in {2, 3}, k \in 1..3 :
                   /\ Len(Arguments) = o + Len(policy.binds) + m
                   /\ n + 1 = o + Len(policy.binds) + k /\ Late(op, k, m, policy, request.proxied)
    <3>1. Stands(op, n, Arguments, o)
      BY <2>2, <2>3, <2>4, Standing
    <3> QED
      BY <3>1 DEF Stands
  <2>6. box.ok /\ box \in Boxes
    BY <2>3 DEF Made
  <2>7. CASE op.kind = "chdir"
    <3> DEFINE cwd == policy.cwd
    <3>1. Past(n, Arguments, o, policy) /\ op.at = cwd /\ n + 1 = Len(Arguments)
      <4>1. op \notin Early(policy) /\ \A i \in DOMAIN policy.binds : policy.binds[i] \in Binds => op # BindFlag(policy.binds[i])
        BY <2>7 DEF Early, BindFlag, Op, Binds, Modes
      <4>2. PICK m \in {2, 3}, k \in 1..3 :
              /\ Len(Arguments) = o + Len(policy.binds) + m
              /\ n + 1 = o + Len(policy.binds) + k /\ Late(op, k, m, policy, request.proxied)
        BY <2>5, <4>1
      <4>3. k = m /\ op.at = cwd
        BY <2>7, <4>2 DEF Late
      <4> QED
        BY <2>5, <4>1, <4>2, <4>3
    <3>2. After(box, op) = [box EXCEPT !.ok = IsDir(box, cwd)]
      BY <2>6, <2>7, <3>1 DEF After, Modes
    <3>3. ~CanRead(box, cwd) \/ cwd \notin Dirs
      <4>1. CanRead(box, cwd) /\ cwd \in Dirs => IsDir(box, cwd)
        BY DEF IsDir
      <4>2. IsDir(box, cwd) => After(box, op).ok
        BY <2>6, <3>2 DEF Boxes
      <4> QED
        BY <2>3, <2>4, <4>1, <4>2
    <3>4. cwd \in Seq(ToSet(cwd))
      BY <2>3, PathsAssumption DEF Policies
    <3>5. Shows(box, cwd, policy, request.proxied)
      BY <2>2, <2>3, <3>1, <3>4, Shown
    <3>6. Over(cwd) # {} => policy.binds[Max(Over(cwd))].mode \in Modes
      <4>1. DOMAIN policy.binds = 1..Len(policy.binds) /\ Len(policy.binds) \in Nat
        BY <2>3, BindType
      <4>2. Over(cwd) \in SUBSET (1..Len(policy.binds))
        BY <4>1 DEF Over, Above
      <4>3. Over(cwd) # {} => Max(Over(cwd)) \in DOMAIN policy.binds
        BY <4>1, <4>2, GreatestExists
      <4> QED
        BY <2>3, <4>3, BindType DEF Binds
    <3> HIDE DEF cwd
    <3>7. cwd \notin Dirs \/ Over(cwd) = {} \/ Hidden(cwd)
      BY <3>3, <3>5, <3>6 DEF Shows, Over, Hidden, CanRead, Kind, Target, Modes
    <3> QED
      BY <2>1, <3>1, <3>7 DEF Failing, cwd
  <2>8. CASE op.kind \in Modes /\ op.at \notin Host
    <3>1. After(box, op) = [box EXCEPT !.ok = op.try]
      BY <2>6, <2>8 DEF After, Modes
    <3>2. ~op.try
      BY <2>3, <2>4, <2>5, <2>6, <3>1 DEF Boxes, Ops
    <3>3. op \notin Early(policy)
      BY <2>8, PathsAssumption DEF Early, Modes
    <3>4. PICK i \in DOMAIN policy.binds : op = BindFlag(policy.binds[i]) /\ policy.binds[i] \in Binds
      BY <2>5, <2>8, <3>3 DEF Late, Modes
    <3>5. ~policy.binds[i].optional /\ policy.binds[i].source \notin Host
      BY <2>8, <3>2, <3>4 DEF BindFlag, Op
    <3> QED
      BY <3>5
  <2>9. CASE op.kind # "chdir" /\ ~(op.kind \in Modes /\ op.at \notin Host)
    BY <2>1, <2>4, <2>9, NoRoom
  <2> QED
    BY <2>7, <2>8, <2>9
<1> QED
  BY <1>1, MountsInvariant, PTL

\* What the audit reported is there when its suggestion is followed.
THEOREM SuggestionAlwaysGrants == Spec => []SuggestionGrants
<1>1. MountsInv => SuggestionGrants
  <2> DEFINE run == Resolved(Retried)
             box == Box(run, request.proxied)
  <2> SUFFICES ASSUME MountsInv, stage = "reported", run.ok, NEW a \in report.denied,
                      box.ok, ~Hidden(a.path), GrantPath(a.path) \in Host, Len(GrantPath(a.path)) > TopDepth
               PROVE  CanRead(box, a.path) /\ (a.mode = "rw" /\ ~Hindered(a) => WritesHost(box, a.path))
    BY DEF SuggestionGrants
  <2> DEFINE path == a.path
             g == GrantPath(path)
             two == Layered(Retried)
             above == Above(run.binds, path)
             j == Max(above)
  <2>1. PICK i \in DOMAIN two.binds : two.binds[i].source = g /\ (a.mode = "rw" => two.binds[i].mode = "rw")
    BY Included
  <2>2. Typed(Retried) /\ Typed(request) /\ path \in Touched
    BY RetriedIs DEF Accesses
  <2>3. path \in Paths /\ Under(path, g)
    BY <2>2, GrantPathIs
  <2>4. i \in DOMAIN run.binds /\ run.binds[i].source = g /\ run \in Policies
    <3> DEFINE most == WithProject(Retried, two)
               proj == ProjectBinds(Retried)
    <3>1. Adds(two, proj, Len(proj), TRUE, most) /\ Adds(most, Retried.binds, Len(Retried.binds), TRUE, run)
          /\ two \in Policies
      BY <2>2, LayersAdded
    <3> HIDE DEF most, proj, two, run, g
    <3>2. most \in Policies /\ run \in Policies
      BY <3>1 DEF Adds
    <3>3. /\ DOMAIN two.binds = 1..Len(two.binds) /\ Len(two.binds) \in Nat
          /\ DOMAIN most.binds = 1..Len(most.binds) /\ Len(most.binds) \in Nat
          /\ DOMAIN run.binds = 1..Len(run.binds) /\ Len(run.binds) \in Nat
      BY <3>1, <3>2, BindType
    <3>4. Len(two.binds) <= Len(most.binds) /\ Len(most.binds) <= Len(run.binds)
      BY <3>1 DEF Adds, Stays
    <3>5. i \in DOMAIN most.binds /\ i \in DOMAIN run.binds
      BY <2>1, <3>3, <3>4
    <3>6. most.binds[i].source = two.binds[i].source /\ run.binds[i].source = most.binds[i].source
      BY <2>1, <3>1, <3>5 DEF Adds, Stays
    <3> QED
      BY <2>1, <3>2, <3>5, <3>6
  <2>5. i \in above
    BY <2>3, <2>4 DEF Above
  <2>6. /\ DOMAIN run.binds = 1..Len(run.binds) /\ Len(run.binds) \in Nat
        /\ \A x \in DOMAIN run.binds : run.binds[x] \in Binds
    BY <2>4, BindType
  <2>7. j \in above /\ i <= j
    <3>1. above \in SUBSET (1..Len(run.binds)) /\ above # {}
      BY <2>5, <2>6 DEF Above
    <3> HIDE DEF above
    <3> QED
      BY <2>5, <2>6, <3>1, GreatestExists
  <2>8. /\ j \in DOMAIN run.binds /\ run.binds[j].mode \in Modes
        /\ Under(path, run.binds[j].source) /\ run.binds[j].source \in Host
    BY <2>6, <2>7 DEF Above, Binds
  <2>9. Shows(box, path, run, request.proxied)
    <3>1. path \in Seq(ToSet(path)) /\ request.proxied \in BOOLEAN
      BY <2>2, <2>3, PathSize DEF Typed
    <3> QED
      BY <2>4, <3>1, BoxShows
  <2>10. Top(box, path).kind = run.binds[j].mode
    BY <2>7, <2>9 DEF Shows, Hidden
  <2>11. Kind(box, path) = run.binds[j].mode
    BY <2>8, <2>10 DEF Kind, Target, Modes
  <2>12. CanRead(box, path)
    BY <2>8, <2>11 DEF CanRead, Modes
  <2>13. ASSUME a.mode = "rw", ~Hindered(a) PROVE WritesHost(box, path)
    <3>1. run.binds[j].mode = "rw"
      BY <2>1, <2>7, <2>8, <2>13, Uppermost
    <3> QED
      BY <2>11, <3>1 DEF WritesHost
  <2> QED
    BY <2>12, <2>13
<1> QED
  BY <1>1, MountsInvariant, PTL

\* The rules are those of the binds, the scratch directory and the header.
LEMMA RulesAre ==
    ASSUME policy \in Policies
    PROVE  /\ \A i \in DOMAIN policy.binds :
                [mode |-> policy.binds[i].mode, root |-> Real[policy.binds[i].source]] \in Rules(policy)
           /\ \A r \in Rules(policy) :
                \/ \E i \in DOMAIN policy.binds :
                     r = [mode |-> policy.binds[i].mode, root |-> Real[policy.binds[i].source]]
                \/ r = [mode |-> "rw", root |-> Real[Scratch]]
                \/ \E s \in System : r = [mode |-> "ro", root |-> s]
<1> DEFINE scratch == [source |-> Scratch, mode |-> "rw", optional |-> FALSE]
           all == Append(policy.binds, scratch)
           N == Len(policy.binds)
           can == Canonicalize(all)
<1>1. /\ policy.binds \in Seq(Binds) /\ N \in Nat /\ DOMAIN policy.binds = 1..N
      /\ \A i \in 1..N : policy.binds[i] \in Binds
  BY BindType DEF Policies
<1>2. scratch \in Binds /\ scratch.source = Scratch /\ scratch.mode = "rw"
  BY PathsAssumption DEF Binds, Modes
<1>3. WithScratch(policy) = all
  BY DEF WithScratch
<1> HIDE DEF scratch
<1>4. /\ all \in Seq(Binds) /\ Len(all) = N + 1 /\ all[N + 1] = scratch
      /\ \A i \in 1..N : all[i] = policy.binds[i]
  BY <1>1, <1>2, AppendProperties
<1>5. DOMAIN all = 1..N + 1 /\ \A i \in 1..N + 1 : all[i] \in Binds
  BY <1>1, <1>4, LenProperties, ElementOfSeq
<1> HIDE DEF all, N
<1>6. /\ DOMAIN can = 1..N + 1
      /\ \A i \in 1..N + 1 : can[i].mode = all[i].mode /\ can[i].source = Real[all[i].source]
  <2>1. DOMAIN can = 1..N + 1 /\ \A i \in 1..N + 1 : can[i] = [all[i] EXCEPT !.source = Real[all[i].source]]
    BY <1>5 DEF Canonicalize
  <2> HIDE DEF can
  <2> QED
    BY <1>5, <2>1 DEF Binds
<1>7. Rules(policy) = {[mode |-> can[i].mode, root |-> can[i].source] : i \in DOMAIN can}
                        \cup {[mode |-> "ro", root |-> s] : s \in System}
  BY <1>3 DEF Rules
<1> HIDE DEF can
<1>8. \A i \in 1..N : i \in 1..N + 1
  BY <1>1
<1>9. \A i \in 1..N + 1 : i \in 1..N \/ i = N + 1
  BY <1>1
<1>10. \A i \in 1..N : [mode |-> policy.binds[i].mode, root |-> Real[policy.binds[i].source]] \in Rules(policy)
  BY <1>4, <1>6, <1>7, <1>8
<1>11. ASSUME NEW r \in Rules(policy), \A s \in System : r # [mode |-> "ro", root |-> s]
       PROVE  \/ \E i \in 1..N : r = [mode |-> policy.binds[i].mode, root |-> Real[policy.binds[i].source]]
              \/ r = [mode |-> "rw", root |-> Real[Scratch]]
  <2>1. PICK i \in 1..N + 1 : r = [mode |-> all[i].mode, root |-> Real[all[i].source]]
    BY <1>6, <1>7, <1>11
  <2>2. CASE i \in 1..N
    BY <1>4, <2>1, <2>2
  <2>3. CASE i = N + 1
    BY <1>2, <1>4, <2>1, <2>3
  <2> QED
    BY <1>9, <2>2, <2>3
<1> QED
  BY <1>1, <1>10, <1>11

\* Seatbelt grants what the binds say, and no more than bwrap does but where a
\* read-only bind lies in, or on, a writable one.
THEOREM SeatbeltAlwaysGrants == Spec => []SeatbeltGrantsBinds
<1>1. ASSUME MountsInv, NEW i \in DOMAIN policy.binds, NEW p \in Paths,
             Under(Real[p], Real[policy.binds[i].source])
      PROVE  SeatbeltAllows(policy, [path |-> p, mode |-> policy.binds[i].mode])
  <2> DEFINE rule == [mode |-> policy.binds[i].mode, root |-> Real[policy.binds[i].source]]
  <2>1. rule \in Rules(policy)
    BY <1>1, ArgumentsType, RulesAre
  <2>2. Under(Real[p], rule.root) /\ rule.mode = policy.binds[i].mode
    BY <1>1
  <2> HIDE DEF rule
  <2> QED
    BY <2>1, <2>2 DEF SeatbeltAllows
<1>2. ASSUME MountsInv, Running,
             \A i \in DOMAIN policy.binds : Real[policy.binds[i].source] = policy.binds[i].source,
             NEW p \in Host, NEW mode \in Modes,
             Real[p] = p, SeatbeltAllows(policy, [path |-> p, mode |-> mode])
      PROVE  \/ IF mode = "rw" THEN WritesHost(sandbox, p) ELSE CanRead(sandbox, p)
             \/ Hidden(p) \/ Under(p, Real[Scratch])
             \/ mode = "ro" /\ \E s \in System : Under(p, s)
             \/ mode = "rw" /\ \E i, j \in Over(p) :
                  i < j /\ policy.binds[i].mode = "rw" /\ policy.binds[j].mode = "ro"
  <2>1. PICK r \in Rules(policy) : Under(p, r.root) /\ (mode = "rw" => r.mode = "rw")
    BY <1>2 DEF SeatbeltAllows
  <2>2. policy \in Policies /\ p \in Paths
    BY <1>2, ArgumentsType, PathsAssumption
  <2>3. CASE r = [mode |-> "rw", root |-> Real[Scratch]]
    BY <2>1, <2>3
  <2>4. CASE \E s \in System : r = [mode |-> "ro", root |-> s]
    BY <2>1, <2>4 DEF Modes
  <2>5. CASE \E i \in DOMAIN policy.binds : r = [mode |-> policy.binds[i].mode, root |-> Real[policy.binds[i].source]]
    <3>1. PICK i \in DOMAIN policy.binds : r.mode = policy.binds[i].mode /\ r.root = policy.binds[i].source
      BY <1>2, <2>5
    <3>2. policy.binds[i].source \in Host
      <4>1. policy.binds[i].source \in Paths
        BY <2>2, BindType DEF Binds
      <4> QED
        BY <2>1, <3>1, <4>1, PathsAssumption DEF Under
    <3>3. i \in Over(p)
      BY <2>1, <3>1, <3>2 DEF Over, Above
    <3>4. CASE ~Hidden(p)
      <4> DEFINE j == Max(Over(p))
      <4>1. /\ j \in Over(p) /\ j \in Nat /\ i \in Nat /\ i <= j
            /\ policy.binds[j].mode \in Modes /\ Kind(sandbox, p) = policy.binds[j].mode
        BY <1>2, <2>2, <3>3, <3>4, LastBindShows
      <4> HIDE DEF j
      <4>2. CASE mode = "ro"
        BY <4>1, <4>2 DEF CanRead, Modes
      <4>3. CASE mode = "rw" /\ policy.binds[j].mode = "rw"
        BY <4>1, <4>3 DEF WritesHost
      <4>4. CASE mode = "rw" /\ policy.binds[j].mode = "ro"
        <5>1. i # j
          BY <2>1, <3>1, <4>4
        <5>2. i < j
          BY <4>1, <5>1
        <5> QED
          BY <2>1, <3>1, <3>3, <4>1, <4>4, <5>2
      <4> QED
        BY <4>1, <4>2, <4>3, <4>4 DEF Modes
    <3> QED
      BY <3>4
  <2> QED
    BY <2>2, <2>3, <2>4, <2>5, RulesAre
<1>3. MountsInv => SeatbeltGrantsBinds
  BY <1>1, <1>2 DEF SeatbeltGrantsBinds
<1> QED
  BY <1>3, MountsInvariant, PTL
=============================================================================
