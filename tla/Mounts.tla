------------------------------- MODULE Mounts -------------------------------
(***************************************************************************)
(* What a policy gives a command: the mounts bwrap makes of it, in the     *)
(* order of build_bwrap_argv (src/hozo/bwrap.py); the rules Seatbelt makes *)
(* of it, build_seatbelt_profile (src/hozo/seatbelt.py), in no order at    *)
(* all; and what the audit (src/hozo/audit.py) believes it gives, when it  *)
(* judges the accesses of a run under a widened policy and suggests a      *)
(* profile.                                                                *)
(*                                                                         *)
(* A path is the sequence of its components. A bind is mounted at its own  *)
(* source. Both paths and binds are expanded already.                      *)
(***************************************************************************)
EXTENDS Naturals, FiniteSets, SequencesExt

CONSTANTS
    Paths,      \* the paths told apart, <<>> being the root
    Host,       \* those that exist on the host
    Dirs,       \* those that are directories
    KernelDirs, \* directories of a new /proc and /dev
    Real,       \* where each is once its symlinks are resolved
    Links,      \* the symlinks of _MERGED_USR_LINKS on this host, to what they point at
    TopDirs,    \* those of _MERGED_USR_LINKS that are directories here, in order
    System,     \* subpaths that Seatbelt's header makes readable
    Project, Scratch, ProxySocket, TraceDir,   \* paths
    Bases,      \* base profiles: the binds, tmpfs, home, proc and dev of the first layer
    Insecure,   \* the binds of the profile the audit adds
    Requests,   \* the requests that may be made; their cwd is that of the last layer
                \* that has one, or the project
    MinDepth, TopDepth,   \* _MIN_GRANT_DEPTH and _TOP_LEVEL_DEPTH
    Touched,    \* the paths a traced command may name
    MaxAccesses \* bound on its accesses

Modes == {"ro", "rw"}
Binds == [source : Paths, mode : Modes, optional : BOOLEAN]
Accesses == [path : Touched, mode : Modes]

ASSUME PathsAssumption ==
    /\ {<<>>, <<"proc">>, <<"dev">>} \subseteq Paths /\ \A p \in Paths : p \in Seq(ToSet(p))
    /\ Touched \subseteq Paths /\ \A p \in Touched : p # <<>> => Front(p) \in Paths
    /\ Host \subseteq Paths /\ Dirs \subseteq Host
    /\ \A p \in Host, q \in Paths : IsPrefix(q, p) => q \in Host     \* there is no file below nothing
    /\ {System, KernelDirs} \subseteq SUBSET Paths
    /\ Real \in [Paths -> Paths]
    /\ DOMAIN Links \subseteq Paths /\ IsFiniteSet(DOMAIN Links)
    /\ \A l \in DOMAIN Links : Links[l] \in Paths
    /\ TopDirs \in Seq(Paths) /\ ToSet(TopDirs) \subseteq Dirs
    /\ \A l \in DOMAIN Links \cup ToSet(TopDirs) : Len(l) = 1     \* /bin, /sbin, /lib, /lib64
    /\ {Project, Scratch, ProxySocket, TraceDir} \subseteq Paths
ASSUME LayersAssumption ==
    /\ \A b \in Bases :
         /\ b.binds \in Seq(Binds) /\ b.tmpfs \in Seq(Paths)
         /\ IsFiniteSet(b.home) /\ Cardinality(b.home) <= 1 /\ b.home \subseteq Paths
         /\ {b.proc, b.dev} \subseteq BOOLEAN
    /\ Insecure \in Seq(Binds)
    /\ Requests \subseteq [base : Bases, profiles : Seq(Binds), binds : Seq(Binds), cwd : Paths,
                            bind_project : BOOLEAN, override : BOOLEAN, proxied : BOOLEAN]
    /\ {MinDepth, TopDepth, MaxAccesses} \subseteq Nat

VARIABLES
    request,   \* what is asked for
    audited,   \* it is run by `hozo audit`
    stage,     \* "resolve", "mount", "running", "reported", or why it is none of them
    policy,    \* the policy of the request: the reference of the audit
    todo,      \* the operations of the argv that bwrap has still to carry out
    sandbox,   \* the mounts made so far
    accesses,  \* what the trace shows of the command
    report     \* denied accesses, and how often each bind was used

vars == <<request, audited, stage, policy, todo, sandbox, accesses, report>>

Under(path, root) == IsPrefix(root, path)
Parents(path) == {p \in Paths : Under(path, p)}

-----------------------------------------------------------------------------
(* The policy: the binds, merged as _add_bind does, and the special mounts. *)

\* Merging two binds of one source: same mode, the stricter of the options;
\* another mode, the new one or a conflict.
Merged(p, b, override) ==
    LET same == {i \in DOMAIN p.binds : p.binds[i].source = b.source}
    IN  IF same = {} THEN [p EXCEPT !.binds = Append(@, b)]
        ELSE LET i == Min(same)
             IN  IF p.binds[i].mode = b.mode THEN [p EXCEPT !.binds[i].optional = @ /\ b.optional]
                 ELSE IF override THEN [p EXCEPT !.binds[i] = b]
                 ELSE [p EXCEPT !.ok = FALSE]

AddAll(p, binds, override) ==
    LET first[n \in 0..Len(binds)] ==
          IF n = 0 THEN p ELSE Merged(first[n - 1], binds[n], override)
    IN  first[Len(binds)]

\* Layers first, then the project, then the request's own binds.
Resolved(r) ==
    LET none == [ok |-> TRUE, binds |-> <<>>, tmpfs |-> r.base.tmpfs, home |-> r.base.home,
                 proc |-> r.base.proc, dev |-> r.base.dev, cwd |-> r.cwd]
        layers == AddAll(none, r.base.binds \o r.profiles, r.override)
        project == [source |-> Project, mode |-> "rw", optional |-> FALSE]
    IN  AddAll(IF r.bind_project THEN Merged(layers, project, TRUE) ELSE layers, r.binds, TRUE)

\* The audit's profile comes after those of the request.
Widen(r) == [r EXCEPT !.profiles = @ \o Insecure, !.proxied = TRUE]

Traced(r) ==
    [r EXCEPT !.binds = Append(@, [source |-> TraceDir, mode |-> "rw", optional |-> FALSE])]

-----------------------------------------------------------------------------
(* build_bwrap_argv.                                                       *)

Op(kind, at, to, try) == [kind |-> kind, at |-> at, to |-> to, try |-> try]

\* Mutant: an optional bind is a --bind-try whatever its mode.
BindFlagTry(b) == Op(IF b.optional THEN "rw" ELSE b.mode, b.source, b.source, b.optional)

\* Mutant: a missing optional bind that is writable is an error.
BindFlagRequired(b) == Op(b.mode, b.source, b.source, b.optional /\ b.mode = "ro")

BindFlag(b) == Op(b.mode, b.source, b.source, b.optional)

LinkOps ==
    SetToSeq({Op("link", l, Links[l], FALSE) : l \in DOMAIN Links})
      \o [i \in DOMAIN TopDirs |-> Op("ro", TopDirs[i], TopDirs[i], FALSE)]
SpecialOps(p) ==
    (IF p.proc THEN <<Op("proc", <<"proc">>, <<"proc">>, FALSE)>> ELSE <<>>)
      \o (IF p.dev THEN <<Op("dev", <<"dev">>, <<"dev">>, FALSE)>> ELSE <<>>)
      \o SetToSeq({Op("dir", h, h, FALSE) : h \in p.home})
TmpfsOps(p) == [i \in DOMAIN p.tmpfs |-> Op("tmpfs", p.tmpfs[i], p.tmpfs[i], FALSE)]
BindOps(p) == [i \in DOMAIN p.binds |-> BindFlag(p.binds[i])]
ScratchOp == <<Op("dir", Scratch, Scratch, FALSE)>>
LastOps(p, proxied) ==
    (IF proxied THEN <<Op("file", ProxySocket, ProxySocket, FALSE)>> ELSE <<>>)
      \o <<Op("chdir", p.cwd, p.cwd, FALSE)>>

\* Mutant: tmpfs over the binds.
ArgvTmpfsLast(p, proxied) ==
    LinkOps \o SpecialOps(p) \o BindOps(p) \o TmpfsOps(p) \o ScratchOp \o LastOps(p, proxied)

Argv(p, proxied) ==
    LinkOps \o SpecialOps(p) \o TmpfsOps(p) \o BindOps(p) \o ScratchOp \o LastOps(p, proxied)

-----------------------------------------------------------------------------
(* bwrap: each operation in turn, on a root of its own that is a tmpfs. A  *)
(* later mount hides what was there at or below its place.                 *)

NewRoot == [ok |-> TRUE, made |-> {}, mounts |-> <<[kind |-> "tmpfs", at |-> <<>>, to |-> <<>>]>>]

Top(box, path) == box.mounts[Max({i \in DOMAIN box.mounts : Under(path, box.mounts[i].at)})]

\* What a path leads to, a symlink being followed once, and what that shows.
Target(box, path) ==
    LET m == Top(box, path)
    IN  IF m.kind = "link" THEN m.to \o SubSeq(path, Len(m.at) + 1, Len(path)) ELSE path
Kind(box, path) == Top(box, Target(box, path)).kind

CanRead(box, path) == Kind(box, path) \in {"ro", "rw"}          \* the host's file, that is
CanWrite(box, path) == Kind(box, path) \in {"rw", "tmpfs"}      \* the host's file or its own
WritesHost(box, path) == Kind(box, path) = "rw"
Present(box, path) == path \in box.made \/ (CanRead(box, path) /\ path \in Host)

\* What is made for a mount is a directory, unless it is what the mount shows.
IsDir(box, path) ==
    \/ CanRead(box, path) /\ path \in Dirs
    \/ Kind(box, path) \in {"proc", "dev"} /\ Target(box, path) \in KernelDirs
    \/ Kind(box, path) \notin {"file", "link"} /\ Target(box, path) \in box.made \cup {<<>>}
         /\ (CanRead(box, path) => Target(box, path) \notin Host)

\* --chdir needs a directory; every other operation makes its directory or mount
\* point, if it may.
After(box, op) ==
    IF ~box.ok THEN box
    ELSE CASE op.kind = "chdir" -> [box EXCEPT !.ok = IsDir(box, op.at)]
           [] op.kind \in Modes /\ op.at \notin Host -> [box EXCEPT !.ok = op.try]
           [] OTHER ->
                IF ~(Present(box, op.at) \/ Kind(box, op.at) \in {"rw", "tmpfs", "dev"})
                  THEN [box EXCEPT !.ok = FALSE]
                ELSE IF op.kind = "dir" THEN [box EXCEPT !.made = @ \cup Parents(op.at)]
                ELSE [box EXCEPT !.made = {p \in @ : ~Under(p, op.at)} \cup Parents(op.at),
                                 !.mounts = Append(@, [kind |-> op.kind, at |-> op.at, to |-> op.to])]

\* The sandbox a policy ends in, without going through it step by step.
Box(p, proxied) ==
    LET argv == Argv(p, proxied)
        box[n \in 0..Len(argv)] == IF n = 0 THEN NewRoot ELSE After(box[n - 1], argv[n])
    IN  box[Len(argv)]

-----------------------------------------------------------------------------
(* build_seatbelt_profile: the sources of the binds, symlinks resolved,    *)
(* and the scratch directory; what any rule allows is allowed.             *)

\* Mutant: the binds as the policy has them.
CanonicalizeNot(binds) == binds

Canonicalize(binds) == [i \in DOMAIN binds |-> [binds[i] EXCEPT !.source = Real[@]]]

\* None where there is a tmpfs: ProfileError.
WithScratch(p) == Append(p.binds, [source |-> Scratch, mode |-> "rw", optional |-> FALSE])
Rules(p) ==
    LET binds == Canonicalize(WithScratch(p))
    IN  {[mode |-> binds[i].mode, root |-> binds[i].source] : i \in DOMAIN binds}
          \cup {[mode |-> "ro", root |-> s] : s \in System}

SeatbeltAllows(p, access) ==
    \E r \in Rules(p) :
      /\ Under(Real[access.path], r.root)
      /\ access.mode = "rw" => r.mode = "rw"

-----------------------------------------------------------------------------
(* The audit's judgement and the profile it suggests.                      *)

Granted(access, p) ==
    \/ p.proc /\ Under(access.path, <<"proc">>)
    \/ p.dev /\ Under(access.path, <<"dev">>)
    \/ \E h \in p.home : Under(access.path, h)
    \/ \E i \in DOMAIN p.tmpfs : Under(access.path, p.tmpfs[i])
    \/ \E i \in DOMAIN p.binds :
         /\ Under(access.path, p.binds[i].source)
         /\ p.binds[i].mode = "rw" \/ access.mode = "ro"

Denied(found, p) ==
    {a \in ToSet(found) : ~Under(a.path, TraceDir) /\ ~Granted(a, p)}

BindUsage(found, p) ==
    [s \in {p.binds[i].source : i \in DOMAIN p.binds} |->
       Cardinality({i \in DOMAIN found : Under(found[i].path, s)})]

GrantPath(path) ==
    IF path \in Dirs THEN path
    ELSE IF Len(path) > MinDepth THEN Front(path) ELSE path

\* group and _suggested_binds: one optional bind per path, writable if it was
\* written, and without the whole top-level directories, which render_profile
\* leaves out.
SuggestedBinds(denied) ==
    LET grouped == {[path |-> GrantPath(a.path), mode |-> a.mode] : a \in denied}
        mode(path) == IF [path |-> path, mode |-> "rw"] \in grouped THEN "rw" ELSE "ro"
    IN  {[source |-> p, mode |-> mode(p), optional |-> TRUE] :
           p \in {g.path : g \in {g \in grouped : Len(g.path) > TopDepth}}}

\* Mutant: deeper paths first.
SuggestedDeepFirst(denied) ==
    CHOOSE s \in SetToSeqs(SuggestedBinds(denied)) :
      \A i, j \in DOMAIN s : i < j => ~Under(s[j].source, s[i].source)

\* They are sorted, so that a path comes after those it lies in.
Suggested(denied) ==
    CHOOSE s \in SetToSeqs(SuggestedBinds(denied)) :
      \A i, j \in DOMAIN s : i < j => ~Under(s[i].source, s[j].source)

\* The request again, with the suggested profile named last.
Retried == [request EXCEPT !.profiles = @ \o Suggested(report.denied)]

-----------------------------------------------------------------------------
NoReport == [denied |-> {}, usage |-> <<>>]

Init ==
    /\ request \in Requests
    /\ audited \in BOOLEAN
    /\ stage = "resolve"
    /\ policy = Resolved(request)
    /\ todo = <<>> /\ sandbox = NewRoot
    /\ accesses = <<>> /\ report = NoReport

\* The request's policy is resolved, then, for an audit, that of the widened one.
Resolve ==
    /\ stage = "resolve"
    /\ LET r == IF audited THEN Traced(Widen(request)) ELSE request
           run == Resolved(r)
       IN  \/ /\ policy.ok /\ run.ok
              /\ stage' = "mount" /\ todo' = Argv(run, audited \/ r.proxied)
           \/ /\ ~policy.ok \/ ~run.ok
              /\ stage' = "conflict" /\ UNCHANGED todo
    /\ UNCHANGED <<request, audited, policy, sandbox, accesses, report>>

\* bwrap carries out the next operation, and starts the command after the last.
Mount ==
    /\ stage = "mount"
    /\ sandbox' = After(sandbox, Head(todo))
    /\ todo' = Tail(todo)
    /\ stage' = IF ~sandbox'.ok THEN "failed" ELSE IF todo' = <<>> THEN "running" ELSE "mount"
    /\ UNCHANGED <<request, audited, policy, accesses, report>>

\* A call in the trace, whether or not it succeeded.
Touch(a) ==
    /\ stage = "running" /\ audited /\ Len(accesses) < MaxAccesses
    /\ accesses' = Append(accesses, a)
    /\ UNCHANGED <<request, audited, stage, policy, todo, sandbox, report>>

\* The end of run_audit.
Report ==
    /\ stage = "running" /\ audited
    /\ stage' = "reported"
    /\ report' = [denied |-> Denied(accesses, policy), usage |-> BindUsage(accesses, policy)]
    /\ UNCHANGED <<request, audited, policy, todo, sandbox, accesses>>

Next == Resolve \/ Mount \/ (\E a \in Accesses : Touch(a)) \/ Report

Spec == Init /\ [][Next]_vars

-----------------------------------------------------------------------------
(* Properties.                                                             *)

\* The types; in particular a report is about accesses that were made, and
\* counts no more uses than there were.
TypeOK ==
    /\ request \in Requests /\ audited \in BOOLEAN
    /\ stage \in {"resolve", "mount", "running", "reported", "conflict", "failed"}
    /\ policy.ok \in BOOLEAN /\ policy.binds \in Seq(Binds)
    /\ sandbox.made \subseteq Paths
    /\ \A i \in DOMAIN sandbox.mounts : sandbox.mounts[i].at \in Paths
    /\ accesses \in Seq(Accesses)
    /\ report.denied \subseteq ToSet(accesses)
    /\ \A s \in DOMAIN report.usage : report.usage[s] \in 0..Len(accesses)

Running == stage = "running" /\ ~audited

\* The binds that are mounted at or above a path.
Above(binds, p) == {i \in DOMAIN binds : Under(p, binds[i].source) /\ binds[i].source \in Host}
Over(p) == Above(policy.binds, p)
LastOver(p, mode) == Over(p) # {} /\ policy.binds[Max(Over(p))].mode = mode

\* Only the socket of the proxy is mounted after them.
Hidden(p) == request.proxied /\ Under(p, ProxySocket)

\* Whatever the order of the layers, a bound path shows the host's file and not
\* a tmpfs, the empty home or nothing, and a required one is there
\* ("After the tmpfs/bind ops", bwrap.py:79).
BindsShowThrough ==
    Running => \A i \in DOMAIN policy.binds :
      LET b == policy.binds[i]
      IN  IF b.source \in Host THEN CanRead(sandbox, b.source) \/ Hidden(b.source) ELSE b.optional

\* The host is written exactly where the last bind above a path is a writable
\* one, or that above what a link below no bind points at; and read only below a
\* bind, /usr's links or a top-level directory.
HostIsGranted ==
    Running => \A p \in Paths :
      /\ LastOver(p, "rw") /\ ~Hidden(p) => WritesHost(sandbox, p)
      /\ WritesHost(sandbox, p) =>
           \/ LastOver(p, "rw")
           \/ /\ Over(p) = {}
              /\ \E l \in DOMAIN Links :
                   Under(p, l) /\ LastOver(Links[l] \o SubSeq(p, Len(l) + 1, Len(p)), "rw")
      /\ CanRead(sandbox, p) =>
           Over(p) # {} \/ \E l \in DOMAIN Links \cup ToSet(TopDirs) : Under(p, l)

\* Below these bwrap can make nothing new.
Sealed(p) ==
    \/ policy.proc /\ Under(p, <<"proc">>)
    \/ \E l \in DOMAIN Links \cup ToSet(TopDirs) : Under(p, l)

\* bwrap gives up for four reasons only: a required bind that is not there; a
\* mount point below /proc or /usr's links; a read-only bind over a place that it
\* has to create after the binds; and, when all is mounted, a working directory
\* (bwrap.py:86) that is no directory of the host's or that no bind shows.
FailureIsExplained ==
    stage = "failed" /\ ~audited =>
      LET sources == {policy.binds[i].source : i \in DOMAIN policy.binds}
          own == {Scratch} \cup (IF request.proxied THEN {ProxySocket} ELSE {})
      IN  \/ \E i \in DOMAIN policy.binds : ~policy.binds[i].optional /\ policy.binds[i].source \notin Host
          \/ \E p \in policy.home \cup ToSet(policy.tmpfs) \cup sources \cup own : Sealed(p)
          \/ \E p \in own \ Host : LastOver(p, "ro")
          \/ todo = <<>> /\ (policy.cwd \notin Dirs \/ Over(policy.cwd) = {} \/ Hidden(policy.cwd))

\* On Seatbelt, which only adds rules up, every path below a bind can be used as
\* the bind says, also where the bind or the path leads through a symlink
\* (seatbelt.py:247). Where nothing does, what the host has can be used there
\* only as it can under bwrap, but for the scratch directory, what the header
\* makes readable, and a read-only bind mounted after a writable one over the
\* path: there Seatbelt lets it be written.
SeatbeltGrantsBinds ==
    policy.ok /\ policy.tmpfs = <<>> =>
      /\ \A i \in DOMAIN policy.binds, p \in Paths :
           LET b == policy.binds[i]
           IN  Under(p, b.source) /\ Under(Real[p], Real[b.source]) =>
                 SeatbeltAllows(policy, [path |-> p, mode |-> b.mode])
      /\ Running /\ (\A i \in DOMAIN policy.binds : Real[policy.binds[i].source] = policy.binds[i].source) =>
           \A p \in Host, mode \in Modes :
             Real[p] = p /\ SeatbeltAllows(policy, [path |-> p, mode |-> mode]) =>
               \/ IF mode = "rw" THEN WritesHost(sandbox, p) ELSE CanRead(sandbox, p)
               \/ Hidden(p) \/ Under(p, Real[Scratch])
               \/ mode = "ro" /\ \E s \in System : Under(p, s)
               \/ mode = "rw" /\ \E i, j \in Over(p) :
                    i < j /\ policy.binds[i].mode = "rw" /\ policy.binds[j].mode = "ro"

\* What keeps a suggested writable bind from being the last over the path: a bind
\* of the request's own over it; with override, one of a profile that it replaces
\* where that stands; a suggestion for the path itself, because the command named
\* something below it though it is a file.
Hindered(a) ==
    \/ \E i \in DOMAIN request.binds : Under(a.path, request.binds[i].source)
    \/ request.override /\ \E i \in DOMAIN policy.binds : policy.binds[i].source = GrantPath(a.path)
    \/ a.path \in Host \ Dirs /\ \E b \in report.denied : b.path # a.path /\ Under(b.path, a.path)

\* Where the suggested profile can be merged, what the audit reported is there the
\* next time, and can be written if it was to be.
SuggestionGrants ==
    stage = "reported" /\ Resolved(Retried).ok =>
      LET box == Box(Resolved(Retried), request.proxied)
      IN  \A a \in report.denied :
            /\ box.ok /\ ~Hidden(a.path)
            /\ GrantPath(a.path) \in Host /\ Len(GrantPath(a.path)) > TopDepth
            => /\ CanRead(box, a.path)
               /\ a.mode = "rw" /\ ~Hindered(a) => WritesHost(box, a.path)

\* What the audit does not report was allowed: an access it takes for granted
\* is one the requested policy would have permitted ("lists what the requested
\* profiles would deny", README.md:70).
DeniedIsReported ==
    stage = "reported" =>
      LET box == Box(policy, request.proxied)
      IN  \A i \in DOMAIN accesses :
            LET a == accesses[i]
            IN  box.ok /\ a.path \in Host \ Dirs /\ a.mode = "ro" /\ ~Under(a.path, TraceDir)
                  /\ a \notin report.denied
                => CanRead(box, a.path)

\* The audited run is no stricter than the run it stands for ("so nothing is
\* actually blocked in this mode", audit.py:3).
AuditBlocksNothing ==
    stage = "running" /\ audited =>
      LET box == Box(policy, request.proxied)
      IN  \A p \in Paths : box.ok /\ WritesHost(box, p) => CanWrite(sandbox, p)
=============================================================================
