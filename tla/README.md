# TLA+ verification of hozo

hozo runs a command in a sandbox (bubblewrap on Linux, Seatbelt on macOS) under
a policy merged from YAML profiles, with a denylist of system calls and an HTTP
CONNECT proxy as the only way to the network. This directory holds TLA+ models
of its parts, the TLC runs that check them and TLAPS proofs about them.

    tlc -config ConnectProxy.cfg MCAllowlistedProxy   # a run: see the table below
    tlapm ConnectProxyProofs.tla                      # proofs: see the end

## Inventory

Paths are under `src/hozo/`.

| Component | State | Operations | What makes it correct |
|---|---|---|---|
| CONNECT proxy, `proxy.py` `ConnectProxy` | one handler task per connection; two transports with write buffers; the log records | read the head, decide, dial, reply, relay, close | allowlist before any byte; one truthful status and record; nothing left open; tunnels wind up |
| Its thread, `proxy.py` `BackgroundProxy` | daemon thread, event loop, `_ready`, the server | `__enter__`, `_serve`, `start`, `stop`, `__exit__` | listening in the block, stopped after it, never hangs |
| Host patterns, `proxy.py` `_domain_matches` and below | none | match host and port | an address is matched as it is dialled |
| Bridge, `bridge.py` | accept loop, two threads per connection | listen, fork, accept, dial, relay, half-close | bytes of both directions arrive until both ends close; nobody waits for it for ever |
| Seccomp, `seccomp.py` | none (the compiled program) | compile a denylist | the kernel's verdict on every call is the policy's |
| Policy merge, `policy.py` | the policy under construction | merge layers, add binds, defaults | conflicts raise, the most restrictive network, required binds stay |
| Profiles, `profiles.py`, `builtin_profiles/` | files | look up, parse, validate | user profiles shadow built-in ones |
| Environment, `env.py`, `paths.py` | none | build the environment, expand placeholders | secrets scrubbed, proxy variables win |
| bwrap backend, `bwrap.py` | temp dirs, log handler, proxy, seccomp fd | build argv, run | mounts in an order that gives the access the policy says; all released |
| Seatbelt backend, `seatbelt.py` | temp dirs, helper process | build profile, run, exec, helper | helper serves as long as the command runs, then cleans up |
| Audit, `audit.py` | counters, log sink, trace file | run widened, judge accesses, suggest a profile | reports what the policy would have denied |
| CLI, `cli.py`, `executor.py`, `backend.py`, `explain.py` | none | parse, dispatch, choose the backend, render | what is granted is what was spelled; all of the policy or no command |

How they interact: the CLI turns arguments into a request, `policy` merges it
into a policy, `executor` gives it to a backend. A backend enters the proxy's
`with` block (a second thread), compiles the filter, builds the environment and
runs the command as a child; the command's connections come back through the
bridge (threads of a process in the sandbox) or the loopback to the proxy's
handlers (tasks of one event loop). The audit hangs a sink on the logger the
handlers write to, from the main thread, and reads it when the block is left.

The hard parts are the handlers' interleaving with resets, FINs, timeouts and
the stop of the loop; the jump arithmetic of the filter; and the order in which
binds are merged, mounted and judged. PROJECT.json lists each hazard at its line.

## Modules

**ConnectProxy** (`ConnectProxy.tla`). State per connection: `pc`, where the
handler is; `sent` and `req`, what the client has sent of its head; `verdict`,
`reply` and `log`; `link` and `buf`, the two asyncio transports and their write
buffers; `pipe`, the two coroutines of `_relay`. An action is the code between
two awaits, with one refinement: deciding and writing the reply are two actions
(`refuse` and `grant` lie between them), because the kernel may learn of a
reset in between though no other handler runs. `Refuse`, then `LogRefusal`, is
`_reject` and the record after it; `Raise` is the exception that reaches
`_handle_client`. `PipeBreaks` is a drain that raises: a loop that is reading
only notices once it has a chunk to write. Peers and asyncio's transports are
external: FIN, reset, reading, the loss of a closed transport after its flush,
and `StreamWriter.__del__`, which later 3.11 releases added (`FinalizerCloses`).
A buffer is empty, in use or above the high-water mark. Which targets the
patterns accept is the constant `Allowed`, so that the proofs hold for every
allowlist. The 400 for another method, a bad
port and a short line are one verdict, `INVALID`.

**Gatekeeper** is its abstract specification, what the proxy promises a connection
whatever its handler goes through: one decision, on what was asked, at most one
answer, with what was decided, a record that says the same, no connection to a
target and no bytes to it otherwise, and nothing more once the handler has returned.
ConnectProxy maps to it by `G`: `req` is what was asked, `link` whether the target is
reached, `pipe` whether bytes may pass.

**HostMatch** is the matching of a target with `allowed_hosts`. A host is a record:
its text, whether it has capitals and whether it ends in a dot; a pattern is a text
and a port. What `ip_address`, `inet_aton`, `str` and `fnmatch` do with a text are
functions given as constants, and so is what the resolver would dial (`Dials`,
external). The resolver reads more spellings than the first two: the target is any
UTF-8 text (`proxy.py:165`), and IDNA turns wide digits and other full stops into
plain ones. **AllowlistedProxy** puts it behind `Allowed` (`AllowedIsAccepted`),
says what a reader takes a list to mean (`Listed`), and names what the code counts
on in Python's library and the resolver (`AddressesAssumption`, `HostsAssumption`).
An address that only the resolver takes for one is `Disguised`; to the proxy it is a
name, and `DecidedAsListed` says so as an exception.
A pattern with a final dot names only what has one too.

**BackgroundProxy** extends ConnectProxy with the main thread (`main`), the loop's thread
(`thread`), `_ready`, the listening server, the `stop` coroutine (`stopper`)
and `loop.stop` (`halt`). A handler steps only while the loop runs, and the loop
halts only between callbacks (`AtAwaits`, which is asyncio's part). Two variables that never change stand for the host:
`waits`, whether `Server.wait_closed` waits for open connections, as it does from
Python 3.12.1 on, and `slow`, whether a five-second wait may end before a step
that could be taken.
`port` and `unlink` are left out.

**Seccomp** compiles any denylist of any table to instructions (records with
the fields of `struct sock_filter`) and interprets them with the kernel's rules
for the four opcodes, one action per instruction. `MaxJump` is 255 and `X32Bit`
2^30 in the code; both are constants, so that TLC reaches the limits.

**PolicyMerge** is `resolve_policy`: one action per layer and one per call of
`_add_bind`. `asks` and `past` are history variables. Lists that are only united
are one set of items, fields of which the last value counts one function, and
`expand_path` the constant function `Expand` from spellings to paths, the empty
string, something relative, or an unknown placeholder (which raises; so does an entry
of `prepend_path` with one, `Unresolvable`). The XDG
directories below the home are represented by the home. A request may name any
word (`Words`) as its network mode and a host with a malformed port (`Malformed`); `Inline`
refuses both, at the place the code does.

**Invocation** extends it to what comes before and after: `main` and
`_parse_flags` over a sequence of tokens (a token is what it is, and what it is
of), the choice of the verb, `load_profile` for each profile, and, once the policy
is resolved, the backend's refusals and `build_env`. `cli` is how far `main` has
come and `status` its exit status, "traceback" for an exception that is no
HozoError, "audit" where `_cmd_audit` takes over, "command" when the command is
started. A document is the layer a reader takes it to be, with the sections that
have another shape than expected (`loose`) and those with a refused value (`bad`);
`Parsed` drops what the code skips in a loose one; `Keep` takes a kind of token
out of the line. A library caller starts at the merge, with any
request and layers. `project` is kept as a word; where it points is the
constant `Project`.

**SeatbeltHelper** is `SeatbeltBackend.exec` and `_start_helper`: the caller, up
to and after its `execve`, and the forked helper, a pipe between them (`writers`
are the processes that hold its write end), the process group that Ctrl-C
reaches until the helper's `setsid` if there is a terminal (`tty`), and SIGKILL
of either. `reaps` says that the command ends only when it has no children left.
The proxy's start
and stop are one step each here, of which either may raise; BackgroundProxy has
them in detail. That hozo exits after an exception is `CallerExits`.

**Mounts** takes a request through the merge of its binds, the argv of
`build_bwrap_argv` and bubblewrap's operations, one action each, to what every
path of the sandbox then shows; a path is a sequence of names, and what
bubblewrap does with an operation is external. The same policy as Seatbelt rules
is `Rules`. An audited request is widened first, its accesses are judged against
the policy asked for, and the suggested profile is merged back in (`Retried`).
Of the policy only binds, tmpfs, home, cwd, `/proc` and `/dev` count; paths are
expanded already. The working directory may be any path (`cwd` of a request, which
is that of the last layer that has one, or the project), and so may the project, which
the code never looks at: `--chdir` is the last operation, and needs a directory
(`IsDir`), one of the host's that shows, one that bubblewrap made, or one of a new
`/dev` or `/proc` (`KernelDirs`). Of the order in which a suggested profile lists its binds only
what matters is kept: a path comes after those it lies in. The merge of binds is repeated here in its functional form
(`AddAll`), PolicyMerge having it bind by bind with everything else of a profile.
What the properties say of binds is exact for every host and policy, hence their
two exceptions: the proxy's socket is mounted after the binds, so a path below it
shows that (`Hidden`), and a path below a link of `/usr` shows what a bind over the
link's target shows.

**Session** has the ExitStacks: the contexts that `run` of either backend and
`run_audit` enter and leave, as the sequence `stack`, and what is really held
(`held`), for several sessions in one process, any step of which may raise; a proxy that was given up on may come to serve
after all. The shared logger is the set of the sessions that have a handler or a sink on it.

**Tunnel** composes the bridge's two threads of a connection with the proxy's two
pipes, between a command and a target that send, half-close, reset and vanish. A
direction of a socket is a bounded queue of numbered bytes (`q`), its writer's
end (`fin`) and whether its reader has closed (`deaf`). The difference that
matters is in `BridgeEnds`, which shuts one direction down, and `PipeEnds`, which
closes the socket. `FrameGoes` is the collection of the bridge's upstream socket,
which nothing closes. Its abstract specification is **Streams**: two streams, of
which what arrives is a prefix of what was sent.

**Bridge** extends Tunnel with the bridge's process and the shell that waits for
it: `bridge` is where `main` is, `shell` the `&&` of `build_bwrap_argv`, and `conn`
a connection up to its tunnel, in the kernel's backlog, accepted, and dialled.
`LoopDies` is an exception of `accept` or of a thread's start; the process takes
its sockets with it, the one to the command first, the one to the proxy as
`FrameGoes`.

**MCAllowlistedProxy**, **MCSeccomp**, **MCInvocation**, **MCMounts** and **MCSession** give the
constants of larger runs. The proofs are in **ConnectProxyProofs** (with HostMatch,
AllowlistedProxy and Gatekeeper), **BackgroundProxyProofs**, **SeccompProofs**,
**InvocationProofs** (with PolicyMerge), **SeatbeltHelperProofs**,
**MountsProofs**, **SessionProofs** and **BridgeProofs** (with Tunnel and Streams).
Operators marked as mutants are plausible bugs; no action uses them, and each is
there to show that a property would notice.

## Runs

The run of ConnectProxy, whose type invariant bounds the write buffers, checks it;
the other modules' `TypeOK` only states the shape of their variables.

| Run | Checks | Shows |
|---|---|---|
| ConnectProxy.cfg | TypeOK, LogTellsTruth, OnlyAllowedReached, NothingLeftOpen, DecidedAsListed, ProxyIsGatekeeper, NothingWrittenAfterClose, EveryClientServed, TunnelWindsUp | one connection, 56 targets under six patterns, every malformed request |
| BackgroundProxy.cfg | ListeningInBody, StopsWherePrompt, NobodyCutOff, BlockReturns, NoRecordAfterExit | the block is entered and left whatever dies, hangs or times out; left without an exception, the proxy is quiet; where `wait_closed` returns at once it always stops; where it waits, no client is cut off or left without an answer |
| BackgroundProxyNotStopped.cfg | StopsOnExit, violated | with `wait_closed` as it is since 3.12.1, an open connection leaves the proxy running |
| Seccomp.cfg | FilterDecidesPolicy, JumpsFit, NothingDropsOut | all denylists of four names on three hosts, all calls |
| Invocation.cfg | BindsFollowRequests, ConflictsReported, NetworkRestricted, GrantsAreSpelled, RunsAsAsked, CommandEnvironment | every command line of up to three tokens, three systems, four documents a user's profile may be; of a library caller, up to three layers of twenty-one under seven requests |
| SeatbeltHelper.cfg | CleansUp, CommandIsServed, CallerGetsOn, HelperEnds | with and without a terminal: the command is served, the directories and the proxy go with it, and nobody hangs but a command that waits for all its children |
| SeatbeltHelperLeftovers.cfg | LeavesNothing, violated | Ctrl-C between the fork and the try |
| Mounts.cfg | BindsShowThrough, HostIsGranted, FailureIsExplained, SeatbeltGrantsBinds, SuggestionGrants | 1365 requests, plain and audited |
| MountsDeniedIsReported.cfg | DeniedIsReported, violated | the empty home counts as granted |
| MountsAuditBlocksNothing.cfg | AuditBlocksNothing, violated | the audit's `/home` covers a writable bind |
| Session.cfg | NothingHeld, EveryRecordFiled, OwnTargetsReported | two sessions of six kinds, failing anywhere |
| Bridge.cfg | CleanEndIsWhole, TunnelIsStreams, ServedResponseArrives, TunnelEnds, NobodyHangs | the bridge's start and end, and one tunnel, two bytes each way, sockets that hold one |

Bounds. Handlers share nothing but the loop and the log (the proofs establish
this: `OthersSame`), so one connection is enough for what concerns a connection.
The stop waits for all of them; one is what a run with liveness can afford, and
BackgroundProxyProofs proves the safety properties for any number. The targets of MCAllowlistedProxy
are two names in four spellings and eight texts that are dialled as addresses, five of
them as the same one and one that only the resolver reads (for wide digits), each with and
without a port; the patterns have a wildcard, a
final dot, a network, a single address, and each kind of port. Two buffer levels above
empty are the least that tell a write from a blocked drain. With `MaxJump = 6`
three denied numbers fit on one architecture and are one too many on the other,
two names share a number, one name is missing on one host, and a host has no
table. Three layers are the least in which a replacement is followed by a union;
the profiles cover both modes, both spellings of a path, optional and required,
empty, relative and unknown sources, and each network mode. Three tokens are the
least that put an option, its value and a grant next to each other, and the words
hold each verb but "run"; behind `--` stand options that must not count. The host of MCMounts
has a path of every kind the code treats differently: a merged `/lib`, a `/tmp`
that is a symlink, a tool in the home and one outside it, a missing path, a
directory inside a bound directory, a file below `/proc`, and a path below a file,
which a command may name but which cannot exist. The requests merge seven profiles
with five lists of binds, with and without `override`; and, in some, the working
directory is `/tmp`, the scratch directory, a file, a directory of `/dev`, or missing,
of which some start the command and some do not. `MinDepth` and `TopDepth`
are the code's. Two
accesses are the least that group into one suggestion or into two that nest. Two
sessions are the least that share a logger. With two bytes and sockets that hold
one, a relay can be blocked with a byte in hand, before and behind it. One
connection suffices for the bridge, whose threads share only its end.

Fairness. The event loop runs every ready callback, deadlines and closed
transports included, so the handlers' steps are weakly fair; a dial ends; a
finalizer runs. Peers owe nothing: they may never send, never read and never
close, which is why `TunnelWindsUp` excepts a buffer that is never read (there
is no timeout on that flush). A drain that would raise is only fair when the
pipe is blocked in it. In BackgroundProxy both threads are scheduled and a timed
wait ends; the `with` block itself may last for ever. The helper and the caller are scheduled;
the command may run for ever, but exits when it is done and can. In Bridge and Tunnel processes, threads and tasks run and the ends read
what has arrived for them, but need never send, half-close or leave. Seccomp,
Invocation, Mounts and Session have safety properties only.

Deadlock is not checked: every system here may come to rest (all handlers done,
the block left, a call decided, a command started, refused or handed over, both processes gone, the
command started or refused, the sessions returned, the tunnel closed or idle).

## Findings

1. With a connection open, `__exit__` raises `TimeoutError` after five seconds on
   Python 3.12.1 and later, and the proxy keeps running (`proxy.py:260`).
2. A Ctrl-C between the fork and the helper's `try` leaves both temporary
   directories behind (`seatbelt.py:209`).
3. The audit takes reads below the empty home for granted and does not report
   them (`audit.py:123`).
4. The audit's profile makes directories read-only that the request's own
   profiles make writable (`audit.py:239`).

The models show more that no document contradicts outright, or that the actions
make plain, and that no run is spent on:

- A verdict is logged after its reply: if the client goes first, BLOCK or FAIL is
  lost (`LogRefusal`); so is a target whose dial is pending at the stop.
- The request's own binds and variables override those of profiles without
  `override` (`InlineBind`, `BindProject`).
- `--allow-read` of a directory above the project makes the project read-only
  under bwrap, since it is mounted later (`Resolved`); of a directory inside the
  project it does nothing under Seatbelt, whose rules only add up (`Rules`).
- `--allow-read=/tmp` keeps bwrap from starting, unless the host happens to have
  the scratch directory: a read-only bind over a place that bubblewrap must create
  after the binds (the third reason of `FailureIsExplained`).
- A suggested profile may conflict with the one it is meant to complete, and is
  then refused; `SuggestionGrants` is about those that merge. What they suggest to
  be written may stay read-only for the reasons of `Hindered`: a bind of the
  request's own over it; with `override`, a profile's bind that the suggestion
  replaces where that stands, before others; and a file suggested as such because
  the command named something below it.
- A profile's `network: none`, a scalar where a mapping is expected, is ignored, and
  so are loose `process`, `special` and `proxy` sections (`Tolerated`), while a loose
  `env` or `syscalls` is refused.
- A profile file that goes, or is no text, between the look-up and the read ends in
  a traceback (`Load`).
- A variable that a passthrough names is dropped from what profiles set, also where
  the host does not have it (`Defaults`).
- An address in wide digits or with other full stops (`１２７.0.0.1`, `127。0。0。1`) is
  a name to `_ip_address` (`proxy.py:79-92`), so that a glob such as `*` accepts it,
  and `open_connection` (191) dials 127.0.0.1. `proxy.py:3` says that "a bare IP
  matches only an IP or CIDR entry", and `tests/test_proxy.py:35` that "globs never match
  an IP". MCAllowlistedProxy has such a target, and without its exception
  `DecidedAsListed` would be violated by it (`Disguised`).
- A working directory that no bind shows, or that is none, keeps bwrap from starting
  after all is mounted (the fourth reason of `FailureIsExplained`).
- A name that ends in a dot matches no pattern for the name without it, and a
  pattern of an IPv4-mapped network matches nothing (`DomainMatches`).
- A bridge whose loop has died leaves the command without a proxy for the rest of
  its run, and may end a tunnel with what looks like a clean end (`LoopDies`).
- Concurrent audits and runs in one process report each other's targets (`Log`),
  and an audit reports the targets that the allowlist accepts too (`Read`).

Tunnel also shows a jam that no document speaks of, which is why `TunnelEnds`
names it (`Jammed`) instead of being violated: with both directions of the Unix
socket full, the thread that lost the command and the pipe that lost the target
have stopped reading, and the other two wait for room for ever, though both ends
are gone. And a command that half-closes may lose the end of its answer, because
a pipe closes both directions of its destination.

## Proofs

Every safety property of the passing runs is proved for all values of the
constants. The pattern is the same throughout: an inductive
invariant, one lemma per action or group of actions that it is kept, and the
property as a consequence. The assumptions are the named ASSUMEs of the modules,
which TLC evaluates in the runs.

**ConnectProxyProofs**, for every set of connections, targets and allowed targets.
The properties relate a handler's fields only once it is done, so they are not
inductive; `IInv` adds, for every point of the handler, what holds there of the
verdict, the reply, the log, the two transports and each pipe. One lemma per group
of actions (`DecideKeeps`, `RaiseKeeps`, `LinkKeeps`, `HandlerKeeps`, `PipeKeeps`,
...) treats the connection that steps, `OthersSame` and `SameKeeps` the others.
`LogIsTrue`, `AllowlistHolds`, `HandlerCleansUp`, `AnswersAreLogged` and
`ClosedStaysClosed` follow. `ImplementsGatekeeper` maps each step to one of Gatekeeper
or to none (`PeersAsk`, `HeadRefuses`, `ConnectAdmits`, `ReplyAnswers`,
`RelayLeaves`), and needs of the client besides that its request line comes first
(`Heard`). AnsweredIsLogged follows from the invariant and is not checked by a run
of its own, since the gatekeeper leaves a refusal only on record. At its end, for every list of patterns, `ListDecides`
(DecidedAsListed): `AddressIsDialled`, `PortIsNamed` and `NameIsNamed` show that
the code's comparison is what the list says. It rests on `AddressesAssumption`: what
`ip_address` or `inet_aton` reads, the resolver dials, and `str` spells an address so
that it is read back. That is Python's and libc's part. Nothing is assumed of a host
neither of them reads, so that what the theorem says of a disguised address is only
that it is decided as a name.

**BackgroundProxyProofs**, for any number of connections. `BInv` is `IInv`, whose
proof is used again because the handlers take the same steps, and what the two
threads may infer from each other: the thread by what `__enter__` has seen, the stop
coroutine by what `__exit__` has scheduled, the server by both, and, once the loop
has been halted, that every handler stands at an await. A handler's client is
connected, gone, or answered before it is closed (`Answered`); with the stop done, the
server has no connection left. Hence `Listens`,
`StopsPrompt`, `StopCutsNobodyOff` and the action property `RecordsFinal`; and, as the
threads' own steps are none of the proxy's (`ProxySteps`), `BackgroundIsGatekeeper`.

**SeccompProofs**, for every table, denylist and bound on jumps. `SInv` says what
was compiled (`Built`) and what the interpreter knows at each instruction
(`Progress`: which numbers are already ruled out, and that the architecture and
the ABI are the native ones). `FilterIsPolicy`, `JumpsAlwaysFit` and
`EveryNameIsTested` follow.

**InvocationProofs**, for any layers, documents, requests, command lines and host
environments. The merge alone has `MInv`: types; `BindInv`, the binds are distinct
and each is what a reader of all the requests so far would fold them to; `Values`,
every field is what the layers so far make of it; and `Merging`, which binds have
been served, and that without `override` whatever was merged agrees. Around it,
`CliInv` says that what was found is what was wanted, and that the merge works on
it, and `GrantInv` that the request is what the tokens walked so far say. They need
each other: a policy is right only if its layers are the profiles asked for, and
those only if the tokens were taken apart correctly. `RunsAsAsked` and
`CommandEnvironment` are conjuncts of the invariant themselves, kept because the step
that starts the command establishes them. A theorem per property of the run
follows, those about the merge for a caller that starts there as well.

**SeatbeltHelperProofs**. `IInv` says what each process may take for granted about
the other: a helper that has told nothing holds the pipe, one that has told the
port serves until the caller has ended. `CommandServed`, `CleanedUp`.

**MountsProofs**, for any host, policy and links. `ArgvArranged` says what the argv
is: operations before the binds, the binds in the policy's order, and after them
only directories, the proxy's files and the start. `MountsInv` says that the
mounts of the sandbox are those of the argv's first n operations, in their order and
with a gap only where an optional source is missing. So the mount a path shows is that
of the last bind over it, one made before all binds if there is none, or the
proxy's socket (`Shown`), from which `BindsAlwaysShow` and `HostIsAlwaysGranted`
follow. `SeatbeltAlwaysGrants` says that each rule comes from a bind, the scratch
directory or the header (`RulesAre`); what a bind allows, and no later bind
over the path takes back, the path shows in the sandbox (`LastBindShows`). For
`FailureAlwaysExplained` the invariant also says which operation a failed sandbox
failed at (`Failing`); a place that could not be made has a mount over it whose
source has no room for it (`Standing`, `NoRoom`), and which mount that can be follows
from the argv's order. `SuggestionAlwaysGrants` needs no behaviour but what an audit
reports, and follows the report into a second run: an order of the suggested
binds exists because they are finitely many (`SuggestedIs`); `Adds` says what merging a list of
binds leaves, in places, modes and order, and `AddedTwice` what is left when the
suggestions are merged after the layers; `BoxMade` and `BoxShows` give the
second sandbox, and by `Uppermost` a bind that comes after the suggested one over
a path is writable as well. Of the host is assumed that no file lies below a path that does not
exist, that links and top-level directories are single names, that the latter are
directories, that the directory of a touched path is a path,
and that the links and the home are finite, because they are listed in some order.

**SessionProofs**, for any finite set of sessions. `SInv`: what a session has entered
is the beginning of its plan, it holds just that, and a record is in the log file,
the sink and the report from where it must be. `LeavesNothing`, `FilesEveryRecord`,
`ReportsOwnTargets`.

**BridgeProofs**, for any number of bytes and any capacity. `TInv`: the queues of a
direction put together are the numbers from `got + 1` on, with a gap only where a
line has ended or lost its reader. With it every step of the tunnel, and of the
tunnel under the bridge, is a step of Streams or none (`ImplementsStreams`). `Whole`
goes further for a direction whose bytes are due: either its proxy's pipe still
copies, and then all that was sent and not delivered is on its lines, or it has
ended, and then the rest is behind it, to be followed by the end or cut by a
reset. `EndsAreWhole` is CleanEndIsWhole, and for the tunnel without the bridge's
process the stronger NoSilentTruncation.

Induction over data is done on sets: `LeastExists`, from the library's theorem that
a well-founded order has minimal elements, and `Induction` from it. That is how the
functions defined by recursion, `Keep` and `AddAll`, are reasoned about
(`KeptExists`, `KeepPicks`, `AllMerged`), and `Box`, the sandbox of an argv
(`AllBoxed`).

Only model-checked: the liveness properties, fairness and ENABLED being out of the
prover's reach: EveryClientServed, TunnelWindsUp, BlockReturns, CallerGetsOn,
HelperEnds, ServedResponseArrives, TunnelEnds and NobodyHangs. The mounts of an
audited run are not in `MountsInv`: what is claimed of them (AuditBlocksNothing) is
violated. Runs and proofs alike rest on the models being faithful to the code, and to
Python, bubblewrap and the kernel where they are marked external.

## Not modelled

One thing would be worth adding: the audit verb in Invocation, whose profile a user
may shadow with one of the same name.

Not modelled, with the reason: the composition of `PATH` (order and duplicates of
directories, of which no document says anything that could go wrong), a second
thread that cannot be started inside `handle`, the port and socket path of the proxy,
namespaces and other flags of bubblewrap, and what `explain` prints. Left out for
good: text (help, reports, YAML and strace syntax), the built-in profiles' contents,
and the script that generates the syscall tables.
