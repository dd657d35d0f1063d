------------------------------- MODULE Session -------------------------------
(***************************************************************************)
(* Runs and audits in one process, each in a thread of its own: the        *)
(* contexts a backend enters around a command (run of src/hozo/bwrap.py    *)
(* and src/hozo/seatbelt.py), those run_audit (src/hozo/audit.py) enters   *)
(* around the run, and the one logger, "hozo.proxy", they all share.       *)
(*                                                                         *)
(* A session's ExitStack is a sequence of contexts; `held` is what they    *)
(* have really taken. The proxy's thread is BackgroundProxy: its stop may  *)
(* raise and leave it running.                                             *)
(***************************************************************************)
EXTENDS Naturals, FiniteSets, Sequences

CONSTANTS
    Sessions,  \* concurrent calls of run and run_audit
    Targets,   \* hosts a command may ask for
    Kinds      \* what a session may be: a record of the four fields below

ASSUME SessionsAssumption == IsFiniteSet(Sessions)
ASSUME KindsAssumption ==
    Kinds \subseteq [backend : {"bwrap", "seatbelt"}, audit : {"no", "traced", "network"},
                     proxied : BOOLEAN, filtered : BOOLEAN]

VARIABLES
    kind,     \* what each session is: its policy is proxied, its system calls are filtered
    pc,       \* where its thread is
    stack,    \* the contexts it has entered and not yet left
    held,     \* handlers on the logger, directories, the filter's file, the proxy
    failed,   \* an exception is on its way out
    spawned,  \* the command has been started
    hosts,    \* an audit's sink: the records it has counted
    journal,  \* how often each record is in the dated log file
    record,   \* whether a session's proxy has logged a target: "timely", "late" or not
    report    \* report.hosts

vars == <<kind, pc, stack, held, failed, spawned, hosts, journal, record, report>>

Points == {"entering", "running", "leaving", "reading", "unwinding", "done"}
Contexts == {"sink", "trace", "workdir", "handler", "proxy", "filter", "scratch", "profile"}
Records == Sessions \X Targets

When(condition, contexts) == IF condition THEN contexts ELSE <<>>

-----------------------------------------------------------------------------
(* The contexts, in the order in which they are entered.                   *)

Outer(k) == When(k.audit # "no", <<"sink">>) \o When(k.audit = "traced", <<"trace">>)

\* The audit widens the request, which makes every audited run a proxied one.
Widened(k) == k.proxied \/ k.audit # "no"

\* Mutant: the log file is opened once the proxy is up.
InnerHandlerLast(k) ==
    IF k.backend = "bwrap"
      THEN When(Widened(k), <<"workdir", "proxy", "handler">>) \o When(k.filtered, <<"filter">>)
      ELSE <<"scratch">> \o When(Widened(k), <<"proxy">>) \o <<"profile">>

Inner(k) ==
    IF k.backend = "bwrap"
      THEN When(Widened(k), <<"workdir", "handler", "proxy">>) \o When(k.filtered, <<"filter">>)
      ELSE <<"scratch">> \o When(Widened(k), <<"proxy">>) \o <<"profile">>

Plan(s) == Outer(kind[s]) \o Inner(kind[s])
Depth(s) == Len(stack[s])
Leaf(s) == stack[s][Depth(s)]

-----------------------------------------------------------------------------
Init ==
    /\ kind \in [Sessions -> Kinds]
    /\ pc = [s \in Sessions |-> "entering"]
    /\ stack = [s \in Sessions |-> <<>>]
    /\ held = [s \in Sessions |-> {}]
    /\ failed = [s \in Sessions |-> FALSE]
    /\ spawned = [s \in Sessions |-> FALSE]
    /\ hosts = [s \in Sessions |-> {}]
    /\ journal = [r \in Records |-> 0]
    /\ record = [r \in Records |-> "no"]
    /\ report = [s \in Sessions |-> {}]

Logs == <<hosts, journal, record>>

\* The next context is entered.
Enter(s) ==
    /\ pc[s] = "entering" /\ Depth(s) < Len(Plan(s))
    /\ LET c == Plan(s)[Depth(s) + 1]
       IN  /\ stack' = [stack EXCEPT ![s] = Append(@, c)]
           /\ held' = [held EXCEPT ![s] = @ \cup {c}]
    /\ UNCHANGED <<kind, pc, failed, spawned, report, Logs>>

\* A directory, a file or the proxy cannot be had, strace or the backend is not
\* installed, the widened request does not merge, the filter does not compile,
\* the command cannot be started or Ctrl-C interrupts the wait for it. A proxy
\* that __enter__ gave up on may come to serve after all.
Fail(s) ==
    /\ pc[s] \in {"entering", "running"}
    /\ pc' = [pc EXCEPT ![s] = "leaving"]
    /\ failed' = [failed EXCEPT ![s] = TRUE]
    /\ \/ UNCHANGED held
       \/ /\ pc[s] = "entering" /\ Depth(s) < Len(Plan(s)) /\ Plan(s)[Depth(s) + 1] = "proxy"
          /\ held' = [held EXCEPT ![s] = @ \cup {"proxy"}]
    /\ UNCHANGED <<kind, stack, spawned, report, Logs>>

Spawn(s) ==
    /\ pc[s] = "entering" /\ Depth(s) = Len(Plan(s))
    /\ pc' = [pc EXCEPT ![s] = "running"]
    /\ spawned' = [spawned EXCEPT ![s] = TRUE]
    /\ UNCHANGED <<kind, stack, held, failed, report, Logs>>

CommandEnds(s) ==
    /\ pc[s] = "running"
    /\ pc' = [pc EXCEPT ![s] = "leaving"]
    /\ UNCHANGED <<kind, stack, held, failed, spawned, report, Logs>>

\* Mutant: without finally, a stop that raises takes the handler's removal with it.
LeaveAbruptly(s) ==
    /\ pc[s] \in {"leaving", "unwinding"} /\ Depth(s) > 0
    /\ pc[s] = "leaving" => Depth(s) > Len(Outer(kind[s]))
    /\ stack' = [stack EXCEPT ![s] = SubSeq(@, 1, Depth(s) - 1)]
    /\ \/ /\ held' = [held EXCEPT ![s] = @ \ {c \in {Leaf(s)} : c # "handler" \/ ~failed[s]}]
          /\ UNCHANGED failed
       \/ /\ Leaf(s) = "proxy"
          /\ failed' = [failed EXCEPT ![s] = TRUE] /\ UNCHANGED held
    /\ UNCHANGED <<kind, pc, spawned, report, Logs>>

\* The innermost context is left. The proxy's may raise instead of stopping it;
\* those around it are left all the same.
Leave(s) ==
    /\ pc[s] \in {"leaving", "unwinding"} /\ Depth(s) > 0
    /\ pc[s] = "leaving" => Depth(s) > Len(Outer(kind[s]))
    /\ stack' = [stack EXCEPT ![s] = SubSeq(@, 1, Depth(s) - 1)]
    /\ \/ held' = [held EXCEPT ![s] = @ \ {Leaf(s)}] /\ UNCHANGED failed
       \/ /\ Leaf(s) = "proxy"
          /\ failed' = [failed EXCEPT ![s] = TRUE] /\ UNCHANGED held
    /\ UNCHANGED <<kind, pc, spawned, report, Logs>>

\* Mutant: the sink is read as soon as the command has ended.
LeftAtOnce(s) ==
    /\ pc[s] = "leaving"
    /\ pc' = [pc EXCEPT ![s] =
         IF failed[s] \/ kind[s].audit = "no" THEN "unwinding" ELSE "reading"]
    /\ UNCHANGED <<kind, stack, held, failed, spawned, report, Logs>>

\* run has returned to run_audit, or to its caller.
Left(s) ==
    /\ pc[s] = "leaving" /\ Depth(s) <= Len(Outer(kind[s]))
    /\ pc' = [pc EXCEPT ![s] =
         IF failed[s] \/ kind[s].audit = "no" THEN "unwinding" ELSE "reading"]
    /\ UNCHANGED <<kind, stack, held, failed, spawned, report, Logs>>

\* report.hosts.update(sink.hosts).
Read(s) ==
    /\ pc[s] = "reading"
    /\ report' = [report EXCEPT ![s] = hosts[s]]
    /\ pc' = [pc EXCEPT ![s] = "unwinding"]
    /\ UNCHANGED <<kind, stack, held, failed, spawned, Logs>>

Return(s) ==
    /\ pc[s] = "unwinding" /\ Depth(s) = 0
    /\ pc' = [pc EXCEPT ![s] = "done"]
    /\ UNCHANGED <<kind, stack, held, failed, spawned, report, Logs>>

\* A handler of the proxy, which runs once there is a command, until the
\* proxy has stopped or for good, records a target: with every sink and every
\* log file that hangs on the logger at that moment.
Log(s, t) ==
    /\ "proxy" \in held[s] /\ spawned[s] /\ record[<<s, t>>] = "no"
    /\ record' = [record EXCEPT ![<<s, t>>] = IF \E i \in 1..Depth(s) : stack[s][i] = "proxy" THEN "timely" ELSE "late"]
    /\ hosts' = [x \in Sessions |-> IF "sink" \in held[x] THEN hosts[x] \cup {<<s, t>>} ELSE hosts[x]]
    /\ journal' = [journal EXCEPT ![<<s, t>>] = @ + Cardinality({x \in Sessions : "handler" \in held[x]})]
    /\ UNCHANGED <<kind, pc, stack, held, failed, spawned, report>>

Thread(s) ==
    Enter(s) \/ Fail(s) \/ Spawn(s) \/ CommandEnds(s) \/ Leave(s) \/ Left(s) \/ Read(s) \/ Return(s)

Next == \E s \in Sessions : Thread(s) \/ \E t \in Targets : Log(s, t)

Spec == Init /\ [][Next]_vars

-----------------------------------------------------------------------------
(* Properties.                                                             *)

\* The types; a record is in the log file at most once per open handler.
TypeOK ==
    /\ kind \in [Sessions -> Kinds]
    /\ pc \in [Sessions -> Points]
    /\ stack \in [Sessions -> Seq(Contexts)] /\ held \in [Sessions -> SUBSET Contexts]
    /\ failed \in [Sessions -> BOOLEAN] /\ spawned \in [Sessions -> BOOLEAN]
    /\ hosts \in [Sessions -> SUBSET Records] /\ report \in [Sessions -> SUBSET Records]
    /\ journal \in [Records -> 0..Cardinality(Sessions)]
    /\ record \in [Records -> {"no", "timely", "late"}]

\* Whichever step failed, a session that is over has taken its handlers off the
\* shared logger and left no directory and no file; only a proxy whose stop
\* raised, or that started too late, may still be there, and then the caller
\* was told.
NothingHeld ==
    \A s \in Sessions : pc[s] = "done" =>
      /\ held[s] \subseteq {"proxy"}
      /\ held[s] # {} => failed[s]

\* Every target that a bwrap run's proxy recorded before it stopped is in the
\* log file, those recorded while the run was being left included.
EveryRecordFiled ==
    \A s \in Sessions, t \in Targets :
      kind[s].backend = "bwrap" /\ record[<<s, t>>] = "timely" => journal[<<s, t>>] > 0

\* An audit that returns a report has every target of its command in it.
OwnTargetsReported ==
    \A s \in Sessions, t \in Targets :
      pc[s] = "done" /\ ~failed[s] /\ kind[s].audit # "no" /\ record[<<s, t>>] = "timely" =>
        <<s, t>> \in report[s]
=============================================================================
