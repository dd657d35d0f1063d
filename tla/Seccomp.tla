------------------------------ MODULE Seccomp ------------------------------
(***************************************************************************)
(* src/hozo/seccomp.py: a syscall denylist is compiled to a classic BPF    *)
(* program, which the kernel then runs on every system call of the         *)
(* sandboxed command.                                                      *)
(*                                                                         *)
(* An instruction is a record with the fields of struct sock_filter. The   *)
(* interpreter is the kernel's, for the four opcodes the compiler emits    *)
(* (tests/test_seccomp.py has the same one as simulate()).                 *)
(***************************************************************************)
EXTENDS Integers, FiniteSets

CONSTANTS
    Archs,      \* architectures a table ships for
    Hosts,      \* architectures hozo may run on
    Names,      \* every syscall name some table knows
    Table,      \* for each arch: name -> number, for the names it has
    AuditArch,  \* for each arch: its AUDIT_ARCH token
    X32Arch,    \* the arch whose kernel also serves the x32 ABI ("x86_64")
    X32Bit,     \* the bit of nr that marks an x32 call
    MaxJump,    \* a jump offset is a u8: 255
    Tokens,     \* the values seccomp_data.arch takes
    Numbers     \* the values seccomp_data.nr takes

ASSUME ArchAssumption ==
    /\ Archs \subseteq Hosts /\ IsFiniteSet(Names)
    /\ AuditArch \in [Archs -> Tokens]
    /\ \A a \in Archs : DOMAIN Table[a] \subseteq Names /\ \A n \in DOMAIN Table[a] : Table[a][n] \in Numbers
ASSUME NumberAssumption ==
    /\ Tokens \subseteq Nat /\ Numbers \subseteq Nat
    /\ X32Bit \in Nat /\ MaxJump \in Nat

Actions == {"errno", "kill", "log"}
Verdicts == Actions \cup {"allow"}

VARIABLES
    phase,    \* "compile", "load", "run", "decided" or "stopped"
    host,     \* the architecture hozo runs on
    deny,     \* the policy's syscall_deny
    action,   \* the policy's syscall_action
    outcome,  \* what build_seccomp_filter returned or raised
    order,    \* the denied numbers, sorted
    program,  \* the instructions, by position
    packet,   \* seccomp_data of the call the kernel checks
    pc,       \* the next instruction
    acc,      \* the accumulator
    verdict   \* what the filter returned

vars == <<phase, host, deny, action, outcome, order, program, packet, pc, acc, verdict>>

-----------------------------------------------------------------------------
(* build_seccomp_filter.                                                   *)

\* Mutant: a number that is false in Python is taken for a missing one.
DeniedNumbersTruthy(h, d) == {Table[h][n] : n \in d} \ {0}

DeniedNumbers(h, d) == {Table[h][n] : n \in d}

\* sorted(): the one ascending listing of S.
Sorted(S) ==
    {s \in [1..Cardinality(S) -> S] :
       /\ {s[i] : i \in 1..Cardinality(S)} = S
       /\ \A i, j \in 1..Cardinality(S) : i < j => s[i] < s[j]}

Guarded(h) == h = X32Arch
\* Mutant: no instruction rejects the x32 ABI.
HeadLenUnguarded(h) == 3

HeadLen(h) == IF Guarded(h) THEN 4 ELSE 3
AllowIdx(h, n) == HeadLen(h) + n
DenyIdx(h, n) == AllowIdx(h, n) + 1
KillIdx(h, n) == AllowIdx(h, n) + 2

\* Branch offsets count from the next instruction.
Jump(here, target) == target - here - 1

Instr(op, jt, jf, k) == [op |-> op, jt |-> jt, jf |-> jf, k |-> k]

Program(h, s, n, a) ==
    [i \in 0..KillIdx(h, n) |->
       IF i = 0 THEN Instr("ld", 0, 0, "arch")
       ELSE IF i = 1 THEN Instr("jeq", 0, Jump(1, KillIdx(h, n)), AuditArch[h])
       ELSE IF i = 2 THEN Instr("ld", 0, 0, "nr")
       ELSE IF i < HeadLen(h) THEN Instr("jge", Jump(3, KillIdx(h, n)), 0, X32Bit)
       ELSE IF i < AllowIdx(h, n) THEN Instr("jeq", Jump(i, DenyIdx(h, n)), 0, s[i - HeadLen(h) + 1])
       ELSE Instr("ret", 0, 0, IF i = AllowIdx(h, n) THEN "allow"
                               ELSE IF i = DenyIdx(h, n) THEN a ELSE "kill")]

NoProgram == [i \in {} |-> Instr("ret", 0, 0, "kill")]
NoOrder == [i \in {} |-> 0]
NoPacket == [arch |-> 0, nr |-> 0]

Init ==
    /\ phase = "compile"
    /\ host \in Hosts
    /\ deny \in SUBSET Names
    /\ action \in Actions
    /\ outcome = "pending"
    /\ order = NoOrder
    /\ program = NoProgram
    /\ packet = NoPacket
    /\ pc = 0
    /\ acc = 0
    /\ verdict = "none"

\* No filter: nothing denied, or no table for this architecture.
CompileNothing ==
    /\ phase = "compile"
    /\ deny = {} \/ host \notin Archs
    /\ phase' = "stopped" /\ outcome' = "unfiltered"
    /\ UNCHANGED <<host, deny, action, order, program, packet, pc, acc, verdict>>

\* HozoError: a name this architecture does not have.
CompileUnknown ==
    /\ phase = "compile"
    /\ host \in Archs /\ ~ deny \subseteq DOMAIN Table[host]
    /\ phase' = "stopped" /\ outcome' = "unknown"
    /\ UNCHANGED <<host, deny, action, order, program, packet, pc, acc, verdict>>

\* What is left of the checks: how far instruction 1 has to jump.
Compilable == deny # {} /\ host \in Archs /\ deny \subseteq DOMAIN Table[host]
Count == Cardinality(DeniedNumbers(host, deny))

\* HozoError: the list is too long for a jump.
CompileTooLong ==
    /\ phase = "compile" /\ Compilable
    /\ Jump(1, KillIdx(host, Count)) > MaxJump
    /\ phase' = "stopped" /\ outcome' = "too_long"
    /\ UNCHANGED <<host, deny, action, order, program, packet, pc, acc, verdict>>

\* Mutant: the bound is checked for the jump of the x32 guard.
CompileShortCheck ==
    /\ phase = "compile" /\ Compilable
    /\ Jump(3, KillIdx(host, Count)) <= MaxJump
    /\ \E s \in Sorted(DeniedNumbers(host, deny)) :
         /\ order' = s
         /\ program' = Program(host, s, Count, action)
    /\ phase' = "load" /\ outcome' = "filter"
    /\ UNCHANGED <<host, deny, action, packet, pc, acc, verdict>>

Compile ==
    /\ phase = "compile" /\ Compilable
    /\ Jump(1, KillIdx(host, Count)) <= MaxJump
    /\ \E s \in Sorted(DeniedNumbers(host, deny)) :
         /\ order' = s
         /\ program' = Program(host, s, Count, action)
    /\ phase' = "load" /\ outcome' = "filter"
    /\ UNCHANGED <<host, deny, action, packet, pc, acc, verdict>>

-----------------------------------------------------------------------------
(* The kernel.                                                             *)

Syscall(t, n) ==
    /\ phase = "load"
    /\ packet' = [arch |-> t, nr |-> n]
    /\ phase' = "run"
    /\ UNCHANGED <<host, deny, action, outcome, order, program, pc, acc, verdict>>

Running(op) == phase = "run" /\ pc \in DOMAIN program /\ program[pc].op = op

Load ==
    /\ Running("ld")
    /\ acc' = packet[program[pc].k]
    /\ pc' = pc + 1
    /\ UNCHANGED <<phase, host, deny, action, outcome, order, program, packet, verdict>>

Branch(taken) ==
    /\ pc' = pc + 1 + (IF taken THEN program[pc].jt ELSE program[pc].jf)
    /\ UNCHANGED <<phase, host, deny, action, outcome, order, program, packet, acc, verdict>>

JumpEq == Running("jeq") /\ Branch(acc = program[pc].k)
JumpGe == Running("jge") /\ Branch(acc >= program[pc].k)

Return ==
    /\ Running("ret")
    /\ verdict' = program[pc].k
    /\ phase' = "decided"
    /\ UNCHANGED <<host, deny, action, outcome, order, program, packet, pc, acc>>

Build == CompileNothing \/ CompileUnknown \/ CompileTooLong \/ Compile
Step == Load \/ JumpEq \/ JumpGe \/ Return
Next == Build \/ (\E t \in Tokens, n \in Numbers : Syscall(t, n)) \/ Step

Spec == Init /\ [][Next]_vars

-----------------------------------------------------------------------------
(* Properties.                                                             *)

Opcodes == {"ld", "jeq", "jge", "ret"}

TypeOK ==
    /\ phase \in {"compile", "load", "run", "decided", "stopped"}
    /\ host \in Hosts
    /\ deny \in SUBSET Names
    /\ action \in Actions
    /\ outcome \in {"pending", "unfiltered", "unknown", "too_long", "filter"}
    /\ \A i \in DOMAIN program : program[i].op \in Opcodes
    /\ packet \in [arch : Nat, nr : Nat]
    /\ pc \in Nat
    /\ acc \in Nat
    /\ verdict \in Verdicts \cup {"none"}

\* What the docstring of build_seccomp_filter promises of a call (t, n).
Expected(t, n) ==
    IF t # AuditArch[host] THEN "kill"
    ELSE IF host = X32Arch /\ n >= X32Bit THEN "kill"
    ELSE IF \E name \in deny : Table[host][name] = n THEN action
    ELSE "allow"

\* The program decides every call of every ABI as the policy says: the other
\* ABI of the machine is killed, a denied call gets the action, and no other
\* call is denied.
FilterDecidesPolicy ==
    phase = "decided" => verdict = Expected(packet.arch, packet.nr)

\* "Instruction 1 jumps furthest, so it bounds the list length" (seccomp.py:114):
\* the one check before the program is built covers every offset of it, and
\* each jump lands inside the program, behind the instruction it starts from.
JumpsFit ==
    outcome = "filter" => \A i \in DOMAIN program :
      /\ program[i].jt \in 0..MaxJump /\ program[i].jf \in 0..MaxJump
      /\ program[i].op # "ret" =>
           /\ i + 1 + program[i].jt \in DOMAIN program
           /\ i + 1 + program[i].jf \in DOMAIN program

\* A denylist is never silently in part: either the program tests every denied
\* name, or there is no program and the build said so, except on a machine
\* without a table.
NothingDropsOut ==
    /\ outcome = "filter" => \A name \in deny :
         \E i \in DOMAIN program : program[i].op = "jeq" /\ i > 1 /\ program[i].k = Table[host][name]
    /\ outcome = "unfiltered" => deny = {} \/ host \notin Archs
=============================================================================
