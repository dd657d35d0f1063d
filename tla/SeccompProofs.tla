--------------------------- MODULE SeccompProofs ---------------------------
(* The filter decides every call as the policy says, for every table, every *)
(* denylist and every bound on the jumps.                                  *)
EXTENDS Seccomp, FiniteSetTheorems, TLAPS

H == HeadLen(host)
Nr == packet.nr

\* What was compiled.
Built ==
    outcome = "filter" =>
      /\ Compilable
      /\ order \in Sorted(DeniedNumbers(host, deny))
      /\ program = Program(host, order, Count, action)
      /\ Jump(1, KillIdx(host, Count)) <= MaxJump

\* What the interpreter knows at each instruction.
Progress ==
    phase = "run" =>
      /\ pc \in 0..(H + Count + 2)
      /\ pc = 1 => acc = packet.arch
      /\ pc \in 2..(H + Count + 1) => packet.arch = AuditArch[host]
      /\ pc \in 3..(H + Count - 1) => acc = Nr
      /\ pc \in H..(H + Count + 1) => (Guarded(host) => Nr < X32Bit)
      /\ pc \in H..(H + Count) => \A i \in 1..Count : i + H - 1 < pc => order[i] # Nr
      /\ pc = H + Count + 1 => \E i \in 1..Count : order[i] = Nr
      /\ pc = H + Count + 2 =>
           packet.arch # AuditArch[host] \/ (Guarded(host) /\ Nr >= X32Bit)

SInv ==
    /\ host \in Hosts /\ deny \in SUBSET Names /\ action \in Actions
    /\ packet \in [arch : Nat, nr : Nat] /\ acc \in Nat /\ pc \in Nat
    /\ phase \in {"load", "run", "decided"} => outcome = "filter"
    /\ phase = "compile" => outcome = "pending"
    /\ phase \in {"compile", "load"} => pc = 0
    /\ Built
    /\ Progress
    /\ FilterDecidesPolicy

\* A denylist has finitely many numbers, and its listing has them all.
LEMMA CountType ==
    ASSUME Compilable, deny \in SUBSET Names
    PROVE  Count \in Nat
<1> DEFINE f == [n \in deny |-> Table[host][n]]
<1>1. IsFiniteSet(deny)
  BY ArchAssumption, FS_Subset
<1>2. f \in Surjection(deny, DeniedNumbers(host, deny))
  BY DEF Surjection, DeniedNumbers
<1>3. IsFiniteSet(DeniedNumbers(host, deny))
  BY <1>1, <1>2, FS_Surjection
<1> QED
  BY <1>3, FS_CardinalityType DEF Count

\* A denylist that is compiled denies at least one number.
LEMMA CountPositive ==
    ASSUME Compilable, Count \in Nat, order \in Sorted(DeniedNumbers(host, deny))
    PROVE  Count > 0
<1>1. PICK name \in deny : TRUE
  BY DEF Compilable
<1>2. PICK i \in 1..Count : order[i] = Table[host][name]
  BY DEF Sorted, Count, DeniedNumbers
<1> QED
  BY <1>2

\* The sorted listing of the denied numbers lists exactly them.
LEMMA OrderListsDenied ==
    ASSUME Compilable, order \in Sorted(DeniedNumbers(host, deny)), NEW n
    PROVE  (\E i \in 1..Count : order[i] = n) <=> (\E name \in deny : Table[host][name] = n)
BY DEF Sorted, Count, DeniedNumbers

\* There is no program before the build.
LEMMA InvInit == Init => SInv
BY DEF Init, SInv, Built, Progress, FilterDecidesPolicy, NoPacket

\* The instruction at each place of the program.
LEMMA Layout ==
    ASSUME SInv, phase = "run"
    PROVE  /\ Count \in Nat /\ H \in {3, 4} /\ (H = 4 <=> Guarded(host))
           /\ pc \in DOMAIN program /\ pc \in 0..(H + Count + 2)
           /\ pc = 0 => program[pc] = Instr("ld", 0, 0, "arch")
           /\ pc = 1 => program[pc] = Instr("jeq", 0, H + Count, AuditArch[host])
           /\ pc = 2 => program[pc] = Instr("ld", 0, 0, "nr")
           /\ pc = 3 /\ H = 4 => program[pc] = Instr("jge", 2 + Count, 0, X32Bit)
           /\ pc \in H..(H + Count - 1) =>
                program[pc] = Instr("jeq", H + Count - pc, 0, order[pc - H + 1])
           /\ pc = H + Count => program[pc] = Instr("ret", 0, 0, "allow")
           /\ pc = H + Count + 1 => program[pc] = Instr("ret", 0, 0, action)
           /\ pc = H + Count + 2 => program[pc] = Instr("ret", 0, 0, "kill")
<1>1. Compilable /\ program = Program(host, order, Count, action)
  BY DEF SInv, Built
<1>2. Count \in Nat /\ pc \in 0..(H + Count + 2)
  BY <1>1, CountType DEF SInv, Progress
<1>3. /\ H \in {3, 4} /\ (H = 4 <=> Guarded(host)) /\ H = HeadLen(host)
      /\ AllowIdx(host, Count) = H + Count
      /\ DenyIdx(host, Count) = H + Count + 1
      /\ KillIdx(host, Count) = H + Count + 2
  BY <1>2 DEF H, HeadLen, AllowIdx, DenyIdx, KillIdx
<1>4. /\ DOMAIN program = 0..KillIdx(host, Count)
      /\ program[pc] =
            IF pc = 0 THEN Instr("ld", 0, 0, "arch")
            ELSE IF pc = 1 THEN Instr("jeq", 0, Jump(1, KillIdx(host, Count)), AuditArch[host])
            ELSE IF pc = 2 THEN Instr("ld", 0, 0, "nr")
            ELSE IF pc < HeadLen(host) THEN Instr("jge", Jump(3, KillIdx(host, Count)), 0, X32Bit)
            ELSE IF pc < AllowIdx(host, Count)
                   THEN Instr("jeq", Jump(pc, DenyIdx(host, Count)), 0, order[pc - HeadLen(host) + 1])
            ELSE Instr("ret", 0, 0, IF pc = AllowIdx(host, Count) THEN "allow"
                                    ELSE IF pc = DenyIdx(host, Count) THEN action ELSE "kill")
  BY <1>1, <1>2, <1>3 DEF Program
<1>5. /\ Jump(1, KillIdx(host, Count)) = H + Count
      /\ H = 4 => Jump(3, KillIdx(host, Count)) = 2 + Count
      /\ Jump(pc, DenyIdx(host, Count)) = H + Count - pc
  BY <1>2, <1>3 DEF Jump
<1>6. pc \in DOMAIN program
  BY <1>2, <1>3, <1>4
<1>7. /\ pc = 0 => program[pc] = Instr("ld", 0, 0, "arch")
      /\ pc = 1 => program[pc] = Instr("jeq", 0, H + Count, AuditArch[host])
      /\ pc = 2 => program[pc] = Instr("ld", 0, 0, "nr")
  BY <1>4, <1>5
<1>8. pc = 3 /\ H = 4 => program[pc] = Instr("jge", 2 + Count, 0, X32Bit)
  BY <1>3, <1>4, <1>5
<1>9. pc \in H..(H + Count - 1) =>
        program[pc] = Instr("jeq", H + Count - pc, 0, order[pc - H + 1])
  <2>1. SUFFICES ASSUME pc \in H..(H + Count - 1)
                 PROVE  program[pc] = Instr("jeq", H + Count - pc, 0, order[pc - H + 1])
    OBVIOUS
  <2>2. pc # 0 /\ pc # 1 /\ pc # 2 /\ ~(pc < HeadLen(host)) /\ pc < AllowIdx(host, Count)
    BY <1>2, <1>3, <2>1
  <2>3. program[pc] = Instr("jeq", Jump(pc, DenyIdx(host, Count)), 0, order[pc - HeadLen(host) + 1])
    BY <1>4, <2>2
  <2> QED
    BY <1>3, <1>5, <2>3
<1>10. /\ pc = H + Count => program[pc] = Instr("ret", 0, 0, "allow")
       /\ pc = H + Count + 1 => program[pc] = Instr("ret", 0, 0, action)
       /\ pc = H + Count + 2 => program[pc] = Instr("ret", 0, 0, "kill")
  BY <1>2, <1>3, <1>4
<1> QED
  BY <1>2, <1>3, <1>6, <1>7, <1>8, <1>9, <1>10

\* A step of the interpreter keeps what was compiled; so it keeps the
\* invariant if it knows enough at the next instruction, or decides.
LEMMA StepKeeps ==
    ASSUME SInv, phase = "run", phase' \in {"run", "decided"},
           UNCHANGED <<host, deny, action, outcome, order, program, packet>>,
           acc' \in Nat, pc' \in Nat,
           phase' = "decided" => verdict' = Expected(packet.arch, packet.nr),
           phase' = "run" =>
             /\ pc' \in 0..(H + Count + 2)
             /\ pc' = 1 => acc' = packet.arch
             /\ pc' \in 2..(H + Count + 1) => packet.arch = AuditArch[host]
             /\ pc' \in 3..(H + Count - 1) => acc' = Nr
             /\ pc' \in H..(H + Count + 1) => (Guarded(host) => Nr < X32Bit)
             /\ pc' \in H..(H + Count) => \A i \in 1..Count : i + H - 1 < pc' => order[i] # Nr
             /\ pc' = H + Count + 1 => \E i \in 1..Count : order[i] = Nr
             /\ pc' = H + Count + 2 =>
                  packet.arch # AuditArch[host] \/ (Guarded(host) /\ Nr >= X32Bit)
    PROVE  SInv'
<1>1. Count' = Count /\ H' = H /\ Nr' = Nr /\ Guarded(host)' = Guarded(host)
      /\ Expected(packet.arch, packet.nr)' = Expected(packet.arch, packet.nr)
  BY DEF Count, H, Nr, Guarded, Expected
<1>2. outcome = "filter" /\ Built'
  BY <1>1 DEF SInv, Built, Compilable
<1>3. Progress'
  BY <1>1 DEF Progress
<1>4. FilterDecidesPolicy'
  BY <1>1 DEF FilterDecidesPolicy
<1> QED
  BY <1>1, <1>2, <1>3, <1>4 DEF SInv

\* A load leaves in the accumulator what the next test reads.
LEMMA LoadKeeps == ASSUME SInv, Load PROVE SInv'
<1>1. /\ phase = "run" /\ phase' = "run" /\ program[pc].op = "ld"
      /\ acc' = packet[program[pc].k] /\ pc' = pc + 1
      /\ UNCHANGED <<host, deny, action, outcome, order, program, packet>>
  BY DEF Load, Running
<1>2. packet.arch \in Nat /\ packet.nr \in Nat /\ pc \in Nat /\ Nr = packet.nr
  BY DEF SInv, Nr
<1>3. Count \in Nat /\ H \in {3, 4} /\ (H = 4 <=> Guarded(host))
  BY <1>1, Layout
<1>4. pc \in {0, 2}
  BY <1>1, Layout DEF Instr
<1>5. CASE pc = 0
  <2>1. acc' = packet.arch /\ pc' = 1
    BY <1>1, <1>5, Layout DEF Instr
  <2> QED
    BY <1>1, <1>2, <1>3, <2>1, StepKeeps
<1>6. CASE pc = 2
  <2>1. acc' = packet.nr /\ pc' = 3
    BY <1>1, <1>6, Layout DEF Instr
  <2>2. packet.arch = AuditArch[host]
    BY <1>1, <1>3, <1>6 DEF SInv, Progress
  <2>3. \A i \in 1..Count : ~(i + H - 1 < 3)
    BY <1>3
  <2> QED
    BY <1>1, <1>2, <1>3, <2>1, <2>2, <2>3, StepKeeps
<1> QED
  BY <1>4, <1>5, <1>6

\* A test that fails rules one number out; one that holds jumps to its return.
LEMMA JumpEqKeeps == ASSUME SInv, JumpEq PROVE SInv'
<1>1. /\ phase = "run" /\ phase' = "run" /\ program[pc].op = "jeq" /\ acc' = acc
      /\ pc' = pc + 1 + (IF acc = program[pc].k THEN program[pc].jt ELSE program[pc].jf)
      /\ UNCHANGED <<host, deny, action, outcome, order, program, packet>>
  BY DEF JumpEq, Running, Branch
<1>2. acc \in Nat /\ pc \in Nat
  BY DEF SInv
<1>3. Count \in Nat /\ H \in {3, 4} /\ (H = 4 <=> Guarded(host))
  BY <1>1, Layout
<1>4. pc = 1 \/ pc \in H..(H + Count - 1)
  BY <1>1, Layout DEF Instr
<1>5. CASE pc = 1
  <2>1. acc = packet.arch
    BY <1>1, <1>5 DEF SInv, Progress
  <2>2. program[pc] = Instr("jeq", 0, H + Count, AuditArch[host])
    BY <1>1, <1>5, Layout
  <2>3. pc' = IF packet.arch = AuditArch[host] THEN 2 ELSE H + Count + 2
    BY <1>1, <1>3, <1>5, <2>1, <2>2 DEF Instr
  <2> QED
    BY <1>1, <1>2, <1>3, <2>3, StepKeeps
<1>6. CASE pc \in H..(H + Count - 1)
  <2>1. /\ packet.arch = AuditArch[host] /\ acc = Nr
        /\ Guarded(host) => Nr < X32Bit
        /\ \A i \in 1..Count : i + H - 1 < pc => order[i] # Nr
    BY <1>1, <1>3, <1>6 DEF SInv, Progress
  <2>2. program[pc] = Instr("jeq", H + Count - pc, 0, order[pc - H + 1])
    BY <1>1, <1>6, Layout
  <2>3. pc - H + 1 \in 1..Count
    BY <1>2, <1>3, <1>6
  <2>4. CASE Nr = order[pc - H + 1]
    <3>1. pc' = H + Count + 1
      BY <1>1, <1>2, <1>3, <2>1, <2>2, <2>4 DEF Instr
    <3>2. \E i \in 1..Count : order[i] = Nr
      BY <2>3, <2>4
    <3> QED
      BY <1>1, <1>2, <1>3, <2>1, <3>1, <3>2, StepKeeps
  <2>5. CASE Nr # order[pc - H + 1]
    <3>1. pc' = pc + 1
      BY <1>1, <1>2, <1>3, <2>1, <2>2, <2>5 DEF Instr
    <3>2. ASSUME NEW i \in 1..Count, i + H - 1 < pc + 1
          PROVE order[i] # Nr
      <4>1. i = pc - H + 1 \/ i + H - 1 < pc
        BY <1>2, <1>3, <3>2
      <4> QED
        BY <2>1, <2>5, <4>1
    <3> QED
      BY <1>1, <1>2, <1>3, <1>6, <2>1, <3>1, <3>2, StepKeeps
  <2> QED
    BY <2>4, <2>5
<1> QED
  BY <1>4, <1>5, <1>6

\* Past the x32 guard, nr is a number of the native ABI.
LEMMA JumpGeKeeps == ASSUME SInv, JumpGe PROVE SInv'
<1>1. /\ phase = "run" /\ phase' = "run" /\ program[pc].op = "jge" /\ acc' = acc
      /\ pc' = pc + 1 + (IF acc >= program[pc].k THEN program[pc].jt ELSE program[pc].jf)
      /\ UNCHANGED <<host, deny, action, outcome, order, program, packet>>
  BY DEF JumpGe, Running, Branch
<1>2. acc \in Nat /\ pc \in Nat /\ Nr \in Nat /\ X32Bit \in Nat
  BY NumberAssumption DEF SInv, Nr
<1>3. Count \in Nat
  BY <1>1, Layout
<1>4. pc = 3 /\ H = 4 /\ Guarded(host) /\ program[pc] = Instr("jge", 2 + Count, 0, X32Bit)
  BY <1>1, Layout DEF Instr
<1>5. packet.arch = AuditArch[host] /\ acc = Nr
  <2>1. pc \in 2..(H + Count + 1)
    BY <1>3, <1>4
  <2>2. packet.arch = AuditArch[host] /\ (Count > 0 => acc = Nr)
    BY <1>1, <1>3, <1>4, <2>1 DEF SInv, Progress
  <2>3. Count > 0
    BY <1>1, <1>3, CountPositive DEF SInv, Built
  <2> QED
    BY <2>2, <2>3
<1>6. pc' = IF Nr >= X32Bit THEN 4 + Count + 2 ELSE 4
  BY <1>1, <1>2, <1>3, <1>4, <1>5 DEF Instr
<1>7. \A i \in 1..Count : ~(i + H - 1 < 4)
  BY <1>3, <1>4
<1> QED
  BY <1>1, <1>2, <1>3, <1>4, <1>5, <1>6, <1>7, StepKeeps

\* Each of the three returns is reached only by the calls it is right for.
LEMMA ReturnKeeps == ASSUME SInv, Return PROVE SInv'
<1>1. /\ phase = "run" /\ phase' = "decided" /\ program[pc].op = "ret"
      /\ verdict' = program[pc].k /\ acc' = acc /\ pc' = pc
      /\ UNCHANGED <<host, deny, action, outcome, order, program, packet>>
  BY DEF Return, Running
<1>2. acc \in Nat /\ pc \in Nat /\ Nr \in Nat /\ Nr = packet.nr /\ X32Bit \in Nat
  BY NumberAssumption DEF SInv, Nr
<1>3. Count \in Nat /\ H \in {3, 4}
  BY <1>1, Layout
<1>4. pc \in {H + Count, H + Count + 1, H + Count + 2}
  BY <1>1, Layout DEF Instr
<1>5. (\E i \in 1..Count : order[i] = Nr) <=> (\E name \in deny : Table[host][name] = Nr)
  BY <1>1, OrderListsDenied DEF SInv, Built
<1>6. Guarded(host) <=> host = X32Arch
  BY DEF Guarded
<1>7. verdict' = Expected(packet.arch, packet.nr)
  <2>1. CASE pc = H + Count
    <3>1. verdict' = "allow"
      BY <1>1, <2>1, Layout DEF Instr
    <3>2. /\ packet.arch = AuditArch[host] /\ (Guarded(host) => Nr < X32Bit)
          /\ \A i \in 1..Count : i + H - 1 < pc => order[i] # Nr
      BY <1>1, <1>3, <2>1 DEF SInv, Progress
    <3>3. \A i \in 1..Count : i + H - 1 < pc
      BY <1>3, <2>1
    <3> QED
      BY <1>2, <1>5, <1>6, <3>1, <3>2, <3>3 DEF Expected
  <2>2. CASE pc = H + Count + 1
    <3>1. verdict' = action
      BY <1>1, <1>3, <2>2, Layout DEF Instr
    <3>2. /\ packet.arch = AuditArch[host] /\ (Guarded(host) => Nr < X32Bit)
          /\ \E i \in 1..Count : order[i] = Nr
      BY <1>1, <1>3, <2>2 DEF SInv, Progress
    <3> QED
      BY <1>2, <1>5, <1>6, <3>1, <3>2 DEF Expected
  <2>3. CASE pc = H + Count + 2
    <3>1. verdict' = "kill"
      BY <1>1, <1>3, <2>3, Layout DEF Instr
    <3>2. packet.arch # AuditArch[host] \/ (Guarded(host) /\ Nr >= X32Bit)
      BY <1>1, <1>3, <2>3 DEF SInv, Progress
    <3> QED
      BY <1>2, <1>6, <3>1, <3>2 DEF Expected
  <2> QED
    BY <1>4, <2>1, <2>2, <2>3
<1> QED
  BY <1>1, <1>2, <1>7, StepKeeps

-----------------------------------------------------------------------------
\* Every step of the build and of the kernel keeps the invariant.
LEMMA InvNext == SInv /\ [Next]_vars => SInv'
<1> SUFFICES ASSUME SInv, [Next]_vars PROVE SInv'
  OBVIOUS
<1>1. CASE UNCHANGED vars
  BY <1>1 DEF vars, SInv, Built, Compilable, Count, Progress, H, Nr, Guarded, FilterDecidesPolicy, Expected
<1>2. CASE CompileNothing \/ CompileUnknown \/ CompileTooLong
  BY <1>2 DEF CompileNothing, CompileUnknown, CompileTooLong, SInv, Built, Progress, FilterDecidesPolicy
<1>3. CASE Compile
  <2>1. /\ Compilable' /\ Count' = Count /\ outcome' = "filter" /\ phase' = "load" /\ pc = 0
        /\ UNCHANGED <<host, deny, action, packet, pc, acc>>
    BY <1>3 DEF Compile, Compilable, Count, SInv
  <2>2. order' \in Sorted(DeniedNumbers(host, deny)) /\ program' = Program(host, order', Count, action)
    BY <1>3 DEF Compile
  <2>3. Jump(1, KillIdx(host, Count)) <= MaxJump
    BY <1>3 DEF Compile
  <2>4. Built'
    BY <2>1, <2>2, <2>3 DEF Built
  <2> QED
    BY <2>1, <2>4 DEF SInv, Progress, FilterDecidesPolicy
<1>4. ASSUME NEW t \in Tokens, NEW n \in Numbers, Syscall(t, n)
      PROVE SInv'
  <2>1. /\ phase = "load" /\ pc = 0 /\ pc' = 0 /\ outcome = "filter" /\ phase' = "run"
        /\ UNCHANGED <<host, deny, action, outcome, order, program, acc>>
    BY <1>4 DEF Syscall, SInv
  <2>2. packet' \in [arch : Nat, nr : Nat]
    BY <1>4, NumberAssumption DEF Syscall
  <2>3. Built' /\ Count' = Count /\ H' = H /\ Count \in Nat /\ H \in {3, 4}
    BY <2>1, CountType DEF SInv, Built, Compilable, Count, H, HeadLen
  <2>4. Progress'
    BY <2>1, <2>3 DEF Progress
  <2> QED
    BY <2>1, <2>2, <2>3, <2>4 DEF SInv, FilterDecidesPolicy
<1> QED
  BY <1>1, <1>2, <1>3, <1>4, LoadKeeps, JumpEqKeeps, JumpGeKeeps, ReturnKeeps DEF Next, Build, Step

\* The compiled filter and the policy agree on every call of every ABI.
THEOREM FilterIsPolicy == Spec => []FilterDecidesPolicy
<1>1. Init => SInv
  BY InvInit
<1>2. SInv /\ [Next]_vars => SInv'
  BY InvNext
<1>3. SInv => FilterDecidesPolicy
  BY DEF SInv
<1> QED
  BY <1>1, <1>2, <1>3, PTL DEF Spec

\* The one check on instruction 1 bounds every jump of the program.
THEOREM JumpsAlwaysFit == Spec => []JumpsFit
<1>1. ASSUME SInv, outcome = "filter", NEW i \in DOMAIN program
      PROVE /\ program[i].jt \in 0..MaxJump /\ program[i].jf \in 0..MaxJump
            /\ program[i].op # "ret" =>
                 /\ i + 1 + program[i].jt \in DOMAIN program
                 /\ i + 1 + program[i].jf \in DOMAIN program
  <2>1. /\ Compilable /\ program = Program(host, order, Count, action)
        /\ order \in Sorted(DeniedNumbers(host, deny))
        /\ Jump(1, KillIdx(host, Count)) <= MaxJump
    BY <1>1 DEF SInv, Built
  <2>2. Count \in Nat /\ Count > 0
    BY <1>1, <2>1, CountType, CountPositive DEF SInv
  <2>3. /\ H \in {3, 4} /\ H = HeadLen(host) /\ MaxJump \in Nat
        /\ AllowIdx(host, Count) = H + Count
        /\ DenyIdx(host, Count) = H + Count + 1
        /\ KillIdx(host, Count) = H + Count + 2
        /\ H + Count <= MaxJump
    BY <2>1, <2>2, NumberAssumption DEF H, HeadLen, AllowIdx, DenyIdx, KillIdx, Jump
  <2>4. DOMAIN program = 0..(H + Count + 2) /\ i \in 0..(H + Count + 2)
    BY <1>1, <2>1, <2>3 DEF Program
  <2>5. CASE i \in {0, 2}
    <3>1. program[i].jt = 0 /\ program[i].jf = 0
      BY <2>1, <2>3, <2>4, <2>5 DEF Program, Instr
    <3> QED
      BY <2>2, <2>3, <2>4, <2>5, <3>1
  <2>6. CASE i = 1
    <3>1. program[i].jt = 0 /\ program[i].jf = H + Count
      BY <2>1, <2>2, <2>3, <2>4, <2>6 DEF Program, Instr, Jump
    <3> QED
      BY <2>2, <2>3, <2>4, <2>6, <3>1
  <2>7. CASE i = 3 /\ H = 4
    <3>1. program[i].jt = Count + 2 /\ program[i].jf = 0
      BY <2>1, <2>2, <2>3, <2>4, <2>7 DEF Program, Instr, Jump
    <3> QED
      BY <2>2, <2>3, <2>4, <2>7, <3>1
  <2>8. CASE i \in H..(H + Count - 1)
    <3>1. i # 0 /\ i # 1 /\ i # 2 /\ ~(i < HeadLen(host)) /\ i < AllowIdx(host, Count)
      BY <2>2, <2>3, <2>8
    <3>2. program[i].jt = Jump(i, DenyIdx(host, Count)) /\ program[i].jf = 0
      BY <2>1, <2>3, <2>4, <3>1 DEF Program, Instr
    <3>3. program[i].jt = H + Count - i
      BY <2>2, <2>3, <2>8, <3>2 DEF Jump
    <3> QED
      BY <2>2, <2>3, <2>4, <2>8, <3>2, <3>3
  <2>9. CASE i \in (H + Count)..(H + Count + 2)
    <3>1. i # 0 /\ i # 1 /\ i # 2 /\ ~(i < HeadLen(host)) /\ ~(i < AllowIdx(host, Count))
      BY <2>2, <2>3, <2>9
    <3>2. program[i].op = "ret" /\ program[i].jt = 0 /\ program[i].jf = 0
      BY <2>1, <2>3, <2>4, <3>1 DEF Program, Instr
    <3> QED
      BY <2>3, <3>2
  <2> QED
    BY <2>2, <2>3, <2>4, <2>5, <2>6, <2>7, <2>8, <2>9
<1>2. SInv => JumpsFit
  BY <1>1 DEF JumpsFit
<1>3. Init => SInv
  BY InvInit
<1>4. SInv /\ [Next]_vars => SInv'
  BY InvNext
<1> QED
  BY <1>2, <1>3, <1>4, PTL DEF Spec

\* A command is left without a filter only where nothing is denied, or there is
\* no table.
Unfiltered == outcome = "unfiltered" => deny = {} \/ host \notin Archs

\* No denied name goes missing: the program of a list of any length tests each
\* of its numbers, and where there is none the build said so.
THEOREM EveryNameIsTested == Spec => []NothingDropsOut
<1>1. ASSUME SInv, outcome = "filter", NEW name \in deny
      PROVE  \E i \in DOMAIN program : program[i].op = "jeq" /\ i > 1 /\ program[i].k = Table[host][name]
  <2>1. /\ Compilable /\ program = Program(host, order, Count, action)
        /\ order \in Sorted(DeniedNumbers(host, deny))
    BY <1>1 DEF SInv, Built
  <2>2. Count \in Nat
    BY <1>1, <2>1, CountType DEF SInv
  <2>3. PICK n \in 1..Count : order[n] = Table[host][name]
    BY <2>1, OrderListsDenied
  <2>4. /\ H \in {3, 4} /\ H = HeadLen(host) /\ AllowIdx(host, Count) = H + Count
        /\ KillIdx(host, Count) = H + Count + 2
    BY <2>2 DEF H, HeadLen, AllowIdx, DenyIdx, KillIdx
  <2> DEFINE i == H + n - 1
  <2>5. /\ i \in 0..KillIdx(host, Count) /\ i > 1 /\ i # 0 /\ i # 1 /\ i # 2
        /\ ~(i < HeadLen(host)) /\ i < AllowIdx(host, Count) /\ i - HeadLen(host) + 1 = n
    BY <2>2, <2>4
  <2> HIDE DEF i
  <2>6. program[i] = Instr("jeq", Jump(i, DenyIdx(host, Count)), 0, order[n]) /\ i \in DOMAIN program
    BY <2>1, <2>5 DEF Program
  <2> QED
    BY <2>3, <2>5, <2>6 DEF Instr
<1>2. SInv /\ Unfiltered => NothingDropsOut
  BY <1>1 DEF Unfiltered, NothingDropsOut
<1>3. Init => SInv /\ Unfiltered
  BY InvInit DEF Init, Unfiltered
<1>4. Unfiltered /\ [Next]_vars => Unfiltered'
  <2> SUFFICES ASSUME Unfiltered, [Next]_vars PROVE Unfiltered'
    OBVIOUS
  <2>1. CASE UNCHANGED vars
    BY <2>1 DEF vars, Unfiltered
  <2>2. CASE Build
    BY <2>2 DEF Build, CompileNothing, CompileUnknown, CompileTooLong, Compile, Unfiltered
  <2>3. CASE Step
    BY <2>3 DEF Step, Load, JumpEq, JumpGe, Branch, Return, Unfiltered
  <2>4. ASSUME NEW t \in Tokens, NEW n \in Numbers, Syscall(t, n) PROVE Unfiltered'
    BY <2>4 DEF Syscall, Unfiltered
  <2> QED
    BY <2>1, <2>2, <2>3, <2>4 DEF Next
<1> QED
  BY <1>2, <1>3, <1>4, InvNext, PTL DEF Spec
=============================================================================
