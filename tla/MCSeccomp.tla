----------------------------- MODULE MCSeccomp -----------------------------
(* Two small architectures: x86_64, with the x32 bit at 4 and two names for *)
(* one number, and aarch64, which lacks a name. With MaxJump = 6 three      *)
(* denied numbers fit on aarch64 and are one too many on x86_64.            *)
EXTENDS Seccomp

MCArchs == {"x86_64", "aarch64"}
MCHosts == MCArchs \cup {"riscv64"}
MCNames == {"bpf", "keyctl", "io_uring", "uring_alias"}
MCTable ==
    [a \in MCArchs |->
       IF a = "x86_64"
         THEN [n \in MCNames |-> CASE n = "bpf" -> 0 [] n = "keyctl" -> 3 [] OTHER -> 2]
         ELSE [n \in MCNames \ {"uring_alias"} |-> CASE n = "bpf" -> 3 [] n = "keyctl" -> 0 [] OTHER -> 1]]
MCAuditArch == [a \in MCArchs |-> IF a = "x86_64" THEN 9 ELSE 8]
MCTokens == {7, 8, 9}
MCNumbers == 0..7
=============================================================================
