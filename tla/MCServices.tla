----------------------------- MODULE MCServices ------------------------------
(***************************************************************************)
(* What the kernel offers above processes and semaphores, on small         *)
(* instances: ports, buffer pools with their memory, the measurements of   *)
(* the file system, and the shell.  They share no state; to check them in  *)
(* one run each behaviour works with one of them and leaves the others     *)
(* alone, so that the state space is their sum.                            *)
(***************************************************************************)
EXTENDS Ports, Pools, FsBench, Shell, TLC

VARIABLE service    \* the one this behaviour works with

svcvars == <<portvars, poolvars, benchvars, shellvars, service>>

MCHeap == <<[addr |-> 1, len |-> 3], [addr |-> 5, len |-> 2]>>

MCInit ==
    /\ PortsInit /\ PoolsInit /\ BenchInit /\ ShellInit
    /\ service \in {"ports", "pools", "bench", "shell"}

MCNext ==
    /\ UNCHANGED service
    /\ \/ service = "ports" /\ PortsNext /\ UNCHANGED <<poolvars, benchvars, shellvars>>
       \/ service = "pools" /\ PoolsNext /\ UNCHANGED <<portvars, benchvars, shellvars>>
       \/ service = "bench" /\ BenchNext /\ UNCHANGED <<portvars, poolvars, shellvars>>
       \/ service = "shell" /\ ShellNext /\ UNCHANGED <<portvars, poolvars, benchvars>>

MCSpec == MCInit /\ [][MCNext]_svcvars

\* The same model values stand for the users of ports and of pools,
\* and for commands.
MCSymmetry == Permutations(Proc) \cup Permutations(Worker)
=============================================================================
