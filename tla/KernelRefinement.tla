-------------------------- MODULE KernelRefinement --------------------------
(***************************************************************************)
(* The semaphores of Kernel implement Semaphores.  A negative scount holds *)
(* no units: it counts the waiters.  The count of a deleted semaphore      *)
(* means nothing.                                                          *)
(***************************************************************************)
EXTENDS Kernel

Promise == INSTANCE Semaphores WITH
    Process   <- Pid,
    Semaphore <- Sem,
    used      <- {s \in Sem : sstate[s] = "S_USED"},
    units     <- [s \in Sem |-> IF sstate[s] = "S_USED" /\ scount[s] > 0
                                THEN scount[s] ELSE 0],
    waiting   <- squeue

\* Every step of the kernel is a step the promise of Semaphores allows.
SemaphoresRefined == Promise!ASpec
=============================================================================
