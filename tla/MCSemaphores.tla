---------------------------- MODULE MCSemaphores -----------------------------
(***************************************************************************)
(* The semaphores of Kernel on a small instance, in two parts so that the  *)
(* state space is a sum: "reset" has every operation on a semaphore and    *)
(* two priorities, and "kill" has processes of one priority that are       *)
(* suspended and killed while they run or wait, on semaphores created with *)
(* a count of 0.                                                           *)
(***************************************************************************)
EXTENDS KernelRefinement

SemSyscalls == {"create", "resume", "suspend", "kill", "wait", "signal", "signaln",
                "semcreate", "semdelete", "semreset"}

VARIABLE part    \* the one this behaviour works on

semsteps == <<vars, part>>

SemInit == Init /\ part \in {"reset", "kill"}

ResetCalls ==
    \/ \E prio \in Prios, stack \in BOOLEAN : Create(prio, stack)
    \/ \E sem \in Sem : Semdelete(sem)
    \/ \E sem \in Sem, count \in Counts : Signaln(sem, count) \/ Semreset(sem, count)
    \/ \E count \in Counts : Semcreate(count)

\* A halted processor stays halted.
KillCalls ==
    \/ \E stack \in BOOLEAN : Create(Min(Prios), stack)
    \/ \E pid \in Pid : Suspend(pid) \/ Kill(pid)
    \/ Semcreate(0)
    \/ At("xdone") /\ UNCHANGED vars

SemNext ==
    /\ UNCHANGED part
    /\ \/ part = "reset" /\ ResetCalls
       \/ part = "kill"  /\ KillCalls
       \/ \E pid \in Pid : Resume(pid)
       \/ \E sem \in Sem : Wait(sem) \/ Signal(sem)
       \/ Kernel \/ Clkhandler

SemSpec == SemInit /\ [][SemNext]_semsteps
=============================================================================
