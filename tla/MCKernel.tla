------------------------------ MODULE MCKernel ------------------------------
(***************************************************************************)
(* Small instances of Kernel for TLC.  Each specification makes some of    *)
(* the system calls, which aims a run at one part of the kernel; create    *)
(* and resume make the processes come and go in both.                      *)
(***************************************************************************)
EXTENDS KernelRefinement

AllSyscalls == {"create", "resume", "suspend", "chprio", "yield", "kill", "send",
                "receive", "recvclr", "recvtime", "sleepms", "wait", "signal",
                "signaln", "semcreate", "semdelete", "semreset"}

Clock == Clkhandler \/ Wakeup \/ ClkhandlerEnd

\* Messages and the clock against everything that ends a wait.
MsgNext ==
    \/ \E prio \in Prios, stack \in BOOLEAN : Create(prio, stack)
    \/ \E pid \in Pid : Resume(pid) \/ Suspend(pid) \/ Send(pid) \/ Kill(pid)
    \/ \E pid \in Pid, prio \in Prios : Chprio(pid, prio)
    \/ Yield \/ Receive \/ Recvclr
    \/ \E delay \in Delays : Recvtime(delay) \/ Sleepms(delay)
    \/ ReceiveEnd \/ RecvtimeEnd \/ KillEnd \/ Clock

MsgSpec == Init /\ [][MsgNext]_vars

\* Processes that compute, sleep, are suspended and give way.
LiveNext ==
    \/ \E prio \in Prios, stack \in BOOLEAN : Create(prio, stack)
    \/ \E pid \in Pid : Resume(pid) \/ Suspend(pid)
    \/ Yield \/ \E delay \in Delays : Sleepms(delay)
    \/ Clock

LiveSpec == Init /\ [][LiveNext]_vars /\ Fairness
=============================================================================
