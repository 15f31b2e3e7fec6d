------------------------------- MODULE Sched -------------------------------
(***************************************************************************)
(* The scheduler (system/resched.c, system/ready.c) as operators on a      *)
(* record of the globals it reads and writes:                              *)
(*                                                                         *)
(*   prstate, prprio   the fields of proctab[] of that name                *)
(*   qkey              queuetab[pid].qkey                                  *)
(*   readylist         the ready list, head first                          *)
(*   currpid, preempt  the globals of that name                            *)
(*   ndefers, attempt  the two fields of struct defer Defer                *)
(*                                                                         *)
(* The handlers of Kernel compose these operators, so that one action      *)
(* stands for a whole system call up to the point where ctxsw switches.    *)
(***************************************************************************)
EXTENDS Queues

CONSTANTS NPROC,    \* number of process table entries
          QUANTUM   \* clock ticks in a time slice

ASSUME NPROCAssumption == NPROC \in Nat /\ NPROC >= 2
ASSUME QUANTUMAssumption == QUANTUM \in Nat /\ QUANTUM >= 1

Pid      == 0 .. NPROC-1
NULLPROC == 0

PrState == {"FREE", "CURR", "READY", "RECV", "SLEEP", "SUSP", "WAIT", "RECTIM"}

\* insert(pid, readylist, prprio), with the state change both callers make.
MakeReady(s, pid) ==
    [s EXCEPT !.prstate[pid] = "READY",
              !.readylist    = Insert(@, s.qkey, pid, s.prprio[pid]),
              !.qkey[pid]    = s.prprio[pid]]

\* The end of resched: dequeue the head, make it current, give it a quantum.
Switch(s) ==
    LET new == Head(s.readylist)
    IN  [s EXCEPT !.currpid      = new,
                  !.readylist    = Tail(@),
                  !.prstate[new] = "CURR",
                  !.preempt      = QUANTUM]

\* Mutant of OutranksReady: >= instead of >.
OutranksEqual(s) ==
    IsEmpty(s.readylist) \/ s.prprio[s.currpid] >= s.qkey[Head(s.readylist)]

\* prprio > firstkey(readylist); the key of an empty list is MINKEY.
OutranksReady(s) ==
    IsEmpty(s.readylist) \/ s.prprio[s.currpid] > s.qkey[Head(s.readylist)]

Resched(s) ==
    IF s.ndefers > 0                       THEN [s EXCEPT !.attempt = TRUE]
    ELSE IF s.prstate[s.currpid] # "CURR"  THEN Switch(s)
    ELSE IF OutranksReady(s)               THEN s
    ELSE Switch(MakeReady(s, s.currpid))

Ready(s, pid) == Resched(MakeReady(s, pid))

\* resched_cntl(DEFER_START) and resched_cntl(DEFER_STOP).
DeferStart(s) ==
    [s EXCEPT !.ndefers = @ + 1,
              !.attempt = IF s.ndefers = 0 THEN FALSE ELSE @]

\* Mutants of DeferStop: the attempt made under deferral is forgotten; the
\* defer is not counted back.
DeferStopForgets(s) == [s EXCEPT !.ndefers = @ - 1]
DeferStopUncounted(s) == IF s.attempt THEN Resched(s) ELSE s

DeferStop(s) ==
    LET t == [s EXCEPT !.ndefers = @ - 1]
    IN  IF s.ndefers <= 0                   THEN s
        ELSE IF t.ndefers = 0 /\ s.attempt  THEN Resched(t)
        ELSE t

\* The caller leaves the processor: its new state, then resched.
Block(s, state) == Resched([s EXCEPT !.prstate[s.currpid] = state])
=============================================================================
