------------------------------- MODULE Kernel -------------------------------
(***************************************************************************)
(* The process manager of the Xinu kernel: scheduling, semaphores,         *)
(* messages, timed delays, creation and termination (system/*.c).          *)
(*                                                                         *)
(* Every system call runs with interrupts disabled, so it is one action up *)
(* to the point where resched switches context.  Whatever the call still   *)
(* has to do when its process runs again is that process's continuation,   *)
(* cont[pid]; it is "user" when the process is outside the kernel.  A loop *)
(* that runs under deferred rescheduling is a continuation too, and takes  *)
(* one step per iteration: nothing else is enabled until it ends.          *)
(*                                                                         *)
(* A call that fails its checks returns SYSERR and changes nothing, which  *)
(* is a stuttering step.                                                   *)
(***************************************************************************)
EXTENDS Sched

CONSTANTS NSEM,      \* number of semaphore table entries
          Syscalls,  \* the system calls the processes make
          Prios,     \* priorities given to create and chprio
          Counts,    \* counts given to semcreate, semreset and signaln
          Delays,    \* ticks given to sleepms and recvtime
          MaxCount   \* bound on the count of a semaphore

ASSUME NSEMAssumption     == NSEM \in Nat /\ NSEM >= 1
ASSUME PriosAssumption    == Prios \subseteq Nat \ {0}
ASSUME CountsAssumption   == Counts \subseteq Nat
ASSUME DelaysAssumption   == Delays \subseteq Nat
ASSUME MaxCountAssumption == MaxCount \in Nat

VARIABLES sched,      \* the scheduler's globals: see Sched
          cont,       \* what each process still has to do in the kernel
          prsem,      \* proctab[].prsem
          prhasmsg,   \* proctab[].prhasmsg
          prparent,   \* proctab[].prparent
          sstate,     \* semtab[].sstate
          scount,     \* semtab[].scount
          squeue,     \* the queue semtab[].squeue
          sleepq,     \* the sleep queue, a delta list
          prcount,    \* number of live processes, as the kernel counts it
          nextpid,    \* newpid's static index
          nextsem     \* newsem's static index

procvars == <<prsem, prhasmsg, prparent, prcount, nextpid>>
semvars  == <<sstate, scount, squeue, nextsem>>
vars     == <<sched, cont, procvars, semvars, sleepq>>

Sem     == 0 .. NSEM-1
ContOps == {"user", "kill", "xdone", "receive", "recvtime", "signaln",
            "semdelete", "semreset", "wakeup", "clkhandler"}

Cont(op, obj, n) == [op |-> op, obj |-> obj, n |-> n]
User == Cont("user", 0, 0)

Cur      == sched.currpid
State(p) == sched.prstate[p]
At(op)   == cont[Cur].op = op

\* isbadpid; every pid of the model is in the range of the table.
IsBadPid(p) == State(p) = "FREE"

\* The current process may make the system call: it runs outside the kernel,
\* and it is not the null process, whose code is an empty loop.
Sys(call) == call \in Syscalls /\ At("user") /\ Cur # NULLPROC

\* The current process goes on in the kernel, or leaves it.
Goto(c) == cont' = [cont EXCEPT ![Cur] = c]

-----------------------------------------------------------------------------
\* nulluser, once it has resumed the main process.
Init ==
    /\ sched = [prstate   |-> [p \in Pid |-> IF p = 0 THEN "READY"
                                             ELSE IF p = 1 THEN "CURR" ELSE "FREE"],
                prprio    |-> [p \in Pid |-> IF p = 1 THEN 1 ELSE 0],
                qkey      |-> [p \in Pid |-> 0],
                readylist |-> <<NULLPROC>>,
                currpid   |-> 1,
                preempt   |-> QUANTUM,
                ndefers   |-> 0,
                attempt   |-> FALSE]
    /\ cont     = [p \in Pid |-> User]
    /\ prsem    = [p \in Pid |-> -1]
    /\ prhasmsg = [p \in Pid |-> FALSE]
    /\ prparent = [p \in Pid |-> NULLPROC]
    /\ prcount  = 2
    /\ nextpid  = 2
    /\ sstate   = [s \in Sem |-> "S_FREE"]
    /\ scount   = [s \in Sem |-> 0]
    /\ squeue   = [s \in Sem |-> <<>>]
    /\ nextsem  = 0
    /\ sleepq   = <<>>

-----------------------------------------------------------------------------
\* Processes: create, resume, suspend, chprio, yield.

\* newpid: the first free entry at or after nextpid, going round the table.
FreeOffsets == {i \in 0 .. NPROC-1 : State((nextpid + i) % NPROC) = "FREE"}

\* getstk may fail (stack = FALSE) once newpid has moved nextpid on.
Create(prio, stack) ==
    /\ Sys("create")
    /\ FreeOffsets # {}
    /\ LET pid == (nextpid + Min(FreeOffsets)) % NPROC
       IN  /\ nextpid' = pid + 1
           /\ \/ /\ stack
                 /\ sched'    = [sched EXCEPT !.prstate[pid] = "SUSP",
                                              !.prprio[pid]  = prio]
                 /\ cont'     = [cont EXCEPT ![pid] = User]
                 /\ prsem'    = [prsem EXCEPT ![pid] = -1]
                 /\ prparent' = [prparent EXCEPT ![pid] = Cur]
                 /\ prhasmsg' = [prhasmsg EXCEPT ![pid] = FALSE]
                 /\ prcount'  = prcount + 1
              \/ /\ ~stack
                 /\ UNCHANGED <<sched, cont, prsem, prparent, prhasmsg, prcount>>
    /\ UNCHANGED <<semvars, sleepq>>

\* Mutant of Resume: a process in receive counts as suspended.
ResumeReceiver(pid) ==
    /\ Sys("resume")
    /\ State(pid) \in {"SUSP", "RECV"}
    /\ sched' = Ready(sched, pid)
    /\ UNCHANGED <<cont, procvars, semvars, sleepq>>

Resume(pid) ==
    /\ Sys("resume")
    /\ State(pid) = "SUSP"
    /\ sched' = Ready(sched, pid)
    /\ UNCHANGED <<cont, procvars, semvars, sleepq>>

Suspend(pid) ==
    /\ Sys("suspend")
    /\ pid # NULLPROC
    /\ \/ /\ State(pid) = "READY"
          /\ sched' = [sched EXCEPT !.readylist    = GetItem(@, pid),
                                    !.prstate[pid] = "SUSP"]
       \/ /\ State(pid) = "CURR"
          /\ sched' = Block(sched, "SUSP")
    /\ UNCHANGED <<cont, procvars, semvars, sleepq>>

\* chprio leaves a process on the ready list where its old priority put it.
Chprio(pid, newprio) ==
    /\ Sys("chprio")
    /\ ~IsBadPid(pid)
    /\ sched' = [sched EXCEPT !.prprio[pid] = newprio]
    /\ UNCHANGED <<cont, procvars, semvars, sleepq>>

Yield ==
    /\ Sys("yield")
    /\ sched' = Resched(sched)
    /\ UNCHANGED <<cont, procvars, semvars, sleepq>>

-----------------------------------------------------------------------------
\* Messages: send, receive, recvclr, recvtime.

\* The body of send, also called by kill: nothing happens if there is no such
\* process or a message is already waiting for it; a recipient in receive or
\* recvtime is made ready.
Deliver(pid) ==
    \/ /\ IsBadPid(pid) \/ prhasmsg[pid]
       /\ UNCHANGED <<sched, prhasmsg, sleepq>>
    \/ /\ ~IsBadPid(pid) /\ ~prhasmsg[pid]
       /\ prhasmsg' = [prhasmsg EXCEPT ![pid] = TRUE]
       /\ \/ /\ State(pid) = "RECV"
             /\ sched' = Ready(sched, pid)
             /\ UNCHANGED sleepq
          \/ /\ State(pid) = "RECTIM"
             /\ sched'  = Ready([sched EXCEPT !.qkey = UnsleepKeys(sleepq, @, pid)], pid)
             /\ sleepq' = GetItem(sleepq, pid)
          \/ /\ State(pid) \notin {"RECV", "RECTIM"}
             /\ UNCHANGED <<sched, sleepq>>

Send(pid) ==
    /\ Sys("send")
    /\ Deliver(pid)
    /\ UNCHANGED <<cont, prsem, prparent, prcount, nextpid, semvars>>

\* Both ways of taking the message: at once, or after the wait.
TakeMessage == prhasmsg' = [prhasmsg EXCEPT ![Cur] = FALSE]

Receive ==
    /\ Sys("receive")
    /\ \/ /\ prhasmsg[Cur]
          /\ TakeMessage
          /\ UNCHANGED <<sched, cont>>
       \/ /\ ~prhasmsg[Cur]
          /\ Goto(Cont("receive", 0, 0))
          /\ sched' = Block(sched, "RECV")
          /\ UNCHANGED prhasmsg
    /\ UNCHANGED <<prsem, prparent, prcount, nextpid, semvars, sleepq>>

ReceiveEnd ==
    /\ At("receive")
    /\ TakeMessage
    /\ Goto(User)
    /\ UNCHANGED <<sched, prsem, prparent, prcount, nextpid, semvars, sleepq>>

Recvclr ==
    /\ Sys("recvclr")
    /\ TakeMessage
    /\ UNCHANGED <<sched, cont, prsem, prparent, prcount, nextpid, semvars, sleepq>>

\* insertd on the sleep queue and the block that follows it.
SleepAs(state, delay) ==
    /\ sleepq' = Insertd(sleepq, sched.qkey, Cur, delay)
    /\ sched'  = Block([sched EXCEPT !.qkey = InsertdKeys(sleepq, @, Cur, delay)], state)

Recvtime(maxwait) ==
    /\ Sys("recvtime")
    /\ \/ /\ prhasmsg[Cur]
          /\ TakeMessage
          /\ UNCHANGED <<sched, cont, sleepq>>
       \/ /\ ~prhasmsg[Cur]
          /\ Goto(Cont("recvtime", 0, 0))
          /\ SleepAs("RECTIM", maxwait)
          /\ UNCHANGED prhasmsg
    /\ UNCHANGED <<prsem, prparent, prcount, nextpid, semvars>>

\* A message has arrived or the timer has expired: without a message the
\* call returns TIMEOUT and the flag keeps its value.
RecvtimeEnd ==
    /\ At("recvtime")
    /\ TakeMessage
    /\ Goto(User)
    /\ UNCHANGED <<sched, prsem, prparent, prcount, nextpid, semvars, sleepq>>

\* sleepms; a delay of 0 is a yield.
Sleepms(delay) ==
    /\ Sys("sleepms")
    /\ IF delay = 0 THEN sched' = Resched(sched) /\ UNCHANGED sleepq
                    ELSE SleepAs("SLEEP", delay)
    /\ UNCHANGED <<cont, procvars, semvars>>

-----------------------------------------------------------------------------
\* Semaphores: wait, signal, signaln, semcreate, semdelete, semreset.

Wait(sem) ==
    /\ Sys("wait")
    /\ sstate[sem] = "S_USED"
    /\ scount' = [scount EXCEPT ![sem] = @ - 1]
    /\ IF scount[sem] - 1 < 0
       THEN /\ prsem'  = [prsem EXCEPT ![Cur] = sem]
            /\ squeue' = [squeue EXCEPT ![sem] = Enqueue(@, Cur)]
            /\ sched'  = Block(sched, "WAIT")
       ELSE UNCHANGED <<prsem, squeue, sched>>
    /\ UNCHANGED <<cont, prhasmsg, prparent, prcount, nextpid, sstate, nextsem, sleepq>>

\* Mutant of ReleaseFirst: firstid instead of dequeue.
ReleaseLinked(sem) ==
    IF IsEmpty(squeue[sem])
    THEN UNCHANGED <<sched, squeue>>
    ELSE sched' = Ready(sched, Head(squeue[sem])) /\ UNCHANGED squeue

\* ready(dequeue(squeue)): ready rejects the EMPTY of an empty queue.
ReleaseFirst(sem) ==
    IF IsEmpty(squeue[sem])
    THEN UNCHANGED <<sched, squeue>>
    ELSE /\ sched'  = Ready(sched, Head(squeue[sem]))
         /\ squeue' = [squeue EXCEPT ![sem] = Tail(@)]

\* Mutant of Signal1: ++scount < 0.
Signal1Late(sem) ==
    /\ scount' = [scount EXCEPT ![sem] = @ + 1]
    /\ IF scount[sem] + 1 < 0 THEN ReleaseFirst(sem) ELSE UNCHANGED <<sched, squeue>>

\* if (scount++ < 0) ready(dequeue(squeue))
Signal1(sem) ==
    /\ scount' = [scount EXCEPT ![sem] = @ + 1]
    /\ IF scount[sem] < 0 THEN ReleaseFirst(sem) ELSE UNCHANGED <<sched, squeue>>

Signal(sem) ==
    /\ Sys("signal")
    /\ sstate[sem] = "S_USED"
    /\ scount[sem] < MaxCount
    /\ Signal1(sem)
    /\ UNCHANGED <<cont, procvars, sstate, nextsem, sleepq>>

Signaln(sem, count) ==
    /\ Sys("signaln")
    /\ sstate[sem] = "S_USED"
    /\ scount[sem] + count <= MaxCount
    /\ sched' = DeferStart(sched)
    /\ Goto(Cont("signaln", sem, count))
    /\ UNCHANGED <<procvars, semvars, sleepq>>

SignalnLoop ==
    /\ At("signaln")
    /\ LET sem == cont[Cur].obj
           n   == cont[Cur].n
       IN  IF n > 0
           THEN Signal1(sem) /\ Goto(Cont("signaln", sem, n - 1))
           ELSE sched' = DeferStop(sched) /\ Goto(User) /\ UNCHANGED <<scount, squeue>>
    /\ UNCHANGED <<procvars, sstate, nextsem, sleepq>>

\* newsem: the first free entry at or after nextsem, going round the table.
FreeSemOffsets == {i \in 0 .. NSEM-1 : sstate[(nextsem + i) % NSEM] = "S_FREE"}

Semcreate(count) ==
    /\ Sys("semcreate")
    /\ FreeSemOffsets # {}
    /\ LET sem == (nextsem + Min(FreeSemOffsets)) % NSEM
       IN  /\ sstate'  = [sstate EXCEPT ![sem] = "S_USED"]
           /\ scount'  = [scount EXCEPT ![sem] = count]
           /\ nextsem' = (sem + 1) % NSEM
    /\ UNCHANGED <<sched, cont, procvars, squeue, sleepq>>

Semdelete(sem) ==
    /\ Sys("semdelete")
    /\ sstate[sem] = "S_USED"
    /\ sstate' = [sstate EXCEPT ![sem] = "S_FREE"]
    /\ sched'  = DeferStart(sched)
    /\ Goto(Cont("semdelete", sem, 0))
    /\ UNCHANGED <<procvars, scount, squeue, nextsem, sleepq>>

\* while (scount++ < 0) ready(getfirst(squeue))
SemdeleteLoop ==
    /\ At("semdelete")
    /\ LET sem == cont[Cur].obj
       IN  /\ scount' = [scount EXCEPT ![sem] = @ + 1]
           /\ IF scount[sem] < 0
              THEN ReleaseFirst(sem) /\ UNCHANGED cont
              ELSE sched' = DeferStop(sched) /\ Goto(User) /\ UNCHANGED squeue
    /\ UNCHANGED <<procvars, sstate, nextsem, sleepq>>

Semreset(sem, count) ==
    /\ Sys("semreset")
    /\ sstate[sem] = "S_USED"
    /\ sched' = DeferStart(sched)
    /\ Goto(Cont("semreset", sem, count))
    /\ UNCHANGED <<procvars, semvars, sleepq>>

SemresetLoop ==
    /\ At("semreset")
    /\ LET sem == cont[Cur].obj
       IN  IF ~IsEmpty(squeue[sem])
           THEN ReleaseFirst(sem) /\ UNCHANGED <<cont, scount>>
           ELSE /\ scount' = [scount EXCEPT ![sem] = cont[Cur].n]
                /\ sched'  = DeferStop(sched)
                /\ Goto(User)
                /\ UNCHANGED squeue
    /\ UNCHANGED <<procvars, sstate, nextsem, sleepq>>

-----------------------------------------------------------------------------
\* Termination.

\* Mutant of Killable: a free entry may be killed.
KillableFree(pid) == pid # NULLPROC

\* kill's checks.
Killable(pid) == pid # NULLPROC /\ ~IsBadPid(pid)

\* kill up to its send to the parent, which may switch to the parent.  Once
\* prcount falls to 1 xdone halts the processor.
Kill(pid) ==
    /\ Sys("kill")
    /\ Killable(pid)
    /\ prcount' = prcount - 1
    /\ IF prcount' <= 1
       THEN Goto(Cont("xdone", 0, 0)) /\ UNCHANGED <<sched, prhasmsg, sleepq>>
       ELSE Goto(Cont("kill", pid, 0)) /\ Deliver(prparent[pid])
    /\ UNCHANGED <<prsem, prparent, nextpid, semvars>>

\* Mutant of LeaveSemaphore: the count keeps the dead waiter.
LeaveUncounted(pid) ==
    /\ squeue' = [squeue EXCEPT ![prsem[pid]] = GetItem(@, pid)]
    /\ UNCHANGED scount

\* A waiter is killed: its place is given back, and it leaves the queue.
LeaveSemaphore(pid) ==
    /\ scount' = [scount EXCEPT ![prsem[pid]] = @ + 1]
    /\ squeue' = [squeue EXCEPT ![prsem[pid]] = GetItem(@, pid)]

\* The rest of kill: the stack is freed and the entry leaves whatever queue
\* it is on by now.
KillEnd ==
    /\ At("kill")
    /\ LET pid   == cont[Cur].obj
           freed == [sched EXCEPT !.prstate[pid] = "FREE"]
       IN  /\ cont' = [cont EXCEPT ![Cur] = User, ![pid] = User]
           /\ \/ /\ State(pid) = "CURR"
                 /\ sched' = Resched(freed)
                 /\ UNCHANGED <<sleepq, scount, squeue>>
              \/ /\ State(pid) \in {"SLEEP", "RECTIM"}
                 /\ sched'  = [freed EXCEPT !.qkey = UnsleepKeys(sleepq, @, pid)]
                 /\ sleepq' = GetItem(sleepq, pid)
                 /\ UNCHANGED <<scount, squeue>>
              \/ /\ State(pid) = "WAIT"
                 /\ LeaveSemaphore(pid)
                 /\ sched' = freed
                 /\ UNCHANGED sleepq
              \/ /\ State(pid) = "READY"
                 /\ sched' = [freed EXCEPT !.readylist = GetItem(@, pid)]
                 /\ UNCHANGED <<sleepq, scount, squeue>>
              \/ /\ State(pid) \in {"SUSP", "RECV", "FREE"}
                 /\ sched' = freed
                 /\ UNCHANGED <<sleepq, scount, squeue>>
    /\ UNCHANGED <<procvars, sstate, nextsem>>

-----------------------------------------------------------------------------
\* The clock: clkhandler and wakeup.

\* The end of clkhandler: count the tick against the time slice.
Preempt(s) ==
    IF s.preempt - 1 <= 0 THEN Resched([s EXCEPT !.preempt = QUANTUM])
                          ELSE [s EXCEPT !.preempt = @ - 1]

\* A clock interrupt arrives only while interrupts are enabled.
Clkhandler ==
    /\ At("user")
    /\ IF IsEmpty(sleepq)
       THEN sched' = Preempt(sched) /\ UNCHANGED cont
       ELSE LET s == [sched EXCEPT !.qkey[Head(sleepq)] = @ - 1]
            IN  IF s.qkey[Head(sleepq)] <= 0
                THEN sched' = DeferStart(s) /\ Goto(Cont("wakeup", 0, 0))
                ELSE sched' = Preempt(s) /\ UNCHANGED cont
    /\ UNCHANGED <<procvars, semvars, sleepq>>

Wakeup ==
    /\ At("wakeup")
    /\ IF ~IsEmpty(sleepq) /\ sched.qkey[Head(sleepq)] <= 0
       THEN /\ sched'  = Ready(sched, Head(sleepq))
            /\ sleepq' = Tail(sleepq)
            /\ UNCHANGED cont
       ELSE /\ sched' = DeferStop(sched)
            /\ Goto(Cont("clkhandler", 0, 0))
            /\ UNCHANGED sleepq
    /\ UNCHANGED <<procvars, semvars>>

\* The interrupted process gets back from wakeup, perhaps after others ran.
ClkhandlerEnd ==
    /\ At("clkhandler")
    /\ sched' = Preempt(sched)
    /\ Goto(User)
    /\ UNCHANGED <<procvars, semvars, sleepq>>

-----------------------------------------------------------------------------
\* The kernel goes on with the call, the loop or the handler it is in.
Kernel ==
    \/ ReceiveEnd    \/ RecvtimeEnd  \/ KillEnd
    \/ SignalnLoop   \/ SemdeleteLoop \/ SemresetLoop
    \/ Wakeup        \/ ClkhandlerEnd

Syscall ==
    \/ \E prio \in Prios, stack \in BOOLEAN : Create(prio, stack)
    \/ \E pid \in Pid : Resume(pid) \/ Suspend(pid) \/ Send(pid) \/ Kill(pid)
    \/ \E pid \in Pid, prio \in Prios : Chprio(pid, prio)
    \/ Yield \/ Receive \/ Recvclr
    \/ \E delay \in Delays : Recvtime(delay) \/ Sleepms(delay)
    \/ \E sem \in Sem : Wait(sem) \/ Signal(sem) \/ Semdelete(sem)
    \/ \E sem \in Sem, count \in Counts : Signaln(sem, count) \/ Semreset(sem, count)
    \/ \E count \in Counts : Semcreate(count)

Next == Syscall \/ Kernel \/ Clkhandler

Spec == Init /\ [][Next]_vars

\* Code in the kernel runs on: interrupts are off and nothing can stop it.
\* The timer interrupts at a fixed rate; it is held pending while interrupts
\* are off, so a system call can delay it but never lose it (SF).
Fairness == WF_vars(Kernel) /\ SF_vars(Clkhandler)

FairSpec == Spec /\ Fairness

-----------------------------------------------------------------------------
\* Every global has a value of its type; the loops run one defer deep.
TypeOK ==
    /\ sched \in [prstate : [Pid -> PrState], prprio : [Pid -> Nat],
                  qkey : [Pid -> Int], readylist : Seq(Pid), currpid : Pid,
                  preempt : 1 .. QUANTUM, ndefers : 0 .. 1, attempt : BOOLEAN]
    /\ cont \in [Pid -> [op : ContOps, obj : Pid \cup Sem, n : Nat]]
    /\ prsem \in [Pid -> Sem \cup {-1}]
    /\ prhasmsg \in [Pid -> BOOLEAN]
    /\ prparent \in [Pid -> Pid]
    /\ prcount \in Int
    /\ nextpid \in 1 .. NPROC
    /\ sstate \in [Sem -> {"S_FREE", "S_USED"}]
    /\ scount \in [Sem -> Int]
    /\ squeue \in [Sem -> Seq(Pid)]
    /\ nextsem \in Sem
    /\ sleepq \in Seq(Pid)

InState(states) == {p \in Pid : State(p) \in states}

\* A process is on the queue its state names, once, and on no other: the
\* ready list, the sleep queue, or the queue of the semaphore in prsem; the
\* one current process is currpid.  getitem and unsleep unlink a process by
\* its state alone and would corrupt another queue were this false.
QueuesMatchStates ==
    /\ IsInjective(sched.readylist) /\ Range(sched.readylist) = InState({"READY"})
    /\ IsInjective(sleepq) /\ Range(sleepq) = InState({"SLEEP", "RECTIM"})
    /\ \A sem \in Sem :
          /\ IsInjective(squeue[sem])
          /\ Range(squeue[sem]) = {p \in InState({"WAIT"}) : prsem[p] = sem}
    /\ InState({"CURR"}) = {Cur}

\* A negative count says how many processes wait, and with a count of zero or
\* more none does; only semreset, between its loop and its assignment, has a
\* count that says too much.  signal trusts it before it dequeues.
CountsMatchQueues ==
    \A sem \in Sem :
        \/ At("semreset") /\ cont[Cur].obj = sem
        \/ Len(squeue[sem]) = IF scount[sem] < 0 THEN -scount[sem] ELSE 0

\* Whenever a process is outside the kernel, nothing is deferred and no ready
\* process has a higher priority: no handler forgets a resched, and no
\* attempt made under deferral is lost.
HighestPriorityRuns ==
    At("user") => /\ sched.ndefers = 0
                  /\ \A p \in InState({"READY"}) : sched.prprio[p] <= sched.prprio[Cur]

\* A process blocked in receive or recvtime has no message waiting, and one
\* that is back from receive has: receive never returns a stale prmsg, whoever
\* suspended, resumed or preempted the process in between.
MessageBeforeReceiveReturns ==
    \A p \in Pid :
        /\ State(p) \in {"RECV", "RECTIM"} => ~prhasmsg[p]
        /\ cont[p].op = "receive" /\ State(p) # "RECV" => prhasmsg[p]

\* prcount is the number of live processes (initialize.c: "Total number of
\* live processes"), less the victims of the kills in progress.
Live    == Pid \ InState({"FREE"})
Victims == {cont[p].obj : p \in {k \in Live : cont[k].op = "kill"}}

PrcountIsLive ==
    At("user") => prcount = Cardinality(Live) - Cardinality(Victims \cap Live)

\* resched: "Reschedule processor to highest priority eligible process": the
\* process that gets the processor has the highest priority of those that
\* could have had it.
SwitchToHighest ==
    [][Cur' # Cur => \A p \in InState({"READY"})' :
                        sched'.prprio[p] <= sched'.prprio[Cur']]_vars

\* Time slicing: a ready process that nobody outranks does not wait for ever,
\* however the processes of its own priority behave.
RoundRobin ==
    \A p \in Pid :
        (State(p) = "READY" /\ \A prio \in Prios : prio <= sched.prprio[p])
            ~> State(p) # "READY"

\* sleepms: "Delay the calling process n milliseconds": a delay is over at
\* some time, whatever else is put on the sleep queue in the meantime.
SleepersWake == \A p \in Pid : State(p) = "SLEEP" ~> State(p) # "SLEEP"
=============================================================================
