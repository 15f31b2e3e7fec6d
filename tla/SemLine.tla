------------------------------- MODULE SemLine -------------------------------
(***************************************************************************)
(* A semaphore as the modules above the kernel use it: a count and a first *)
(* come, first served line of waiting processes.  Kernel has the system    *)
(* calls themselves, with states and priorities of processes, and proves   *)
(* that a negative count is the number of processes in line; here they are *)
(* operators on a record.  A process that is released leaves the line, but *)
(* goes on with its call only when it is dispatched: in between it is      *)
(* nowhere but in the call, and anything may happen to what it waited for. *)
(***************************************************************************)
EXTENDS Integers, Sequences, SequencesExt

NewSem(n) == [count |-> n, line |-> <<>>]

InLine(s) == Range(s.line)

\* Units nobody has taken.
Units(s) == IF s.count > 0 THEN s.count ELSE 0

SemWait(s, p) ==
    [count |-> s.count - 1,
     line  |-> IF s.count - 1 < 0 THEN Append(s.line, p) ELSE s.line]

SemSignal(s) ==
    [count |-> s.count + 1,
     line  |-> IF s.count < 0 THEN Tail(s.line) ELSE s.line]

\* semreset, and semdelete with n = 0: everybody is released.
SemReset(n) == NewSem(n)

\* What kill does to the semaphore its victim waits for.
SemKill(s, p) ==
    IF p \in InLine(s) THEN [count |-> s.count + 1, line |-> RemoveFirst(s.line, p)]
                       ELSE s
=============================================================================
