----------------------------- MODULE Semaphores -----------------------------
(***************************************************************************)
(* What the counting semaphores of the kernel promise, without processes'  *)
(* states, priorities or rescheduling: a semaphore is a number of free     *)
(* units and a first-come first-served line of waiters.  Kernel implements *)
(* this specification; KernelRefinement gives the mapping.                 *)
(***************************************************************************)
EXTENDS Integers, Sequences, SequencesExt

CONSTANTS Process, Semaphore

VARIABLES used,     \* the semaphores that exist
          units,    \* units nobody has taken
          waiting   \* the line of waiters, first come first

avars == <<used, units, waiting>>

InLine == UNION {Range(waiting[s]) : s \in Semaphore}

AInit ==
    /\ used = {}
    /\ units = [s \in Semaphore |-> 0]
    /\ waiting = [s \in Semaphore |-> <<>>]

\* wait: take a unit if there is one, else join the end of the line.
P(s, p) ==
    /\ s \in used
    /\ p \notin InLine
    /\ \/ /\ units[s] > 0
          /\ units' = [units EXCEPT ![s] = @ - 1]
          /\ UNCHANGED waiting
       \/ /\ units[s] = 0
          /\ waiting' = [waiting EXCEPT ![s] = Append(@, p)]
          /\ UNCHANGED units
    /\ UNCHANGED used

\* signal, and each round of signaln: a unit goes to whoever has waited
\* longest, and only becomes free when nobody waits.
V(s) ==
    /\ s \in used
    /\ waiting[s] = <<>>
    /\ units' = [units EXCEPT ![s] = @ + 1]
    /\ UNCHANGED <<used, waiting>>

\* A waiter is let go: by a signal, a reset or a deletion.
Release(s) ==
    /\ waiting[s] # <<>>
    /\ waiting' = [waiting EXCEPT ![s] = Tail(@)]
    /\ UNCHANGED <<used, units>>

\* A waiter is killed: the only way out of the middle of the line.
Leave(s, p) ==
    /\ p \in Range(waiting[s])
    /\ waiting' = [waiting EXCEPT ![s] = RemoveFirst(@, p)]
    /\ UNCHANGED <<used, units>>

\* The semaphore gets some number of units.
Refill(s) == units'[s] \in Nat /\ units' = [units EXCEPT ![s] = units'[s]]

\* semcreate never hands out a semaphore somebody still waits on.
New(s) ==
    /\ s \notin used
    /\ waiting[s] = <<>>
    /\ used' = used \cup {s}
    /\ Refill(s)
    /\ UNCHANGED waiting

Delete(s) ==
    /\ s \in used
    /\ used' = used \ {s}
    /\ units' = [units EXCEPT ![s] = 0]
    /\ UNCHANGED waiting

\* semreset, once its waiters are gone.
Reset(s) ==
    /\ s \in used
    /\ waiting[s] = <<>>
    /\ Refill(s)
    /\ UNCHANGED <<used, waiting>>

ANext ==
    \E s \in Semaphore :
        \/ \E p \in Process : P(s, p) \/ Leave(s, p)
        \/ V(s) \/ Release(s) \/ New(s) \/ Delete(s) \/ Reset(s)

ASpec == AInit /\ [][ANext]_avars
=============================================================================
