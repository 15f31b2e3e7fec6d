------------------------------- MODULE Queues -------------------------------
(***************************************************************************)
(* Process queues (system/queue.c, insert.c, insertd.c, getitem.c).        *)
(*                                                                         *)
(* A queue of the kernel is a doubly linked list threaded through          *)
(* queuetab[], with one node per process; here it is the sequence of the   *)
(* process ids from head to tail.  The node's qkey is kept apart, as in    *)
(* the code: qkey is a function from process ids to integers, shared by    *)
(* the ready list (a priority) and the sleep queue (a delta).              *)
(***************************************************************************)
EXTENDS Integers, Sequences, SequencesExt

\* isempty(q) and getfirst/dequeue on an empty queue: dequeue returns EMPTY.
IsEmpty(q) == q = <<>>

\* Mutant of Enqueue: at the head.
EnqueueFirst(q, pid) == <<pid>> \o q

\* enqueue: the new node goes just before the tail node.
Enqueue(q, pid) == Append(q, pid)

\* getitem: unlink one process, wherever it is.
GetItem(q, pid) == RemoveAt(q, CHOOSE i \in DOMAIN q : q[i] = pid)

\* insert: skip every node whose key is >= the new key (the tail's key is
\* MINKEY, so the scan stops there at the latest).
InsertPos(q, qkey, key) ==
    Min({i \in DOMAIN q : qkey[q[i]] < key} \cup {Len(q) + 1})

Insert(q, qkey, pid, key) == InsertAt(q, InsertPos(q, qkey, key), pid)

-----------------------------------------------------------------------------
\* insertd walks the delta list while the node's key is <= what is left of
\* the new key.  Ahead(q, qkey)[i] is what the scan has subtracted once it is
\* past the i-th node.
Ahead(q, qkey) ==
    LET sum[i \in 0..Len(q)] == IF i = 0 THEN 0 ELSE sum[i-1] + qkey[q[i]]
    IN  sum

InsertdPos(q, qkey, key) ==
    LET ahead == Ahead(q, qkey)
    IN  Min({i \in DOMAIN q : ahead[i] > key} \cup {Len(q) + 1})

\* insertd: the list with pid linked in.
Insertd(q, qkey, pid, key) == InsertAt(q, InsertdPos(q, qkey, key), pid)

\* Mutant of InsertdKeys: the node after the new one keeps its delta.
InsertdKeysKept(q, qkey, pid, key) ==
    [qkey EXCEPT ![pid] = key - Ahead(q, qkey)[InsertdPos(q, qkey, key) - 1]]

\* insertd: the keys it leaves: pid's own delta, and the delta of the node
\* after it made smaller by as much.
InsertdKeys(q, qkey, pid, key) ==
    LET i == InsertdPos(q, qkey, key)
        k == key - Ahead(q, qkey)[i-1]
    IN  [p \in DOMAIN qkey |-> IF p = pid THEN k
                               ELSE IF i <= Len(q) /\ p = q[i] THEN qkey[p] - k
                               ELSE qkey[p]]

\* unsleep: the node after pid, if there is one, inherits pid's delta.
UnsleepKeys(q, qkey, pid) ==
    [p \in DOMAIN qkey |->
        IF \E i \in 2..Len(q) : q[i-1] = pid /\ q[i] = p
        THEN qkey[p] + qkey[pid] ELSE qkey[p]]
=============================================================================
