------------------------------ MODULE Channels ------------------------------
(***************************************************************************)
(* What ports promise: a port that is open is a queue of bounded capacity, *)
(* and a caller that a port was closed under does nothing to it any more,  *)
(* however often the port has been opened again since.  Ports implements   *)
(* this specification; a reset is a close followed by an open.             *)
(***************************************************************************)
EXTENDS Integers, Sequences

CONSTANTS Process, Channel, Message, Nothing

VARIABLES open,    \* the channels that are open
          cap,     \* how many messages each may hold
          chan,    \* the messages each holds
          doing,   \* the call each process waits in
          late,    \* processes whose channel was closed since they called
          got      \* the message each process was given last

cvars == <<open, cap, chan, doing, late, got>>

None == [op |-> "none"]

CInit ==
    /\ open = {}
    /\ cap  = [i \in Channel |-> 0]
    /\ chan = [i \in Channel |-> <<>>]
    /\ doing = [p \in Process |-> None]
    /\ late = {}
    /\ got  = [p \in Process |-> Nothing]

Open(i) ==
    /\ i \notin open
    /\ chan[i] = <<>>
    /\ open' = open \cup {i}
    /\ cap'[i] \in Nat /\ cap' = [cap EXCEPT ![i] = cap'[i]]
    /\ UNCHANGED <<chan, doing, late, got>>

Close(i) ==
    /\ i \in open
    /\ open' = open \ {i}
    /\ chan' = [chan EXCEPT ![i] = <<>>]
    /\ late' = late \cup {p \in Process : doing[p] # None /\ doing[p].chan = i}
    /\ UNCHANGED <<cap, doing, got>>

Begin(p, op, i, m) ==
    /\ i \in open
    /\ doing[p] = None
    /\ doing' = [doing EXCEPT ![p] = [op |-> op, chan |-> i, msg |-> m]]
    /\ UNCHANGED <<open, cap, chan, late, got>>

\* At once, or at the end of a wait.
May(p, op, i, m) ==
    /\ i \in open
    /\ p \notin late
    /\ doing[p] \in {None, [op |-> op, chan |-> i, msg |-> m]}
    /\ doing' = [doing EXCEPT ![p] = None]
    /\ UNCHANGED <<open, cap, late>>

Put(p, i, m) ==
    /\ May(p, "send", i, m)
    /\ Len(chan[i]) < cap[i]
    /\ chan' = [chan EXCEPT ![i] = Append(@, m)]
    /\ UNCHANGED got

Get(p, i) ==
    /\ May(p, "recv", i, Nothing)
    /\ chan[i] # <<>>
    /\ got'  = [got EXCEPT ![p] = Head(chan[i])]
    /\ chan' = [chan EXCEPT ![i] = Tail(@)]

\* The call fails, or its process is killed.
GiveUp(p) ==
    /\ doing[p] # None
    /\ doing' = [doing EXCEPT ![p] = None]
    /\ late'  = late \ {p}
    /\ UNCHANGED <<open, cap, chan, got>>

CNext ==
    \/ \E i \in Channel : Open(i) \/ Close(i)
    \/ \E p \in Process, i \in Channel :
          \/ \E m \in Message : Begin(p, "send", i, m) \/ Put(p, i, m)
          \/ Begin(p, "recv", i, Nothing) \/ Get(p, i)
    \/ \E p \in Process : GiveUp(p)

CSpec == CInit /\ [][CNext]_cvars
=============================================================================
