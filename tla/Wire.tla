-------------------------------- MODULE Wire ---------------------------------
(***************************************************************************)
(* What a network interface promises: frames leave in the order in which   *)
(* they were handed over, each once; frames that were not lost on the way  *)
(* in are read in the order in which they came, each at most once, and     *)
(* nobody gets one that is not addressed to this station or to a group it  *)
(* has joined.                                                             *)
(***************************************************************************)
EXTENDS Sequences, Naturals

CONSTANTS Client, Payload, Address, Group, Nothing

VARIABLES out,      \* frames on their way out
          sent,     \* what left last
          in,       \* addresses of the frames that have come and wait
          got,      \* what each client has read last
          joined    \* the groups of this station

wirevars == <<out, sent, in, got, joined>>

Meant(a) == a \in Address \ Group \/ a \in joined

WireInit ==
    /\ out = <<>> /\ sent = Nothing
    /\ in = <<>> /\ got = [c \in Client |-> Nothing]
    /\ joined = {}

HandOver == \E f \in Payload : out' = Append(out, f) /\ UNCHANGED <<sent, in, got, joined>>

Leave ==
    /\ out # <<>>
    /\ sent' = Head(out) /\ out' = Tail(out)
    /\ UNCHANGED <<in, got, joined>>

Come == \E a \in Address : in' = Append(in, a) /\ UNCHANGED <<out, sent, got, joined>>

Others(k) == \A j \in 1 .. k : ~Meant(in[j])

\* Frames for others are dropped on the way to the first that is meant.
Read(c) ==
    \E k \in DOMAIN in :
       /\ Others(k-1) /\ Meant(in[k])
       /\ got' = [got EXCEPT ![c] = in[k]]
       /\ in'  = SubSeq(in, k+1, Len(in))
       /\ UNCHANGED <<out, sent, joined>>

DropOthers ==
    \E k \in DOMAIN in :
       /\ Others(k)
       /\ in' = SubSeq(in, k+1, Len(in))
       /\ UNCHANGED <<out, sent, got, joined>>

JoinOrLeave == joined' \in SUBSET Group /\ UNCHANGED <<out, sent, in, got>>

WireNext == HandOver \/ Leave \/ Come \/ DropOthers \/ JoinOrLeave \/ \E c \in Client : Read(c)

WireSpec == WireInit /\ [][WireNext]_wirevars
=============================================================================
