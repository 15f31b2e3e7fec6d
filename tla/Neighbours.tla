----------------------------- MODULE Neighbours ------------------------------
(***************************************************************************)
(* What address resolution promises: one process at a time asks for an     *)
(* address, and an answer is the hardware address that the station with    *)
(* that address has given last.                                            *)
(***************************************************************************)
CONSTANTS Asker, Station, Hardware, Nobody

VARIABLES given,    \* the hardware address each station has given last
          asking,   \* the station each process is asking for
          answer    \* what each was told last: a station and its address

nbvars == <<given, asking, answer>>

NbInit ==
    /\ given  = [a \in Station |-> Nobody]
    /\ asking = [p \in Asker |-> Nobody]
    /\ answer = [p \in Asker |-> <<Nobody, Nobody>>]

Give ==
    /\ \E a \in Station, h \in Hardware : given' = [given EXCEPT ![a] = h]
    /\ UNCHANGED <<asking, answer>>

Ask(p) ==
    /\ asking[p] = Nobody
    /\ \E a \in Station :
          /\ \A q \in Asker : asking[q] # a
          /\ asking' = [asking EXCEPT ![p] = a]
    /\ UNCHANGED <<given, answer>>

Tell(p, a) ==
    /\ given[a] # Nobody
    /\ answer' = [answer EXCEPT ![p] = <<a, given[a]>>]

Told(p) ==
    /\ asking[p] # Nobody
    /\ Tell(p, asking[p])
    /\ asking' = [asking EXCEPT ![p] = Nobody]
    /\ UNCHANGED given

ToldAtOnce(p) ==
    /\ asking[p] = Nobody
    /\ \E a \in Station : Tell(p, a)
    /\ UNCHANGED <<given, asking>>

GiveUp(p) ==
    /\ asking[p] # Nobody
    /\ asking' = [asking EXCEPT ![p] = Nobody]
    /\ UNCHANGED <<given, answer>>

NbNext == Give \/ \E p \in Asker : Ask(p) \/ Told(p) \/ ToldAtOnce(p) \/ GiveUp(p)

NbSpec == NbInit /\ [][NbNext]_nbvars
=============================================================================
