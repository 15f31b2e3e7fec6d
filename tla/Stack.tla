-------------------------------- MODULE Stack --------------------------------
(***************************************************************************)
(* The buffers of the network stack (net/net.c, net/ip.c and what they     *)
(* call).  There is one pool; netin takes a buffer for each packet that    *)
(* comes, and the packet keeps it on its way through the queues of the     *)
(* endpoints or, for the answer to an echo request, a second one through   *)
(* the output queue of ipout.  Processes that send take one themselves.    *)
(* Whoever finds the pool empty waits, netin with everything behind it.    *)
(*                                                                         *)
(* Udp and Icmp have the tables of endpoints; here they are two counts.  A *)
(* buffer that is there is taken in a step of its own, after SemWait, as   *)
(* one that had to be waited for.                                          *)
(*                                                                         *)
(* StackCareless says what the stack leaves to chance:                     *)
(*   "kill"   a process is killed while it has a buffer: it is lost        *)
(*   "slow"   a packet is put into the output queue while ipout, released  *)
(*            by an earlier one, has not run; its priority sees to that    *)
(*   "flood"  a reply comes for an endpoint whose ring is full: icmp_in    *)
(*            does not look, and the oldest packet in the ring is lost     *)
(*   "wrap"   icmp_recv takes the packet from behind the end of the ring:  *)
(*            the one that it should have taken is lost                    *)
(* What such a ring holds twice afterwards is not followed.                *)
(***************************************************************************)
EXTENDS SemLine, FiniteSets, FiniteSetsExt

CONSTANTS NetSender,      \* processes that send
          UdpRoom,        \* packets the UDP endpoints hold
          IcmpRoom,       \* packets the ICMP endpoints hold, ...
          ICMP_QSIZ,      \* ... and each of them
          IP_OQSIZ,       \* length of the output queue
          StackCareless

ASSUME StackAssumption ==
    /\ {UdpRoom, IcmpRoom, ICMP_QSIZ, IP_OQSIZ} \subseteq Nat \ {0}
    /\ {"netin", "ipout"} \cap NetSender = {}
    /\ StackCareless \subseteq {"kill", "slow", "flood", "wrap"}

VARIABLES netbufpool,     \* the pool's semaphore
          udpq, icmpq,    \* buffers queued for receivers
          ipoqueue,       \* output queue: ring and indices
          iqsem,
          task            \* what netin, ipout and the senders are at

stackvars == <<netbufpool, udpq, icmpq, ipoqueue, iqsem, task>>

Holder == NetSender \cup {"netin", "ipout"}
Resting == [at |-> "idle"]

\* net_init: a buffer for each place in a queue, and one for netin.
nbufs == UdpRoom + IcmpRoom + 1

StackInit ==
    /\ netbufpool = NewSem(nbufs)
    /\ udpq = 0 /\ icmpq = 0
    /\ ipoqueue = [iqhead |-> 0, iqtail |-> 0, iqbuf |-> [i \in 0 .. IP_OQSIZ-1 |-> "none"]]
    /\ iqsem = NewSem(0)
    /\ task = [h \in Holder |-> Resting]

\* getbuf, on the way to the step t; n buffers are given back first.
Freed(sem, n) == IF n = 0 THEN sem ELSE IF n = 1 THEN SemSignal(sem) ELSE SemSignal(SemSignal(sem))

Getbuf(h, t) ==
    /\ netbufpool' = SemWait(netbufpool, h)
    /\ task' = [task EXCEPT ![h] = t]

GotBuf(h, at) == task[h].at = at /\ h \notin InLine(netbufpool)

Finishes(h, n) ==
    /\ netbufpool' = Freed(netbufpool, n)
    /\ task' = [task EXCEPT ![h] = Resting]

\* ip_local: udp_in queues a packet if there is an endpoint for it with room.
\* icmp_in queues a reply whenever there is an endpoint: it is the remote side
\* that sends no more than there is room for, or "flood".
Deliver(h, proto) ==
    \/ Finishes(h, 1) /\ UNCHANGED <<udpq, icmpq>>
    \/ /\ proto = "udp" /\ udpq < UdpRoom
       /\ udpq' = udpq + 1 /\ Finishes(h, 0) /\ UNCHANGED icmpq
    \/ /\ proto = "reply" /\ icmpq < IcmpRoom
       /\ icmpq' = icmpq + 1 /\ Finishes(h, 0) /\ UNCHANGED udpq
    \/ /\ proto = "reply" /\ icmpq >= ICMP_QSIZ /\ "flood" \in StackCareless
       /\ Finishes(h, 0) /\ UNCHANGED <<udpq, icmpq>>

\* icmp_in with an echo request: a second buffer is needed, the first is kept.
Answer(h, to) == Getbuf(h, [at |-> "reply", to |-> to]) /\ UNCHANGED <<udpq, icmpq>>

-----------------------------------------------------------------------------
NetinGetbuf ==
    /\ task["netin"] = Resting
    /\ Getbuf("netin", [at |-> "read"])
    /\ UNCHANGED <<udpq, icmpq, ipoqueue, iqsem>>

\* A packet comes: "other" stands for ARP (which answers out of its own memory)
\* and for everything that is dropped.
NetinReads(proto) ==
    /\ GotBuf("netin", "read")
    /\ IF proto = "request" THEN Answer("netin", "remote") ELSE Deliver("netin", proto)
    /\ UNCHANGED <<ipoqueue, iqsem>>

\* Mutant of QueueFull: one more is let in.
QueueFullLate == iqsem.count > IP_OQSIZ

\* ip_enqueue goes by the semaphore of the queue, not by its indices.
QueueFull == iqsem.count >= IP_OQSIZ

\* icmp_mkpkt has its buffer: ip_enqueue, and the request is given back.
Reply(h) ==
    /\ GotBuf(h, "reply")
    /\ "slow" \in StackCareless \/ task["ipout"].at # "take" \/ "ipout" \in InLine(iqsem)
    /\ \/ /\ QueueFull
          /\ Finishes(h, 2)
          /\ UNCHANGED <<ipoqueue, iqsem>>
       \/ /\ ~QueueFull
          /\ ipoqueue' = [ipoqueue EXCEPT !.iqbuf[ipoqueue.iqtail] = task[h].to,
                                          !.iqtail = (@ + 1) % IP_OQSIZ]
          /\ iqsem' = SemSignal(iqsem)
          /\ Finishes(h, 1)
    /\ UNCHANGED <<udpq, icmpq>>

IpoutWaits ==
    /\ task["ipout"] = Resting
    /\ iqsem' = SemWait(iqsem, "ipout")
    /\ task'  = [task EXCEPT !["ipout"] = [at |-> "take"]]
    /\ UNCHANGED <<netbufpool, udpq, icmpq, ipoqueue>>

\* A packet without a route is dropped, one for this machine delivered; for
\* the others ipout waits in arp_resolve, and for the Ethernet in ip_out.
IpoutTakes ==
    /\ task["ipout"].at = "take" /\ "ipout" \notin InLine(iqsem)
    /\ LET pkt == ipoqueue.iqbuf[ipoqueue.iqhead]
       IN  /\ ipoqueue' = [ipoqueue EXCEPT !.iqbuf[ipoqueue.iqhead] = "none",
                                           !.iqhead = (@ + 1) % IP_OQSIZ]
           /\ \/ pkt # "local" /\ Finishes("ipout", 1) /\ UNCHANGED <<udpq, icmpq>>
              \/ /\ pkt # "local" /\ task' = [task EXCEPT !["ipout"] = [at |-> "resolve"]]
                 /\ UNCHANGED <<netbufpool, udpq, icmpq>>
              \/ pkt = "local" /\ Deliver("ipout", "reply")
    /\ UNCHANGED iqsem

\* The address is there and the packet is sent, or it is not: the buffer is
\* given back.
Resolved(h) ==
    /\ task[h].at = "resolve"
    /\ Finishes(h, 1)
    /\ UNCHANGED <<udpq, icmpq, ipoqueue, iqsem>>

-----------------------------------------------------------------------------
\* udp_send, udp_sendto and icmp_send, to a station, to UDP or ICMP of this
\* machine, or to nowhere (ip_send finds no next hop).
Send(p, dest) ==
    /\ task[p] = Resting
    /\ Getbuf(p, [at |-> "getbuf", to |-> dest])
    /\ UNCHANGED <<udpq, icmpq, ipoqueue, iqsem>>

IpSend(p) ==
    /\ GotBuf(p, "getbuf")
    /\ \/ task[p].to = "nowhere" /\ Finishes(p, 1) /\ UNCHANGED <<udpq, icmpq>>
       \/ task[p].to = "udp" /\ Deliver(p, "udp")
       \/ task[p].to = "self" /\ Answer(p, "local")
       \/ /\ task[p].to = "station" /\ task' = [task EXCEPT ![p] = [at |-> "resolve"]]
          /\ UNCHANGED <<netbufpool, udpq, icmpq>>
    /\ UNCHANGED <<ipoqueue, iqsem>>

\* A receiver takes a packet, or its slot is released with those that wait.
NetReceive ==
    /\ \/ udpq > 0 /\ udpq' = udpq - 1 /\ UNCHANGED icmpq
       \/ icmpq > 0 /\ icmpq' = icmpq - 1 /\ UNCHANGED udpq
    /\ \/ netbufpool' = SemSignal(netbufpool)
       \/ "wrap" \in StackCareless /\ UNCHANGED <<udpq, netbufpool>>
    /\ UNCHANGED <<ipoqueue, iqsem, task>>

\* kill knows nothing of the buffers of its victim.
KillSender(p) ==
    /\ task[p] # Resting
    /\ "kill" \in StackCareless \/ (task[p].at = "getbuf" /\ p \in InLine(netbufpool))
    /\ netbufpool' = SemKill(netbufpool, p)
    /\ task' = [task EXCEPT ![p] = Resting]
    /\ UNCHANGED <<udpq, icmpq, ipoqueue, iqsem>>

StackNext ==
    \/ NetinGetbuf \/ \E proto \in {"other", "udp", "reply", "request"} : NetinReads(proto)
    \/ IpoutWaits \/ IpoutTakes \/ NetReceive
    \/ \E h \in Holder : Reply(h) \/ Resolved(h)
    \/ \E p \in NetSender :
          \/ \E dest \in {"nowhere", "udp", "self", "station"} : Send(p, dest)
          \/ IpSend(p) \/ KillSender(p)

StackSpec == StackInit /\ [][StackNext]_stackvars

-----------------------------------------------------------------------------
\* Buffers a holder has, the one it has been let in for included.
Has(h) ==
    CASE task[h].at = "resolve" -> 1
      [] task[h].at \in {"read", "getbuf"} -> IF h \in InLine(netbufpool) THEN 0 ELSE 1
      [] task[h].at = "reply" -> IF h \in InLine(netbufpool) THEN 1 ELSE 2
      [] OTHER -> 0

Having(n) == {h \in Holder : Has(h) >= n}

Waiting == {i \in DOMAIN ipoqueue.iqbuf : ipoqueue.iqbuf[i] # "none"}

\* No buffer is lost or in two places, but for what StackCareless names (icmp.c:87,
\* :201 and kill lose some): one that is not in the pool is in a queue or with
\* somebody who will give it back.  The output queue, whose only
\* guard is the count of its semaphore (ip.c:454), has what iqsem says, from
\* its head on.  And if anybody waits for a buffer then there is one that comes
\* back without his help: not all are with processes that wait for another.
NetBuffersOwned ==
    /\ nbufs = Units(netbufpool) + Cardinality(Having(1)) + Cardinality(Having(2))
                 + udpq + icmpq + Cardinality(Waiting)
    /\ Cardinality(Waiting) = Units(iqsem)
         + (IF task["ipout"].at = "take" /\ "ipout" \notin InLine(iqsem) THEN 1 ELSE 0)
    /\ Waiting = {(ipoqueue.iqhead + k) % IP_OQSIZ : k \in 0 .. Cardinality(Waiting)-1}
    /\ netbufpool.line # <<>> =>
          \/ udpq + icmpq > 0 \/ Waiting # {}
          \/ \E h \in Holder : Has(h) > 0 /\ h \notin InLine(netbufpool)
=============================================================================
