--------------------------------- MODULE Udp ---------------------------------
(***************************************************************************)
(* UDP endpoints (net/udp.c): a table of slots, each with a queue of       *)
(* packets that netin fills and a process that may wait for one.           *)
(* udp_recv and udp_recvaddr differ in what they return only.              *)
(***************************************************************************)
EXTENDS Mailbox, Integers, Sequences, FiniteSets, FiniteSetsExt

CONSTANTS UDP_SLOTS,    \* entries of the table
          UDP_QSIZ,     \* packets queued per endpoint
          UdpPort,         \* local ports
          Remote,       \* remote addresses with their ports
          AnyRemote     \* the zero that stands for any

ASSUME UdpAssumption ==
    /\ UDP_SLOTS \in Nat \ {0} /\ UDP_QSIZ \in Nat \ {0}
    /\ AnyRemote \notin Remote

VARIABLE udptab

UdpSlot == 1 .. UDP_SLOTS
NoOne   == "-1"

UdpInit ==
    udptab = [s \in UdpSlot |-> [udstate |-> "UDP_FREE", udlocport |-> CHOOSE l \in UdpPort : TRUE,
                                 udremote |-> AnyRemote, udqueue |-> <<>>, udcount |-> 0,
                                 udpid |-> NoOne]]

UsedSlots == {s \in UdpSlot : udptab[s].udstate # "UDP_FREE"}
FreeSlots == UdpSlot \ UsedSlots

Registered(loc, rem) ==
    \E s \in UsedSlots : udptab[s].udlocport = loc /\ udptab[s].udremote = rem

UdpRegister(loc, rem) ==
    /\ ~Registered(loc, rem)
    /\ FreeSlots # {}
    /\ udptab' = [udptab EXCEPT ![Min(FreeSlots)] =
                     [udstate |-> "UDP_USED", udlocport |-> loc, udremote |-> rem,
                      udqueue |-> <<>>, udcount |-> 0, udpid |-> NoOne]]
    /\ UNCHANGED mailvars

Matching(loc, rem) ==
    {s \in UsedSlots : /\ udptab[s].udlocport = loc
                       /\ udptab[s].udremote \in {AnyRemote, rem}}

\* A packet is put into the queue; the entry has no receiver any more.
Queued(e, rem) ==
    [e EXCEPT !.udcount = @ + 1, !.udqueue = Append(@, rem), !.udstate = "UDP_USED"]

\* udp_in: the first slot that matches and has room, else the packet is dropped.
UdpIn(loc, rem) ==
    LET room == {s \in Matching(loc, rem) : udptab[s].udcount < UDP_QSIZ}
    IN  /\ room # {}
        /\ LET s == Min(room)
           IN  /\ udptab' = [udptab EXCEPT ![s] = Queued(@, rem)]
               /\ prmsg'  = IF udptab[s].udstate = "UDP_RECV" THEN Informed(udptab[s].udpid)
                                                              ELSE prmsg
        /\ UNCHANGED <<netcall, killed>>

\* A packet is dequeued whether there is one or not.
Dequeued(e) ==
    [e EXCEPT !.udcount = @ - 1, !.udqueue = IF @ = <<>> THEN @ ELSE Tail(@),
              !.udstate = "UDP_USED"]

UdpRecv(p, s) ==
    /\ NetFree(p)
    /\ udptab[s].udstate = "UDP_USED"
    /\ "shared" \in NetCareless \/ \A q \in NetProc : ~InUdp(q, s)
    /\ \/ /\ udptab[s].udcount = 0
          /\ udptab'  = [udptab EXCEPT ![s].udstate = "UDP_RECV", ![s].udpid = p]
          /\ netcall' = [netcall EXCEPT ![p] = [at |-> "udp", slot |-> s]]
          /\ prmsg'   = [prmsg EXCEPT ![p] = "none"]
       \/ /\ udptab[s].udcount # 0
          /\ udptab' = [udptab EXCEPT ![s] = Dequeued(@)]
          /\ UNCHANGED <<netcall, prmsg>>
    /\ UNCHANGED killed

\* Mutant of UdpRecvEnd: the entry keeps its receiver when the wait was in vain.
UdpRecvEndKeeps(p) ==
    /\ netcall[p].at = "udp"
    /\ udptab'  = IF Recvd(p) = "OK" THEN [udptab EXCEPT ![netcall[p].slot] = Dequeued(@)]
                                     ELSE udptab
    /\ netcall' = [netcall EXCEPT ![p] = NetIdle]
    /\ prmsg'   = [prmsg EXCEPT ![p] = "none"]
    /\ UNCHANGED killed

\* After recvtime: the entry is in use again, whatever it was meanwhile.  With
\* TIMEOUT or a message from elsewhere the call fails.
UdpRecvEnd(p) ==
    /\ netcall[p].at = "udp"
    /\ LET s == netcall[p].slot
       IN  udptab' = [udptab EXCEPT ![s] = IF Recvd(p) = "OK" THEN Dequeued(@)
                                           ELSE [@ EXCEPT !.udstate = "UDP_USED"]]
    /\ netcall' = [netcall EXCEPT ![p] = NetIdle]
    /\ prmsg'   = [prmsg EXCEPT ![p] = "none"]
    /\ UNCHANGED killed

\* The packets that are queued are given back, under deferral.
UdpRelease(s) ==
    /\ s \in UsedSlots
    /\ "release" \in NetCareless \/ \A q \in NetProc : ~InUdp(q, s)
    /\ udptab' = [udptab EXCEPT ![s].udstate = "UDP_FREE", ![s].udqueue = <<>>,
                                ![s].udcount = IF @ > 0 THEN 0 ELSE @]
    /\ UNCHANGED mailvars

UdpNext ==
    \/ \E loc \in UdpPort :
          \/ \E rem \in Remote \cup {AnyRemote} : UdpRegister(loc, rem)
          \/ \E rem \in Remote : UdpIn(loc, rem)
    \/ \E s \in UdpSlot : UdpRelease(s) \/ \E p \in NetProc : UdpRecv(p, s)
    \/ \E p \in NetProc : UdpRecvEnd(p)

-----------------------------------------------------------------------------
\* No two slots are in use for one endpoint: the later one would starve.
EndpointsDistinct ==
    \A s, t \in UsedSlots :
        s # t => \/ udptab[s].udlocport # udptab[t].udlocport
                 \/ udptab[s].udremote # udptab[t].udremote

\* A receiver that was sent OK finds a packet in its queue: udp.c:200 takes one
\* without looking at udcount, which has to tell how many there are.
ReceiverFindsPacket ==
    /\ \A s \in UdpSlot : udptab[s].udcount = Len(udptab[s].udqueue) /\ udptab[s].udcount <= UDP_QSIZ
    /\ \A p \in NetProc : netcall[p].at = "udp" /\ prmsg[p] = "OK"
                             => udptab[netcall[p].slot].udcount > 0

\* The receiver that an entry names is there, or was killed: otherwise the
\* slot refuses everybody, and the next packet is announced to a process that
\* waits for something else.  And nobody waits while his queue has packets.
RecvHasReceiver ==
    /\ \A s \in UdpSlot : udptab[s].udstate = "UDP_RECV"
                             => udptab[s].udpid \in killed \/ InUdp(udptab[s].udpid, s)
    /\ \A p \in NetProc : netcall[p].at = "udp" /\ prmsg[p] = "none"
                             => udptab[netcall[p].slot].udstate = "UDP_RECV"
                                /\ udptab[netcall[p].slot].udcount = 0

\* The table as a whole: one slot for each endpoint, a packet for each receiver
\* that is told of one, and a receiver for each slot that says it has one.
ReceiversServed == EndpointsDistinct /\ ReceiverFindsPacket /\ RecvHasReceiver
=============================================================================
