-------------------------------- MODULE Icmp ---------------------------------
(***************************************************************************)
(* Echo replies (net/icmp.c): a table of slots like that of UDP, each for  *)
(* one remote address, with a ring of packets that netin fills and a       *)
(* process that may wait for one.  Only the indices of the ring count.     *)
(*                                                                         *)
(* IcmpCareless says what the table leaves to chance:                      *)
(*   "flood"   more replies come than a ring has room for: the oldest are  *)
(*             overwritten, and their buffers are lost                     *)
(*   "wrap"    more replies are taken from a ring than it has slots, since *)
(*             the registration: the head wraps at ICMP_SLOTS and not at   *)
(*             ICMP_QSIZ, and is behind the ring until it does             *)
(* NetCareless counts as well: two processes at one slot ("shared"), and a *)
(* slot that is released under a process that was sent OK ("release").     *)
(***************************************************************************)
EXTENDS Udp

CONSTANTS ICMP_SLOTS,    \* entries of the table
          ICMP_QSIZ,     \* packets queued per entry
          EchoHost,      \* remote addresses
          IcmpCareless

ASSUME IcmpAssumption ==
    /\ ICMP_SLOTS \in Nat \ {0} /\ ICMP_QSIZ \in Nat \ {0}
    /\ IcmpCareless \subseteq {"flood", "wrap"}

VARIABLE icmptab

IcmpSlot == 0 .. ICMP_SLOTS-1
Unset    == "0"

IcmpInit ==
    icmptab = [s \in IcmpSlot |-> [icstate |-> "ICMP_FREE", icremip |-> Unset,
                                   iccount |-> 0, ichead |-> 0, ictail |-> 0, icpid |-> NoOne]]

IcmpUsed == {s \in IcmpSlot : icmptab[s].icstate # "ICMP_FREE"}
InIcmp(p, s) == netcall[p].at = "icmp" /\ netcall[p].slot = s

IcmpRegister(remip) ==
    /\ \A s \in IcmpUsed : icmptab[s].icremip # remip
    /\ IcmpUsed # IcmpSlot
    /\ icmptab' = [icmptab EXCEPT ![Min(IcmpSlot \ IcmpUsed)] =
                      [icstate |-> "ICMP_USED", icremip |-> remip, iccount |-> 0,
                       ichead |-> 0, ictail |-> 0, icpid |-> NoOne]]
    /\ UNCHANGED mailvars

\* icmp_in: an echo reply with this identifier, from this host.
IcmpIn(s, remip) ==
    LET e == icmptab[s]
    IN  /\ s \in IcmpUsed /\ e.icremip = remip
        /\ "flood" \in IcmpCareless \/ e.iccount < ICMP_QSIZ
        /\ icmptab' = [icmptab EXCEPT ![s] =
                          [e EXCEPT !.iccount = @ + 1, !.ictail = (@ + 1) % ICMP_QSIZ,
                                    !.icstate = "ICMP_USED"]]
        /\ prmsg' = IF e.icstate = "ICMP_RECV" THEN Informed(e.icpid) ELSE prmsg
        /\ UNCHANGED <<netcall, killed>>

\* Where the head goes: past the end, if the table is longer than the rings.
NextHead(h) == (h + 1) % ICMP_SLOTS

\* Mutant of PacketTaken: the packet is copied and stays in the ring.
PacketTakenNot(e) == [e EXCEPT !.iccount = @ - 1, !.icstate = "ICMP_USED"]

PacketTaken(e) ==
    [e EXCEPT !.iccount = @ - 1, !.ichead = NextHead(@), !.icstate = "ICMP_USED"]

\* The next n packets are all in front of the end of the ring.
InRing(e, n) == "wrap" \in IcmpCareless \/ e.ichead + n <= ICMP_QSIZ

IcmpRecv(p, s) ==
    /\ NetFree(p)
    /\ icmptab[s].icstate = "ICMP_USED"
    /\ "shared" \in NetCareless \/ \A q \in NetProc : ~InIcmp(q, s)
    /\ \/ /\ icmptab[s].iccount = 0
          /\ icmptab' = [icmptab EXCEPT ![s].icstate = "ICMP_RECV", ![s].icpid = p]
          /\ netcall' = [netcall EXCEPT ![p] = [at |-> "icmp", slot |-> s]]
          /\ prmsg'   = [prmsg EXCEPT ![p] = "none"]
       \/ /\ icmptab[s].iccount # 0 /\ InRing(icmptab[s], 1)
          /\ icmptab' = [icmptab EXCEPT ![s] = PacketTaken(@)]
          /\ UNCHANGED <<netcall, prmsg>>
    /\ UNCHANGED killed

\* After recvtime: the entry is in use, whatever it was meanwhile.
IcmpRecvEnd(p) ==
    /\ netcall[p].at = "icmp"
    /\ LET s == netcall[p].slot
       IN  \/ /\ Recvd(p) = "OK" /\ InRing(icmptab[s], 1)
              /\ icmptab' = [icmptab EXCEPT ![s] = PacketTaken(@)]
           \/ /\ Recvd(p) # "OK"
              /\ icmptab' = [icmptab EXCEPT ![s].icstate = "ICMP_USED"]
    /\ netcall' = [netcall EXCEPT ![p] = NetIdle]
    /\ prmsg'   = [prmsg EXCEPT ![p] = "none"]
    /\ UNCHANGED killed

\* Refused while a process waits; the packets that are queued are given back.
IcmpRelease(s) ==
    /\ icmptab[s].icstate = "ICMP_USED"
    /\ "release" \in NetCareless \/ \A q \in NetProc : ~InIcmp(q, s)
    /\ InRing(icmptab[s], icmptab[s].iccount)
    /\ icmptab' = [icmptab EXCEPT ![s].icstate = "ICMP_FREE", ![s].iccount = 0]
    /\ UNCHANGED mailvars

IcmpNext ==
    \/ \E h \in EchoHost : IcmpRegister(h) \/ \E s \in IcmpSlot : IcmpIn(s, h)
    \/ \E s \in IcmpSlot : IcmpRelease(s) \/ \E p \in NetProc : IcmpRecv(p, s)
    \/ \E p \in NetProc : IcmpRecvEnd(p)

-----------------------------------------------------------------------------
\* The packets an entry counts are those between its head and its tail, a
\* receiver that was sent OK finds one (icmp.c:200 takes it without a look at
\* iccount), and an entry that says somebody waits has a receiver that is there
\* or was killed; nobody else gets the announcement.
EchoesServed ==
    /\ \A s \in IcmpUsed :
          LET e == icmptab[s]
          IN  /\ e.iccount \in 0 .. ICMP_QSIZ /\ e.ichead <= ICMP_QSIZ
              /\ (e.ichead + e.iccount) % ICMP_QSIZ = e.ictail
              /\ e.icstate = "ICMP_RECV" => /\ e.iccount = 0
                                            /\ e.icpid \in killed \/ InIcmp(e.icpid, s)
              /\ \A t \in IcmpUsed \ {s} : icmptab[t].icremip # e.icremip
    /\ \A p \in NetProc : netcall[p].at = "icmp" =>
          /\ prmsg[p] = "OK" => icmptab[netcall[p].slot].iccount > 0
          /\ prmsg[p] = "none" => icmptab[netcall[p].slot].icpid = p

\* What netin queues for a process, in either table, that process gets.
EndpointsServed == ReceiversServed /\ EchoesServed
=============================================================================
