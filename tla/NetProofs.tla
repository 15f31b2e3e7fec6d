------------------------------ MODULE NetProofs ------------------------------
(***************************************************************************)
(* The network side for every number of processes, stations, endpoints and *)
(* packets.  Address resolution, UDP and echo replies share the one-message*)
(* buffers of the processes: the invariant says of each waiting process    *)
(* who may send it a message, so that none takes the announcement of       *)
(* another protocol for its own.  The download over TFTP is by itself at   *)
(* the end: every byte it keeps is the server's, in order.                 *)
(***************************************************************************)
EXTENDS Icmp, Arp, Tftp, QueuesProofs

\* A step of one of the three protocols, or of somebody outside; MCNet has the
\* same steps a few at a time.
NetInit == MailboxInit /\ ArpInit /\ UdpInit /\ IcmpInit

NetNext ==
    \/ ArpNext  /\ UNCHANGED <<udptab, icmptab>>
    \/ UdpNext  /\ UNCHANGED <<arpvars, icmptab>>
    \/ IcmpNext /\ UNCHANGED <<arpvars, udptab>>
    \/ (\E p \in NetProc : Stray(p) \/ KillNet(p)) /\ UNCHANGED <<arpvars, udptab, icmptab>>

netvars == <<mailvars, arpvars, udptab, icmptab>>

NetSpec == NetInit /\ [][NetNext]_netvars

-----------------------------------------------------------------------------
\* The calls a process can be in, and the invariant of each protocol.

NetCalls ==
    {NetIdle} \cup [at : {"arp"}, slot : Slot, addr : IPAddr, sent : Nat]
              \cup [at : {"udp"}, slot : UdpSlot] \cup [at : {"icmp"}, slot : IcmpSlot]

MailInv ==
    /\ netcall \in [NetProc -> NetCalls]
    /\ prmsg \in [NetProc -> {"none", "OK", "other"}]
    /\ killed \subseteq NetProc
    /\ \A p \in killed : netcall[p] = NetIdle

\* A process waits for the entry it has made, and no other does; when the
\* entry is resolved it has been told.
ArpInv ==
    /\ arpcache \in [Slot -> [arstate : {"AR_FREE", "AR_PENDING", "AR_RESOLVED"},
                              arpaddr : IPAddr \cup {None}, arpid : NetProc \cup {None},
                              arhaddr : HwAddr \cup {None}]]
    /\ heard \in [IPAddr -> HwAddr \cup {None}]
    /\ DOMAIN arpret = NetProc
    /\ \A s \in Slot : arpcache[s].arstate # "AR_FREE" => arpcache[s].arpaddr \in IPAddr
    /\ \A s \in Slot : arpcache[s].arstate = "AR_RESOLVED" => arpcache[s].arhaddr # None
    /\ \A s \in Slot : arpcache[s].arstate = "AR_PENDING" => arpcache[s].arpid \in NetProc
    /\ ArpCacheSound
    /\ \A p \in NetProc : netcall[p].at = "arp" =>
          LET e == arpcache[netcall[p].slot]
          IN  /\ e.arpaddr = netcall[p].addr
              /\ \/ e.arstate = "AR_PENDING" /\ e.arpid = p /\ prmsg[p] = "none"
                 \/ e.arstate = "AR_RESOLVED" /\ prmsg[p] = "OK"
    /\ \A p, q \in NetProc :
          netcall[p].at = "arp" /\ InArp(q, netcall[p].slot) => p = q

\* The process a UDP slot or an ICMP slot says it waits for does wait there, or
\* was killed: no packet is announced to a process that waits elsewhere.
UdpNamed ==
    /\ DOMAIN udptab = UdpSlot
    /\ \A s \in UdpSlot :
          /\ DOMAIN udptab[s] = {"udstate", "udlocport", "udremote", "udqueue", "udcount", "udpid"}
          /\ udptab[s].udstate \in {"UDP_FREE", "UDP_USED", "UDP_RECV"}
          /\ udptab[s].udstate = "UDP_RECV" =>
                /\ udptab[s].udpid \in NetProc
                /\ udptab[s].udpid \in killed \/ InUdp(udptab[s].udpid, s)

IcmpNamed ==
    /\ DOMAIN icmptab = IcmpSlot
    /\ \A s \in IcmpSlot :
          /\ DOMAIN icmptab[s] = {"icstate", "icremip", "iccount", "ichead", "ictail", "icpid"}
          /\ icmptab[s].icstate \in {"ICMP_FREE", "ICMP_USED", "ICMP_RECV"}
          /\ icmptab[s].icstate = "ICMP_RECV" =>
                /\ icmptab[s].icpid \in NetProc
                /\ icmptab[s].icpid \in killed \/ InIcmp(icmptab[s].icpid, s)

\* A process waits at a slot that names it, and no other does; when there is
\* a packet it has been told, unless it had another message.
UdpInv ==
    /\ \A s \in UdpSlot : /\ udptab[s].udqueue \in Seq(Remote)
                          /\ udptab[s].udstate = "UDP_RECV" => udptab[s].udcount = 0
    /\ ReceiversServed
    /\ \A p \in NetProc : netcall[p].at = "udp" =>
          LET e == udptab[netcall[p].slot]
          IN  \/ e.udstate = "UDP_RECV" /\ e.udpid = p /\ prmsg[p] # "OK"
              \/ e.udstate = "UDP_USED" /\ prmsg[p] # "none"
    /\ \A p, q \in NetProc : netcall[p].at = "udp" /\ netcall[q] = netcall[p] => p = q

\* The same for the echo replies; here the ring is what has to be right.
IcmpInv ==
    /\ \A s \in IcmpSlot :
          icmptab[s].iccount \in Nat /\ icmptab[s].ichead \in Nat /\ icmptab[s].ictail \in Nat
    /\ EchoesServed
    /\ \A p \in NetProc : netcall[p].at = "icmp" =>
          LET e == icmptab[netcall[p].slot]
          IN  /\ e.icpid = p
              /\ \/ e.icstate = "ICMP_RECV" /\ prmsg[p] # "OK"
                 \/ e.icstate = "ICMP_USED" /\ prmsg[p] # "none"
    /\ \A p, q \in NetProc : netcall[p].at = "icmp" /\ netcall[q] = netcall[p] => p = q

\* Address resolution needs no more of the other protocols than whom they name.
ResolveInv == MailInv /\ ArpInv /\ UdpNamed /\ IcmpNamed
NetInv     == ResolveInv /\ UdpInv /\ IcmpInv

-----------------------------------------------------------------------------
\* The mailbox.

\* A step that does nothing to the calls of kind k nor to the messages of those
\* that are in one.
Keeps(k) ==
    /\ killed' = killed
    /\ \A p \in NetProc : netcall[p].at = k \/ netcall'[p].at = k =>
          netcall'[p] = netcall[p] /\ prmsg'[p] = prmsg[p]

\* p goes from a call of kind k, or from none, to another of that kind or to
\* none, with its buffer emptied.
Moves(p, k) ==
    /\ netcall[p].at \in {"none", k} /\ netcall'[p].at \in {"none", k}
    /\ netcall' = [netcall EXCEPT ![p] = netcall'[p]] /\ netcall'[p] \in NetCalls
    /\ p \notin killed
    /\ prmsg' = [prmsg EXCEPT ![p] = "none"] /\ killed' = killed

\* At most q is told that there is something, who is in a call of kind k.
Tells(q, k) ==
    /\ UNCHANGED <<netcall, killed>>
    /\ prmsg' = prmsg \/ (prmsg' = Informed(q) /\ (q \in killed \/ (q \in NetProc /\ netcall[q].at = k)))

\* What a process is doing, by the protocol it waits for.
LEMMA CallKinds ==
  /\ NetIdle \in NetCalls /\ NetIdle.at = "none"
  /\ \A c \in NetCalls : /\ c.at \in {"none", "arp", "udp", "icmp"}
                         /\ c.at = "none" => c = NetIdle
                         /\ c.at = "arp" => c.slot \in Slot /\ c.addr \in IPAddr /\ c.sent \in Nat
                                            /\ c \in [at : {"arp"}, slot : Slot, addr : IPAddr, sent : Nat]
                         /\ c.at = "udp" => c.slot \in UdpSlot /\ c = [at |-> "udp", slot |-> c.slot]
                         /\ c.at = "icmp" => c.slot \in IcmpSlot /\ c = [at |-> "icmp", slot |-> c.slot]
BY DEF NetCalls, NetIdle

\* A call of one protocol is none of the others' business.
LEMMA MovesKeep ==
  ASSUME MailInv, NEW p \in NetProc, NEW k, Moves(p, k)
  PROVE  MailInv' /\ \A j \in {"arp", "udp", "icmp"} \ {k} : Keeps(j)
<1>1. /\ netcall \in [NetProc -> NetCalls] /\ prmsg \in [NetProc -> {"none", "OK", "other"}]
      /\ killed \subseteq NetProc /\ \A q \in killed : netcall[q] = NetIdle
  BY DEF MailInv
<1>2. PICK c : netcall' = [netcall EXCEPT ![p] = c] /\ c \in NetCalls /\ c.at \in {"none", k}
  BY DEF Moves
<1>3. netcall[p].at \in {"none", k} /\ p \notin killed /\ killed' = killed
      /\ prmsg' = [prmsg EXCEPT ![p] = "none"]
  BY DEF Moves
<1>4. MailInv'
  BY <1>1, <1>2, <1>3 DEF MailInv
<1>5. ASSUME NEW j \in {"arp", "udp", "icmp"} \ {k}  PROVE Keeps(j)
  BY <1>1, <1>2, <1>3 DEF Keeps
<1> QED  BY <1>4, <1>5

\* Nor is a message to a process that waits for that protocol.
LEMMA TellsKeep ==
  ASSUME MailInv, NEW q, NEW k, Tells(q, k)
  PROVE  /\ MailInv' /\ \A j \in {"arp", "udp", "icmp"} \ {k} : Keeps(j)
         /\ \A p \in NetProc : prmsg'[p] # prmsg[p] => p = q /\ prmsg[p] = "none" /\ prmsg'[p] = "OK"
         /\ prmsg' = Informed(q) /\ q \in NetProc \ killed => prmsg'[q] # "none"
BY DEF MailInv, Tells, Informed, Keeps
-----------------------------------------------------------------------------
\* Address resolution.

ArpEntries == [arstate : {"AR_FREE", "AR_PENDING", "AR_RESOLVED"}, arpaddr : IPAddr \cup {None},
               arpid : NetProc \cup {None}, arhaddr : HwAddr \cup {None}]

\* What others do to processes that wait for no address.
LEMMA ArpFrame ==
  ASSUME MailInv, ArpInv, Keeps("arp"), UNCHANGED <<arpcache, heard>>, DOMAIN arpret' = NetProc
  PROVE  ArpInv'
<1>1. CacheIsCurrent'
  BY DEF ArpInv, ArpCacheSound, CacheIsCurrent, In
<1>2. PendingHasWaiter'
  <2>1. \A s \in Slot : arpcache[s].arstate = "AR_PENDING" =>
           arpcache[s].arpid \in NetProc /\ (arpcache[s].arpid \in killed \/ InArp(arpcache[s].arpid, s))
    BY DEF ArpInv, ArpCacheSound, PendingHasWaiter, In
  <2>2. \A q \in NetProc, s \in Slot : InArp(q, s) => InArp(q, s)'
    BY DEF InArp, Keeps
  <2> QED  BY <2>1, <2>2 DEF PendingHasWaiter, In, Keeps
<1>3. \A p \in NetProc : netcall'[p].at = "arp" => netcall'[p] = netcall[p] /\ prmsg'[p] = prmsg[p]
  BY DEF Keeps
<1>4. \A p \in NetProc : netcall'[p].at = "arp" =>
          LET e == arpcache'[netcall'[p].slot]
          IN  /\ e.arpaddr = netcall'[p].addr
              /\ \/ e.arstate = "AR_PENDING" /\ e.arpid = p /\ prmsg'[p] = "none"
                 \/ e.arstate = "AR_RESOLVED" /\ prmsg'[p] = "OK"
  BY <1>3 DEF ArpInv
<1>5. \A p, q \in NetProc : netcall'[p].at = "arp" /\ InArp(q, netcall[p].slot)' => p = q
  BY <1>3 DEF ArpInv, InArp
<1> QED  BY <1>1, <1>2, <1>4, <1>5 DEF ArpInv, ArpCacheSound

\* The entry of an address, and the one that is given away.
LEMMA ArpSlots ==
  ASSUME ArpInv
  PROVE  /\ \A s \in ArpAlloc : s \in Slot /\ arpcache[s].arstate # "AR_PENDING"
         /\ \A a \in IPAddr : \A s, t \in EntriesFor(a) : s = t /\ s \in Slot
         /\ \A a \in IPAddr : EntriesFor(a) # {} => Min(EntriesFor(a)) \in EntriesFor(a)
<1>1. Slot \subseteq Nat
  BY ArpAssumption DEF Slot
<1>2. \A st : In(st) \subseteq Nat /\ In(st) \subseteq Slot
  BY <1>1 DEF In
<1>3. \A s \in ArpAlloc : s \in Slot /\ arpcache[s].arstate # "AR_PENDING"
  <2>1. ASSUME NEW st \in {"AR_FREE", "AR_RESOLVED"}, In(st) # {}  PROVE Min(In(st)) \in In(st)
    BY <1>2, <2>1, MinNat
  <2>2. \A s \in ArpAlloc : s \in In("AR_FREE") \/ s \in In("AR_RESOLVED")
    BY <2>1 DEF ArpAlloc
  <2> QED  BY <2>2 DEF In
<1>4. \A a \in IPAddr : \A s, t \in EntriesFor(a) : s = t /\ s \in Slot
  BY DEF EntriesFor, ArpInv, ArpCacheSound, CacheIsCurrent
<1>5. ASSUME NEW a \in IPAddr, EntriesFor(a) # {}  PROVE Min(EntriesFor(a)) \in EntriesFor(a)
  <2>1. EntriesFor(a) \subseteq Nat
    BY <1>1 DEF EntriesFor
  <2> QED  BY <1>5, <2>1, MinNat
<1> QED  BY <1>3, <1>4, <1>5

\* An entry nobody waits at is given to a process for address a, or to the
\* station that has the address.
Gives(s, e, a) ==
    /\ \A q \in NetProc : ~InArp(q, s)
    /\ arpcache[s].arstate # "AR_PENDING" /\ arpcache' = [arpcache EXCEPT ![s] = e]
    /\ e.arpaddr = a /\ EntriesFor(a) = {}
    /\ heard' \in [IPAddr -> HwAddr \cup {None}] /\ \A b \in IPAddr \ {a} : heard'[b] = heard[b]
    /\ DOMAIN arpret' = NetProc
    /\ \/ e.arstate = "AR_RESOLVED" /\ e.arhaddr = heard'[a] /\ e.arhaddr # None /\ UNCHANGED mailvars
       \/ \E p \in NetProc : /\ e.arstate = "AR_PENDING" /\ e.arpid = p /\ NetFree(p) /\ killed' = killed
                             /\ netcall' = [netcall EXCEPT ![p] = [at |-> "arp", slot |-> s, addr |-> a,
                                                                   sent |-> 1]]
                             /\ prmsg' = [prmsg EXCEPT ![p] = "none"]

\* An entry that nobody waits for is given to an address.
LEMMA ArpGiven ==
  ASSUME MailInv, ArpInv, NEW s \in Slot, NEW e \in ArpEntries, NEW a \in IPAddr, Gives(s, e, a)
  PROVE  ArpInv'
<1> USE DEF Gives
<1>1. /\ arpcache \in [Slot -> ArpEntries] /\ arpcache' \in [Slot -> ArpEntries]
      /\ arpcache'[s] = e /\ \A t \in Slot \ {s} : arpcache'[t] = arpcache[t]
  BY DEF ArpInv, ArpEntries
<1>2. \A t \in Slot : arpcache[t].arstate # "AR_FREE" => arpcache[t].arpaddr \in IPAddr \ {a}
  BY DEF EntriesFor, ArpInv
<1>3. CacheIsCurrent'
  BY <1>1, <1>2 DEF ArpInv, ArpCacheSound, CacheIsCurrent, In
<1>4. \A q \in NetProc : netcall[q].at = "arp" =>
          /\ netcall[q].slot # s /\ netcall'[q] = netcall[q] /\ prmsg'[q] = prmsg[q]
          /\ netcall[q].slot \in Slot
  BY CallKinds DEF InArp, mailvars, NetFree, MailInv
<1>5. \A q \in NetProc : netcall'[q].at = "arp" =>
          \/ netcall'[q] = netcall[q] /\ prmsg'[q] = prmsg[q]
          \/ /\ e.arstate = "AR_PENDING" /\ e.arpid = q /\ netcall'[q].slot = s
             /\ netcall'[q].addr = a /\ prmsg'[q] = "none"
  BY DEF mailvars, MailInv
<1>6. killed' = killed /\ (e.arstate = "AR_PENDING" => e.arpid \in NetProc /\ InArp(e.arpid, s)')
      /\ e.arstate # "AR_FREE"
  BY DEF mailvars, InArp, MailInv
<1>7. PendingHasWaiter'
  <2>1. \A t \in Slot : arpcache[t].arstate = "AR_PENDING" =>
           arpcache[t].arpid \in NetProc /\ (arpcache[t].arpid \in killed \/ InArp(arpcache[t].arpid, t))
    BY DEF ArpInv, ArpCacheSound, PendingHasWaiter, In
  <2>2. \A q \in NetProc, t \in Slot : InArp(q, t) => InArp(q, t)'
    BY <1>4 DEF InArp
  <2> QED  BY <1>1, <1>6, <2>1, <2>2 DEF PendingHasWaiter, In
<1>8. \A p \in NetProc : netcall'[p].at = "arp" =>
          LET f == arpcache'[netcall'[p].slot]
          IN  /\ f.arpaddr = netcall'[p].addr
              /\ \/ f.arstate = "AR_PENDING" /\ f.arpid = p /\ prmsg'[p] = "none"
                 \/ f.arstate = "AR_RESOLVED" /\ prmsg'[p] = "OK"
  BY <1>1, <1>4, <1>5 DEF ArpInv
<1>9. \A p, q \in NetProc : netcall'[p].at = "arp" /\ InArp(q, netcall[p].slot)' => p = q
  BY <1>4, <1>5 DEF ArpInv, InArp
<1>10. /\ \A t \in Slot : arpcache'[t].arstate # "AR_FREE" => arpcache'[t].arpaddr \in IPAddr
       /\ \A t \in Slot : arpcache'[t].arstate = "AR_RESOLVED" => arpcache'[t].arhaddr # None
       /\ \A t \in Slot : arpcache'[t].arstate = "AR_PENDING" => arpcache'[t].arpid \in NetProc
  BY <1>1, <1>6 DEF ArpInv
<1> QED  BY <1>1, <1>3, <1>7, <1>8, <1>9, <1>10 DEF ArpInv, ArpCacheSound, ArpEntries

\* arp_resolve answers from the cache, or makes an entry and waits.
LEMMA ArpResolveKeeps ==
  ASSUME "evict" \notin NetCareless, MailInv, ArpInv,
         NEW p \in NetProc, NEW a \in IPAddr, ArpResolve(p, a)
  PROVE  ArpInv' /\ MailInv' /\ Keeps("udp") /\ Keeps("icmp")
<1>1. /\ p \notin killed /\ netcall[p] = NetIdle /\ NetFree(p) /\ UNCHANGED <<heard, killed>>
      /\ \/ /\ arpret' = [arpret EXCEPT ![p] = <<a, arpcache[Min(EntriesFor(a))].arhaddr>>]
            /\ UNCHANGED <<arpcache, netcall, prmsg>>
         \/ /\ EntriesFor(a) = {}
            /\ \E s \in ArpAlloc :
                  /\ \A q \in NetProc : ~InArp(q, s)
                  /\ arpcache' = [arpcache EXCEPT ![s] = [arstate |-> "AR_PENDING", arpaddr |-> a,
                                                          arpid |-> p, arhaddr |-> None]]
                  /\ netcall'  = [netcall EXCEPT ![p] = [at |-> "arp", slot |-> s, addr |-> a,
                                                         sent |-> 1]]
            /\ prmsg' = [prmsg EXCEPT ![p] = "none"]
            /\ UNCHANGED arpret
  BY DEF ArpResolve, NetFree, GivenAway
<1>2. MailInv /\ DOMAIN arpret = NetProc /\ DOMAIN netcall = NetProc /\ NetIdle.at = "none"
      /\ heard \in [IPAddr -> HwAddr \cup {None}] /\ DOMAIN netcall = NetProc
  BY CallKinds DEF ArpInv, MailInv
<1>3. CASE UNCHANGED <<arpcache, netcall, prmsg>>
  <2>1. Keeps("arp") /\ Keeps("udp") /\ Keeps("icmp") /\ MailInv'
    BY <1>1, <1>3, <1>2 DEF Keeps, MailInv
  <2>2. DOMAIN arpret' = NetProc
    BY <1>1, <1>2
  <2> QED  BY <1>1, <1>3, <2>1, <2>2, ArpFrame
<1>4. ASSUME EntriesFor(a) = {}, NEW s \in ArpAlloc, \A q \in NetProc : ~InArp(q, s),
             arpcache' = [arpcache EXCEPT ![s] = [arstate |-> "AR_PENDING", arpaddr |-> a,
                                                  arpid |-> p, arhaddr |-> None]],
             netcall'  = [netcall EXCEPT ![p] = [at |-> "arp", slot |-> s, addr |-> a,
                                                 sent |-> 1]],
             prmsg' = [prmsg EXCEPT ![p] = "none"], UNCHANGED arpret
      PROVE  ArpInv' /\ MailInv' /\ Keeps("udp") /\ Keeps("icmp")
  <2>1. s \in Slot /\ arpcache[s].arstate # "AR_PENDING"
    BY ArpSlots
  <2>2. [at |-> "arp", slot |-> s, addr |-> a, sent |-> 1] \in NetCalls
    BY <2>1 DEF NetCalls
  <2>3. Moves(p, "arp")
    BY <1>1, <1>2, <1>4, <2>2 DEF Moves
  <2>4. MailInv' /\ Keeps("udp") /\ Keeps("icmp")
    <3>1. PICK k : k = "arp"  OBVIOUS
    <3> QED  BY <1>2, <2>3, <3>1, MovesKeep
  <2>5. PICK e \in ArpEntries : e = [arstate |-> "AR_PENDING", arpaddr |-> a,
                                     arpid |-> p, arhaddr |-> None]
    BY DEF ArpEntries
  <2>6. e.arpaddr = a /\ e.arstate = "AR_PENDING" /\ e.arpid = p
    BY <2>5
  <2>7. heard' \in [IPAddr -> HwAddr \cup {None}] /\ \A b \in IPAddr \ {a} : heard'[b] = heard[b]
    BY <1>1, <1>2
  <2>8. arpcache' = [arpcache EXCEPT ![s] = e]
    BY <1>4, <2>5
  <2>9. ArpInv'
    <3>1. \E q \in NetProc : /\ e.arstate = "AR_PENDING" /\ e.arpid = q /\ NetFree(q) /\ killed' = killed
                             /\ netcall' = [netcall EXCEPT ![q] = [at |-> "arp", slot |-> s, addr |-> a,
                                                                   sent |-> 1]]
                             /\ prmsg' = [prmsg EXCEPT ![q] = "none"]
      BY <1>1, <2>6, <1>4
    <3>2. Gives(s, e, a)
      BY <3>1, <1>1, <1>2, <1>4, <2>1, <2>6, <2>7, <2>8 DEF Gives
    <3> QED  BY <3>2, <2>1, ArpGiven
  <2> QED  BY <2>4, <2>9
<1> QED  BY <1>1, <1>3, <1>4

\* What a process that waits finds when it runs.
LEMMA ArpWaits ==
  ASSUME MailInv, ArpInv, NEW p \in NetProc, netcall[p].at = "arp"
  PROVE  /\ netcall[p].slot \in Slot /\ netcall[p].addr \in IPAddr /\ netcall[p].sent \in Nat
         /\ netcall[p] \in [at : {"arp"}, slot : Slot, addr : IPAddr, sent : Nat] /\ p \notin killed
         /\ arpcache[netcall[p].slot].arpaddr = netcall[p].addr
         /\ Recvd(p) = "TIMEOUT" => /\ arpcache[netcall[p].slot].arstate = "AR_PENDING"
                                    /\ arpcache[netcall[p].slot].arpid = p /\ prmsg[p] = "none"
         /\ Recvd(p) # "TIMEOUT" => /\ arpcache[netcall[p].slot].arstate = "AR_RESOLVED"
                                    /\ prmsg[p] = "OK"
         /\ \A q \in NetProc : InArp(q, netcall[p].slot) => q = p
<1>1. /\ netcall[p].slot \in Slot /\ netcall[p].addr \in IPAddr /\ netcall[p].sent \in Nat
      /\ netcall[p] \in [at : {"arp"}, slot : Slot, addr : IPAddr, sent : Nat] /\ p \notin killed
  BY CallKinds DEF MailInv
<1>2. \A q \in NetProc : InArp(q, netcall[p].slot) => q = p
  BY DEF ArpInv
<1>3. LET e == arpcache[netcall[p].slot]
      IN  /\ e.arpaddr = netcall[p].addr
          /\ \/ e.arstate = "AR_PENDING" /\ e.arpid = p /\ prmsg[p] = "none"
             \/ e.arstate = "AR_RESOLVED" /\ prmsg[p] = "OK"
  BY DEF ArpInv
<1> QED  BY <1>1, <1>2, <1>3 DEF Recvd

\* The process is told or times out; it tries again or gives up.
LEMMA ArpResolveEndKeeps ==
  ASSUME MailInv, ArpInv, NEW p \in NetProc, ArpResolveEnd(p)
  PROVE  ArpInv' /\ MailInv' /\ Keeps("udp") /\ Keeps("icmp")
<1> DEFINE c == netcall[p]
           s == netcall[p].slot
<1>1. c.at = "arp" /\ prmsg' = [prmsg EXCEPT ![p] = "none"] /\ UNCHANGED <<heard, killed>>
  BY DEF ArpResolveEnd
<1>2. /\ s \in Slot /\ c.addr \in IPAddr /\ c.sent \in Nat /\ p \notin killed
      /\ c \in [at : {"arp"}, slot : Slot, addr : IPAddr, sent : Nat]
      /\ arpcache[s].arpaddr = c.addr
      /\ Recvd(p) = "TIMEOUT" => arpcache[s].arstate = "AR_PENDING" /\ arpcache[s].arpid = p /\ prmsg[p] = "none"
      /\ Recvd(p) # "TIMEOUT" => arpcache[s].arstate = "AR_RESOLVED" /\ prmsg[p] = "OK"
      /\ \A q \in NetProc : InArp(q, s) => q = p
  BY <1>1, ArpWaits
<1>3. \/ /\ Recvd(p) = "TIMEOUT" /\ netcall' = [netcall EXCEPT ![p].sent = @ + 1]
         /\ UNCHANGED <<arpcache, arpret>>
      \/ /\ Recvd(p) = "TIMEOUT" /\ netcall' = [netcall EXCEPT ![p] = NetIdle]
         /\ arpcache' = [arpcache EXCEPT ![s].arstate = "AR_FREE"] /\ UNCHANGED arpret
      \/ /\ Recvd(p) # "TIMEOUT" /\ netcall' = [netcall EXCEPT ![p] = NetIdle]
         /\ arpret' = [arpret EXCEPT ![p] = <<c.addr, arpcache[s].arhaddr>>] /\ UNCHANGED arpcache
  BY DEF ArpResolveEnd
<1> HIDE DEF c, s
<1>4. /\ arpcache \in [Slot -> ArpEntries] /\ DOMAIN netcall = NetProc /\ DOMAIN arpret = NetProc
      /\ netcall \in [NetProc -> NetCalls]
  BY DEF ArpInv, ArpEntries, MailInv
<1>5. PICK d \in NetCalls : netcall' = [netcall EXCEPT ![p] = d] /\ d.at \in {"none", "arp"}
                            /\ (d.at = "arp" => d.slot = s /\ d.addr = c.addr)
                            /\ (d.at = "none" => d = NetIdle)
  <2>1. [c EXCEPT !.sent = @ + 1] \in NetCalls /\ [c EXCEPT !.sent = @ + 1].at = "arp"
        /\ [c EXCEPT !.sent = @ + 1].slot = s /\ [c EXCEPT !.sent = @ + 1].addr = c.addr
    BY <1>2 DEF NetCalls, s, c
  <2>2. netcall' = [netcall EXCEPT ![p] = [c EXCEPT !.sent = @ + 1]] \/ netcall' = [netcall EXCEPT ![p] = NetIdle]
    BY <1>3 DEF c
  <2> QED  BY <2>1, <2>2, CallKinds
<1>6. Moves(p, "arp")
  BY <1>1, <1>2, <1>4, <1>5 DEF Moves, c
<1>7. MailInv' /\ Keeps("udp") /\ Keeps("icmp")
  <2>1. PICK k : k = "arp"  OBVIOUS
  <2> QED  BY <1>6, <2>1, MovesKeep
<1>8. /\ arpcache' \in [Slot -> ArpEntries] /\ \A t \in Slot \ {s} : arpcache'[t] = arpcache[t]
      /\ arpcache'[s].arstate = "AR_FREE" \/ arpcache'[s] = arpcache[s]
      /\ DOMAIN arpret' = NetProc
      /\ netcall' = [netcall EXCEPT ![p].sent = @ + 1] \/ arpcache'[s].arstate \in {"AR_FREE", "AR_RESOLVED"}
  <2>1. DOMAIN arpret' = NetProc
    BY <1>3, <1>4
  <2>2. CASE UNCHANGED arpcache
    <3>1. netcall' = [netcall EXCEPT ![p].sent = @ + 1] \/ Recvd(p) # "TIMEOUT" \/ arpcache'[s].arstate = "AR_FREE"
      <4>1. \A e \in ArpEntries : [e EXCEPT !.arstate = "AR_FREE"].arstate = "AR_FREE"
        BY DEF ArpEntries
      <4>2. arpcache' = [arpcache EXCEPT ![s].arstate = "AR_FREE"] => arpcache'[s].arstate = "AR_FREE"
        BY <4>1, <1>2, <1>4
      <4> QED  BY <1>3, <4>2
    <3> QED  BY <3>1, <2>1, <2>2, <1>2, <1>4
  <2>3. CASE arpcache' = [arpcache EXCEPT ![s].arstate = "AR_FREE"]
    <3>1. PICK e \in ArpEntries : e = arpcache[s]
      BY <1>2, <1>4
    <3>2. [e EXCEPT !.arstate = "AR_FREE"] \in ArpEntries /\ [e EXCEPT !.arstate = "AR_FREE"].arstate = "AR_FREE"
      BY DEF ArpEntries
    <3>3. arpcache' = [arpcache EXCEPT ![s] = [e EXCEPT !.arstate = "AR_FREE"]]
      BY <2>3, <3>1
    <3> QED  BY <3>2, <3>3, <2>1, <1>2, <1>4
  <2> QED  BY <2>2, <2>3, <1>3
<1>9. /\ \A t \in Slot : arpcache'[t].arstate # "AR_FREE" => arpcache'[t] = arpcache[t]
      /\ \A q \in NetProc : netcall'[q].at = "arp" =>
            /\ netcall[q].at = "arp" /\ netcall'[q].slot = netcall[q].slot /\ netcall'[q].addr = netcall[q].addr
            /\ prmsg'[q] = prmsg[q] /\ arpcache'[netcall[q].slot] = arpcache[netcall[q].slot]
            /\ netcall[q].slot \in Slot
  <2>1. \A q \in NetProc \ {p} : netcall[q].at = "arp" => netcall[q].slot \in Slot \ {s}
    BY <1>2, <1>4, CallKinds DEF InArp
  <2>2. netcall'[p].at = "arp" => /\ Recvd(p) = "TIMEOUT" /\ UNCHANGED arpcache
                                  /\ netcall'[p].slot = s /\ netcall'[p].addr = c.addr
    BY <1>3, <1>4, <1>5, CallKinds
  <2>3. \A q \in NetProc \ {p} : netcall'[q] = netcall[q] /\ prmsg'[q] = prmsg[q]
    BY <1>1, <1>4, <1>5 DEF MailInv
  <2>4. prmsg'[p] = "none"
    BY <1>1 DEF MailInv
  <2> QED  BY <1>1, <1>2, <1>8, <2>1, <2>2, <2>3, <2>4 DEF s, c
<1>10. CacheIsCurrent'
  BY <1>1, <1>8, <1>9 DEF ArpInv, ArpCacheSound, CacheIsCurrent, In
<1>11. PendingHasWaiter'
  <2>1. \A t \in Slot : arpcache[t].arstate = "AR_PENDING" =>
           arpcache[t].arpid \in NetProc /\ (arpcache[t].arpid \in killed \/ InArp(arpcache[t].arpid, t))
    BY DEF ArpInv, ArpCacheSound, PendingHasWaiter, In
  <2>2. \A q \in NetProc, t \in Slot : q # p /\ InArp(q, t) => InArp(q, t)'
    BY <1>5, <1>4 DEF InArp
  <2>3. \A t \in Slot : arpcache'[t].arstate = "AR_PENDING" /\ arpcache'[t].arpid = p => InArp(p, t)'
    <3>1. \A t \in Slot : arpcache'[t].arstate = "AR_PENDING" /\ arpcache'[t].arpid = p =>
             arpcache[t] = arpcache'[t] /\ t = s /\ c.at = "arp"
      BY <2>1, <1>9, <1>2, <1>1 DEF InArp, s, c
    <3>2. arpcache'[s].arstate = "AR_PENDING" => netcall'[p].at = "arp" /\ netcall'[p].slot = s
      <4>1. \A d2 \in NetCalls : d2.at = "arp" => [d2 EXCEPT !.sent = @ + 1].at = "arp" /\ [d2 EXCEPT !.sent = @ + 1].slot = d2.slot
        BY DEF NetCalls, NetIdle
      <4>2. arpcache'[s].arstate = "AR_PENDING" => netcall'[p] = [c EXCEPT !.sent = @ + 1]
        BY <1>8, <1>4 DEF c
      <4> QED  BY <4>1, <4>2, <1>1, <1>4 DEF s, c
    <3> QED  BY <3>1, <3>2 DEF InArp
  <2> QED  BY <1>1, <1>9, <2>1, <2>2, <2>3 DEF PendingHasWaiter, In
<1>12. \A q \in NetProc : netcall'[q].at = "arp" =>
          LET f == arpcache'[netcall'[q].slot]
          IN  /\ f.arpaddr = netcall'[q].addr
              /\ \/ f.arstate = "AR_PENDING" /\ f.arpid = q /\ prmsg'[q] = "none"
                 \/ f.arstate = "AR_RESOLVED" /\ prmsg'[q] = "OK"
  BY <1>9 DEF ArpInv
<1>13. \A q, r \in NetProc : netcall'[q].at = "arp" /\ InArp(r, netcall[q].slot)' => q = r
  BY <1>9 DEF ArpInv, InArp
<1>14. /\ \A t \in Slot : arpcache'[t].arstate # "AR_FREE" => arpcache'[t].arpaddr \in IPAddr
       /\ \A t \in Slot : arpcache'[t].arstate = "AR_RESOLVED" => arpcache'[t].arhaddr # None
       /\ \A t \in Slot : arpcache'[t].arstate = "AR_PENDING" => arpcache'[t].arpid \in NetProc
       /\ heard' \in [IPAddr -> HwAddr \cup {None}]
  BY <1>1, <1>9 DEF ArpInv
<1>15. ArpInv'
  BY <1>8, <1>10, <1>11, <1>12, <1>13, <1>14 DEF ArpInv, ArpCacheSound, ArpEntries
<1> QED  BY <1>7, <1>15

\* A packet of a station whose address somebody has asked for.
LEMMA ArpHeardKeeps ==
  ASSUME MailInv, ArpInv, NEW a \in IPAddr, NEW h \in HwAddr, heard' = [heard EXCEPT ![a] = h],
         NEW s \in EntriesFor(a), arpcache' = [arpcache EXCEPT ![s] = Heard(@, h)],
         prmsg' = IF arpcache[s].arstate = "AR_PENDING" THEN Informed(arpcache[s].arpid) ELSE prmsg,
         UNCHANGED <<netcall, killed, arpret>>
  PROVE  ArpInv' /\ Tells(arpcache[s].arpid, "arp")
<1>1. /\ arpcache \in [Slot -> ArpEntries] /\ s \in Slot /\ arpcache[s].arpaddr = a
      /\ arpcache[s].arstate # "AR_FREE" /\ \A t \in EntriesFor(a) : t = s
  BY ArpSlots DEF ArpInv, ArpEntries, EntriesFor
<1>2. /\ arpcache' \in [Slot -> ArpEntries] /\ \A t \in Slot \ {s} : arpcache'[t] = arpcache[t]
      /\ arpcache'[s].arstate = "AR_RESOLVED" /\ arpcache'[s].arhaddr = h /\ arpcache'[s].arpaddr = a
  <2>1. PICK e \in ArpEntries : e = arpcache[s]
    BY <1>1
  <2>2. [e EXCEPT !.arhaddr = h, !.arstate = "AR_RESOLVED"] \in ArpEntries
        /\ LET f == [e EXCEPT !.arhaddr = h, !.arstate = "AR_RESOLVED"]
           IN  f.arstate = "AR_RESOLVED" /\ f.arhaddr = h /\ f.arpaddr = e.arpaddr
    BY DEF ArpEntries
  <2>3. arpcache' = [arpcache EXCEPT ![s] = [e EXCEPT !.arhaddr = h, !.arstate = "AR_RESOLVED"]]
    BY <2>1 DEF Heard
  <2> QED  BY <1>1, <2>1, <2>2, <2>3
<1>3. h # None
  BY ArpAssumption
<1>4. /\ heard' \in [IPAddr -> HwAddr \cup {None}] /\ heard'[a] = h
      /\ \A b \in IPAddr \ {a} : heard'[b] = heard[b]
  BY DEF ArpInv
<1>5. CacheIsCurrent'
  <2>1. \A t \in Slot \ {s} : arpcache[t].arstate # "AR_FREE" => arpcache[t].arpaddr \in IPAddr \ {a}
    BY <1>1 DEF EntriesFor, ArpInv
  <2> QED  BY <1>1, <1>2, <1>4, <2>1 DEF ArpInv, ArpCacheSound, CacheIsCurrent, In
<1>6. Tells(arpcache[s].arpid, "arp")
  <2>1. arpcache[s].arstate = "AR_PENDING" => arpcache[s].arpid \in killed \/ InArp(arpcache[s].arpid, s)
    BY <1>1 DEF ArpInv, ArpCacheSound, PendingHasWaiter, In
  <2>2. arpcache[s].arstate = "AR_PENDING" => arpcache[s].arpid \in NetProc
    BY <1>1 DEF ArpInv
  <2> QED  BY <2>1, <2>2 DEF Tells, InArp
<1>7. PendingHasWaiter'
  BY <1>2 DEF PendingHasWaiter, In, ArpInv, ArpCacheSound, InArp
<1>8. \A q \in NetProc : netcall[q].at = "arp" =>
         /\ netcall[q].slot \in Slot
         /\ netcall[q].slot # s => prmsg'[q] = prmsg[q]
         /\ netcall[q].slot = s => prmsg'[q] = "OK"
  <2>1. SUFFICES ASSUME NEW q \in NetProc, netcall[q].at = "arp"
                 PROVE  /\ netcall[q].slot \in Slot
                        /\ netcall[q].slot # s => prmsg'[q] = prmsg[q]
                        /\ netcall[q].slot = s => prmsg'[q] = "OK"
    OBVIOUS
  <2>2. /\ netcall[q].slot \in Slot /\ q \notin killed /\ prmsg \in [NetProc -> {"none", "OK", "other"}]
        /\ LET e == arpcache[netcall[q].slot]
           IN  \/ e.arstate = "AR_PENDING" /\ e.arpid = q /\ prmsg[q] = "none"
               \/ e.arstate = "AR_RESOLVED" /\ prmsg[q] = "OK"
    BY <2>1, CallKinds DEF ArpInv, MailInv
  <2>3. arpcache[s].arstate = "AR_PENDING" =>
           arpcache[s].arpid \in NetProc /\ (arpcache[s].arpid \in killed \/ InArp(arpcache[s].arpid, s))
    BY <1>1 DEF ArpInv, ArpCacheSound, PendingHasWaiter, In
  <2>4. CASE netcall[q].slot = s
    BY <2>1, <2>2, <2>3, <2>4 DEF Informed
  <2>5. CASE netcall[q].slot # s
    BY <2>1, <2>2, <2>3, <2>5 DEF Informed, InArp
  <2> QED  BY <2>2, <2>4, <2>5
<1>9. \A q \in NetProc : netcall'[q].at = "arp" =>
          LET f == arpcache'[netcall'[q].slot]
          IN  /\ f.arpaddr = netcall'[q].addr
              /\ \/ f.arstate = "AR_PENDING" /\ f.arpid = q /\ prmsg'[q] = "none"
                 \/ f.arstate = "AR_RESOLVED" /\ prmsg'[q] = "OK"
  BY <1>1, <1>2, <1>8 DEF ArpInv
<1>10. \A q, r \in NetProc : netcall'[q].at = "arp" /\ InArp(r, netcall[q].slot)' => q = r
  BY DEF ArpInv, InArp
<1>11. /\ \A t \in Slot : arpcache'[t].arstate # "AR_FREE" => arpcache'[t].arpaddr \in IPAddr
       /\ \A t \in Slot : arpcache'[t].arstate = "AR_RESOLVED" => arpcache'[t].arhaddr # None
       /\ \A t \in Slot : arpcache'[t].arstate = "AR_PENDING" => arpcache'[t].arpid \in NetProc
  BY <1>1, <1>2, <1>3 DEF ArpInv
<1>12. DOMAIN arpret' = NetProc
  BY DEF ArpInv
<1>13. ArpInv'
  BY <1>2, <1>4, <1>5, <1>7, <1>9, <1>10, <1>11, <1>12 DEF ArpInv, ArpCacheSound, ArpEntries
<1> QED  BY <1>6, <1>13

\* arp_in enters what a packet says, and tells whoever waits for it.
LEMMA ArpInKeeps ==
  ASSUME "evict" \notin NetCareless, MailInv, ArpInv,
         NEW a \in IPAddr, NEW h \in HwAddr, NEW request \in BOOLEAN, ArpIn(a, h, request)
  PROVE  ArpInv' /\ MailInv' /\ Keeps("udp") /\ Keeps("icmp")
<1>1. /\ heard' = [heard EXCEPT ![a] = h] /\ UNCHANGED <<netcall, killed, arpret>>
      /\ \/ \E s \in EntriesFor(a) :
               /\ arpcache' = [arpcache EXCEPT ![s] = Heard(@, h)]
               /\ prmsg' = IF arpcache[s].arstate = "AR_PENDING" THEN Informed(arpcache[s].arpid) ELSE prmsg
         \/ /\ EntriesFor(a) = {} /\ UNCHANGED prmsg
            /\ \E s \in ArpAlloc :
                  /\ \A q \in NetProc : ~InArp(q, s)
                  /\ arpcache' = [arpcache EXCEPT ![s] = [Cleared EXCEPT
                                     !.arpaddr = a, !.arhaddr = h, !.arstate = "AR_RESOLVED"]]
         \/ EntriesFor(a) = {} /\ UNCHANGED <<arpcache, prmsg>>
  BY DEF ArpIn, GivenAway
<1>2. /\ DOMAIN arpret' = NetProc /\ heard \in [IPAddr -> HwAddr \cup {None}] /\ h # None
      /\ heard' \in [IPAddr -> HwAddr \cup {None}] /\ heard'[a] = h /\ \A b \in IPAddr \ {a} : heard'[b] = heard[b]
  BY <1>1, ArpAssumption DEF ArpInv
<1>3. ASSUME NEW s \in EntriesFor(a), arpcache' = [arpcache EXCEPT ![s] = Heard(@, h)],
             prmsg' = IF arpcache[s].arstate = "AR_PENDING" THEN Informed(arpcache[s].arpid) ELSE prmsg
      PROVE  ArpInv' /\ MailInv' /\ Keeps("udp") /\ Keeps("icmp")
  <2>1. ArpInv' /\ Tells(arpcache[s].arpid, "arp")
    BY <1>1, <1>3, ArpHeardKeeps
  <2>2. PICK q, k : k = "arp" /\ q = arpcache[s].arpid  OBVIOUS
  <2> QED  BY <2>1, <2>2, TellsKeep
<1>4. UNCHANGED prmsg => MailInv' /\ Keeps("udp") /\ Keeps("icmp")
  BY <1>1 DEF MailInv, Keeps
<1>5. ASSUME EntriesFor(a) = {}, UNCHANGED prmsg, NEW s \in ArpAlloc, \A q \in NetProc : ~InArp(q, s),
             arpcache' = [arpcache EXCEPT ![s] = [Cleared EXCEPT
                                     !.arpaddr = a, !.arhaddr = h, !.arstate = "AR_RESOLVED"]]
      PROVE  ArpInv'
  <2>1. s \in Slot /\ arpcache[s].arstate # "AR_PENDING"
    BY ArpSlots
  <2>2. PICK e \in ArpEntries : e = [Cleared EXCEPT !.arpaddr = a, !.arhaddr = h, !.arstate = "AR_RESOLVED"]
                                /\ e.arpaddr = a /\ e.arstate = "AR_RESOLVED" /\ e.arhaddr = h
    <3>1. PICK e : e = [Cleared EXCEPT !.arpaddr = a, !.arhaddr = h, !.arstate = "AR_RESOLVED"]
      OBVIOUS
    <3>2. e \in ArpEntries /\ e.arpaddr = a /\ e.arstate = "AR_RESOLVED" /\ e.arhaddr = h
      BY <3>1 DEF ArpEntries, Cleared
    <3> QED  BY <3>1, <3>2
  <2>3. UNCHANGED mailvars
    BY <1>1, <1>5 DEF mailvars
  <2>4. arpcache' = [arpcache EXCEPT ![s] = e]
    BY <1>5, <2>2
  <2>5. Gives(s, e, a)
    BY <1>2, <1>5, <2>1, <2>2, <2>3, <2>4 DEF Gives
  <2> QED  BY <2>1, <2>5, ArpGiven
<1>6. ASSUME EntriesFor(a) = {}, UNCHANGED <<arpcache, prmsg>>
      PROVE  ArpInv'
  <2>1. CacheIsCurrent'
    <3>1. \A s \in Slot : arpcache[s].arstate # "AR_FREE" => arpcache[s].arpaddr \in IPAddr \ {a}
      BY <1>6 DEF EntriesFor, ArpInv
    <3> QED  BY <1>2, <1>6, <3>1 DEF ArpInv, ArpCacheSound, CacheIsCurrent, In
  <2>2. PendingHasWaiter'
    BY <1>1, <1>6 DEF ArpInv, ArpCacheSound, PendingHasWaiter, In, InArp
  <2> QED  BY <1>1, <1>2, <1>6, <2>1, <2>2 DEF ArpInv, ArpCacheSound, InArp
<1> QED  BY <1>1, <1>3, <1>4, <1>5, <1>6

\* A message from elsewhere, and a process that is killed.
LEMMA ArpOutside ==
  ASSUME {"stray", "reuse"} \cap NetCareless = {}, MailInv, ArpInv,
         NEW p \in NetProc, Stray(p) \/ KillNet(p), UNCHANGED arpvars
  PROVE  MailInv' /\ ArpInv'
<1>1. UNCHANGED <<arpcache, heard>> /\ DOMAIN arpret' = NetProc
  BY DEF arpvars, ArpInv
<1>2. CASE Stray(p)
  <2>1. Keeps("arp") /\ MailInv'
    BY <1>2 DEF Stray, Keeps, MailInv
  <2> QED  BY <1>1, <2>1, ArpFrame
<1>3. CASE KillNet(p)
  <2>1. /\ p \notin killed /\ netcall' = [netcall EXCEPT ![p] = NetIdle]
        /\ prmsg' = [prmsg EXCEPT ![p] = "none"] /\ killed' = killed \cup {p}
    BY <1>3 DEF KillNet
  <2>2. MailInv'
    BY <2>1, CallKinds DEF MailInv
  <2>3. CacheIsCurrent'
    BY <1>1 DEF ArpInv, ArpCacheSound, CacheIsCurrent, In
  <2>4. /\ netcall'[p] = NetIdle /\ \A q \in NetProc \ {p} : netcall'[q] = netcall[q] /\ prmsg'[q] = prmsg[q]
        /\ netcall'[p].at = "none"
    BY <2>1, CallKinds DEF MailInv
  <2>5. PendingHasWaiter'
    BY <1>1, <2>1, <2>4 DEF ArpInv, ArpCacheSound, PendingHasWaiter, In, InArp
  <2>6. \A q \in NetProc : netcall'[q].at = "arp" => netcall'[q] = netcall[q] /\ prmsg'[q] = prmsg[q]
    BY <2>4
  <2>7. \A q \in NetProc : netcall'[q].at = "arp" =>
          LET f == arpcache'[netcall'[q].slot]
          IN  /\ f.arpaddr = netcall'[q].addr
              /\ \/ f.arstate = "AR_PENDING" /\ f.arpid = q /\ prmsg'[q] = "none"
                 \/ f.arstate = "AR_RESOLVED" /\ prmsg'[q] = "OK"
    BY <1>1, <2>6 DEF ArpInv
  <2>8. \A q, r \in NetProc : netcall'[q].at = "arp" /\ InArp(r, netcall[q].slot)' => q = r
    BY <2>6 DEF ArpInv, InArp
  <2> QED  BY <1>1, <2>2, <2>3, <2>5, <2>7, <2>8 DEF ArpInv, ArpCacheSound
<1> QED  BY <1>2, <1>3
-----------------------------------------------------------------------------
\* UDP: what every step does to the names, whatever the callers leave to chance.

\* A step that changes slot s, and leaves the processes at the others alone.
UdpAt(s) ==
    /\ DOMAIN udptab' = UdpSlot /\ \A t \in UdpSlot \ {s} : udptab'[t] = udptab[t]
    /\ DOMAIN udptab'[s] = {"udstate", "udlocport", "udremote", "udqueue", "udcount", "udpid"}
    /\ udptab'[s].udstate \in {"UDP_FREE", "UDP_USED", "UDP_RECV"}
    /\ udptab'[s].udstate = "UDP_RECV" => udptab'[s].udpid \in NetProc /\ InUdp(udptab[s].udpid, s)'
    /\ \A q \in NetProc, t \in UdpSlot \ {s} : InUdp(q, t) => InUdp(q, t)'
    /\ killed' = killed

\* A step on a slot that keeps the naming of it.
LEMMA UdpAtNamed ==
  ASSUME UdpNamed, NEW s \in UdpSlot, UdpAt(s)
  PROVE  UdpNamed'
BY DEF UdpNamed, UdpAt, InUdp

\* The first slot of some is one of them.
LEMMA UdpMin ==
  \A S \in SUBSET UdpSlot : S # {} => Min(S) \in S
<1>1. UdpSlot \subseteq Nat
  BY UdpAssumption DEF UdpSlot
<1>2. SUFFICES ASSUME NEW S \in SUBSET UdpSlot, S # {}  PROVE Min(S) \in S
  OBVIOUS
<1>3. S \subseteq Nat
  BY <1>1, <1>2
<1> QED  BY <1>2, <1>3, MinNat

\* udp_register takes a free slot.
LEMMA UdpRegisterNamed ==
  ASSUME UdpNamed, NEW loc, NEW rem, UdpRegister(loc, rem)
  PROVE  UdpNamed' /\ UNCHANGED mailvars
<1>1. PICK s \in UdpSlot : s = Min(FreeSlots)
  BY UdpMin DEF UdpRegister, FreeSlots
<1>2. udptab' = [udptab EXCEPT ![s] =
                     [udstate |-> "UDP_USED", udlocport |-> loc, udremote |-> rem,
                      udqueue |-> <<>>, udcount |-> 0, udpid |-> NoOne]] /\ UNCHANGED mailvars
  BY <1>1 DEF UdpRegister
<1>3. UdpAt(s)
  BY <1>2 DEF UdpNamed, UdpAt, mailvars, InUdp
<1> QED  BY <1>2, <1>3, UdpAtNamed

\* udp_in queues a packet and tells at most the process the slot names.
LEMMA UdpInNamed ==
  ASSUME UdpNamed, NEW loc, NEW rem, UdpIn(loc, rem)
  PROVE  UdpNamed' /\ \E s \in UdpSlot : Tells(udptab[s].udpid, "udp")
<1>1. PICK s \in UdpSlot : s = Min({t \in Matching(loc, rem) : udptab[t].udcount < UDP_QSIZ})
  <2>1. {t \in Matching(loc, rem) : udptab[t].udcount < UDP_QSIZ} \in SUBSET UdpSlot
    BY DEF Matching, UsedSlots
  <2>2. {t \in Matching(loc, rem) : udptab[t].udcount < UDP_QSIZ} # {}
    BY DEF UdpIn
  <2> QED  BY <2>1, <2>2, UdpMin
<1>2. /\ udptab' = [udptab EXCEPT ![s] = Queued(@, rem)] /\ UNCHANGED <<netcall, killed>>
      /\ prmsg' = IF udptab[s].udstate = "UDP_RECV" THEN Informed(udptab[s].udpid) ELSE prmsg
  BY <1>1 DEF UdpIn
<1>3. UdpAt(s)
  BY <1>2 DEF UdpNamed, UdpAt, InUdp, Queued
<1>4. Tells(udptab[s].udpid, "udp")
  BY <1>2 DEF UdpNamed, Tells, InUdp
<1> QED  BY <1>3, <1>4, UdpAtNamed

\* udp_recv takes a packet or waits at the slot.
LEMMA UdpRecvNamed ==
  ASSUME MailInv, UdpNamed, NEW p \in NetProc, NEW s \in UdpSlot, UdpRecv(p, s)
  PROVE  UdpNamed' /\ (UNCHANGED mailvars \/ Moves(p, "udp"))
<1>1. /\ p \notin killed /\ netcall[p] = NetIdle /\ netcall[p].at = "none" /\ UNCHANGED killed
      /\ DOMAIN netcall = NetProc
      /\ \/ /\ udptab'  = [udptab EXCEPT ![s].udstate = "UDP_RECV", ![s].udpid = p]
            /\ netcall' = [netcall EXCEPT ![p] = [at |-> "udp", slot |-> s]]
            /\ prmsg'   = [prmsg EXCEPT ![p] = "none"]
         \/ /\ udptab' = [udptab EXCEPT ![s] = Dequeued(@)]
            /\ UNCHANGED <<netcall, prmsg>>
  BY CallKinds DEF UdpRecv, NetFree, MailInv
<1>2. CASE /\ udptab'  = [udptab EXCEPT ![s].udstate = "UDP_RECV", ![s].udpid = p]
           /\ netcall' = [netcall EXCEPT ![p] = [at |-> "udp", slot |-> s]]
           /\ prmsg'   = [prmsg EXCEPT ![p] = "none"]
  <2>1. UdpAt(s)
    BY <1>1, <1>2 DEF UdpNamed, UdpAt, InUdp
  <2>2. [at |-> "udp", slot |-> s] \in NetCalls
    BY DEF NetCalls
  <2>3. Moves(p, "udp")
    BY <1>1, <1>2, <2>2 DEF Moves
  <2> QED  BY <2>1, <2>3, UdpAtNamed
<1>3. CASE udptab' = [udptab EXCEPT ![s] = Dequeued(@)] /\ UNCHANGED <<netcall, prmsg>>
  <2>1. UdpAt(s)
    BY <1>1, <1>3 DEF UdpNamed, UdpAt, InUdp, Dequeued
  <2> QED  BY <1>1, <1>3, <2>1, UdpAtNamed DEF mailvars
<1> QED  BY <1>1, <1>2, <1>3

\* The process is told or times out, and the slot names nobody.
LEMMA UdpRecvEndNamed ==
  ASSUME MailInv, UdpNamed, NEW p \in NetProc, UdpRecvEnd(p)
  PROVE  UdpNamed' /\ Moves(p, "udp")
<1>1. /\ netcall[p].at = "udp" /\ netcall' = [netcall EXCEPT ![p] = NetIdle]
      /\ prmsg' = [prmsg EXCEPT ![p] = "none"] /\ UNCHANGED killed
      /\ udptab' = [udptab EXCEPT ![netcall[p].slot] = IF Recvd(p) = "OK" THEN Dequeued(@)
                                                       ELSE [@ EXCEPT !.udstate = "UDP_USED"]]
  BY DEF UdpRecvEnd
<1>2. p \notin killed /\ netcall[p].slot \in UdpSlot /\ DOMAIN netcall = NetProc
  BY <1>1, CallKinds DEF MailInv
<1>3. PICK s \in UdpSlot : s = netcall[p].slot
  BY <1>2
<1>4. udptab' = [udptab EXCEPT ![s] = IF Recvd(p) = "OK" THEN Dequeued(@)
                                      ELSE [@ EXCEPT !.udstate = "UDP_USED"]]
  BY <1>1, <1>3
<1>5. UdpAt(s)
  BY <1>1, <1>2, <1>3, <1>4 DEF UdpNamed, UdpAt, InUdp, Dequeued
<1>6. Moves(p, "udp")
  BY <1>1, <1>2, CallKinds DEF Moves
<1> QED  BY <1>5, <1>6, UdpAtNamed

\* udp_release frees a slot.
LEMMA UdpReleaseNamed ==
  ASSUME UdpNamed, NEW s \in UdpSlot, UdpRelease(s)
  PROVE  UdpNamed' /\ UNCHANGED mailvars
<1>1. /\ udptab' = [udptab EXCEPT ![s].udstate = "UDP_FREE", ![s].udqueue = <<>>,
                                  ![s].udcount = IF @ > 0 THEN 0 ELSE @]
      /\ UNCHANGED mailvars
  BY DEF UdpRelease
<1>2. UdpAt(s)
  BY <1>1 DEF UdpNamed, UdpAt, InUdp, mailvars
<1> QED  BY <1>1, <1>2, UdpAtNamed

\* The other protocols keep their calls and their messages.
LEMMA UdpStepNamed ==
  ASSUME MailInv, UdpNamed, UdpNext
  PROVE  UdpNamed' /\ MailInv' /\ Keeps("arp") /\ Keeps("icmp")
<1>1. UNCHANGED mailvars => MailInv' /\ Keeps("arp") /\ Keeps("icmp")
  BY DEF mailvars, MailInv, Keeps
<1>2. ASSUME NEW p \in NetProc, Moves(p, "udp")  PROVE MailInv' /\ Keeps("arp") /\ Keeps("icmp")
  <2>1. PICK k : k = "udp"  OBVIOUS
  <2> QED  BY <1>2, <2>1, MovesKeep
<1>3. ASSUME NEW q, Tells(q, "udp")  PROVE MailInv' /\ Keeps("arp") /\ Keeps("icmp")
  <2>1. PICK k : k = "udp"  OBVIOUS
  <2> QED  BY <1>3, <2>1, TellsKeep
<1>4. CASE \E loc \in UdpPort, rem \in Remote \cup {AnyRemote} : UdpRegister(loc, rem)
  BY <1>1, <1>4, UdpRegisterNamed
<1>5. CASE \E loc \in UdpPort, rem \in Remote : UdpIn(loc, rem)
  BY <1>3, <1>5, UdpInNamed
<1>6. CASE \E s \in UdpSlot : UdpRelease(s)
  BY <1>1, <1>6, UdpReleaseNamed
<1>7. CASE \E s \in UdpSlot, p \in NetProc : UdpRecv(p, s)
  BY <1>1, <1>2, <1>7, UdpRecvNamed
<1>8. CASE \E p \in NetProc : UdpRecvEnd(p)
  BY <1>2, <1>8, UdpRecvEndNamed
<1> QED  BY <1>4, <1>5, <1>6, <1>7, <1>8 DEF UdpNext
-----------------------------------------------------------------------------
\* Echo replies, likewise.

IcmpAt(s) ==
    /\ DOMAIN icmptab' = IcmpSlot /\ \A t \in IcmpSlot \ {s} : icmptab'[t] = icmptab[t]
    /\ DOMAIN icmptab'[s] = {"icstate", "icremip", "iccount", "ichead", "ictail", "icpid"}
    /\ icmptab'[s].icstate \in {"ICMP_FREE", "ICMP_USED", "ICMP_RECV"}
    /\ icmptab'[s].icstate = "ICMP_RECV" => icmptab'[s].icpid \in NetProc /\ InIcmp(icmptab[s].icpid, s)'
    /\ \A q \in NetProc, t \in IcmpSlot \ {s} : InIcmp(q, t) => InIcmp(q, t)'
    /\ killed' = killed

\* The same for the slots of echo replies.
LEMMA IcmpAtNamed ==
  ASSUME IcmpNamed, NEW s \in IcmpSlot, IcmpAt(s)
  PROVE  IcmpNamed'
BY DEF IcmpNamed, IcmpAt, InIcmp

\* The first slot of some is one of them.
LEMMA IcmpMin ==
  \A S \in SUBSET IcmpSlot : S # {} => Min(S) \in S
<1>1. IcmpSlot \subseteq Nat
  BY IcmpAssumption DEF IcmpSlot
<1>2. SUFFICES ASSUME NEW S \in SUBSET IcmpSlot, S # {}  PROVE Min(S) \in S
  OBVIOUS
<1>3. S \subseteq Nat
  BY <1>1, <1>2
<1> QED  BY <1>2, <1>3, MinNat

\* icmp_register takes a free slot.
LEMMA IcmpRegisterNamed ==
  ASSUME IcmpNamed, NEW h, IcmpRegister(h)
  PROVE  IcmpNamed' /\ UNCHANGED mailvars
<1>1. PICK s \in IcmpSlot : s = Min(IcmpSlot \ IcmpUsed)
  <2>1. IcmpSlot \ IcmpUsed # {} /\ IcmpSlot \ IcmpUsed \in SUBSET IcmpSlot
    BY DEF IcmpRegister, IcmpUsed
  <2> QED  BY <2>1, IcmpMin
<1>2. icmptab' = [icmptab EXCEPT ![s] =
                      [icstate |-> "ICMP_USED", icremip |-> h, iccount |-> 0,
                       ichead |-> 0, ictail |-> 0, icpid |-> NoOne]] /\ UNCHANGED mailvars
  BY <1>1 DEF IcmpRegister
<1>3. IcmpAt(s)
  BY <1>2 DEF IcmpNamed, IcmpAt, mailvars, InIcmp
<1> QED  BY <1>2, <1>3, IcmpAtNamed

\* icmp_in stores a reply and tells at most the process the slot names.
LEMMA IcmpInNamed ==
  ASSUME IcmpNamed, NEW s \in IcmpSlot, NEW h, IcmpIn(s, h)
  PROVE  IcmpNamed' /\ Tells(icmptab[s].icpid, "icmp")
<1> DEFINE e == icmptab[s]
<1>2. /\ icmptab' = [icmptab EXCEPT ![s] =
                          [e EXCEPT !.iccount = @ + 1, !.ictail = (@ + 1) % ICMP_QSIZ,
                                    !.icstate = "ICMP_USED"]]
      /\ UNCHANGED <<netcall, killed>>
      /\ prmsg' = IF e.icstate = "ICMP_RECV" THEN Informed(e.icpid) ELSE prmsg
  BY DEF IcmpIn
<1>3. IcmpAt(s)
  BY <1>2 DEF IcmpNamed, IcmpAt, InIcmp
<1>4. Tells(icmptab[s].icpid, "icmp")
  BY <1>2 DEF IcmpNamed, Tells, InIcmp
<1> QED  BY <1>3, <1>4, IcmpAtNamed

\* icmp_recv takes a reply or waits at the slot.
LEMMA IcmpRecvNamed ==
  ASSUME MailInv, IcmpNamed, NEW p \in NetProc, NEW s \in IcmpSlot, IcmpRecv(p, s)
  PROVE  IcmpNamed' /\ (UNCHANGED mailvars \/ Moves(p, "icmp"))
<1>1. /\ p \notin killed /\ netcall[p] = NetIdle /\ netcall[p].at = "none" /\ UNCHANGED killed
      /\ DOMAIN netcall = NetProc
      /\ \/ /\ icmptab' = [icmptab EXCEPT ![s].icstate = "ICMP_RECV", ![s].icpid = p]
            /\ netcall' = [netcall EXCEPT ![p] = [at |-> "icmp", slot |-> s]]
            /\ prmsg'   = [prmsg EXCEPT ![p] = "none"]
         \/ /\ icmptab' = [icmptab EXCEPT ![s] = PacketTaken(@)]
            /\ UNCHANGED <<netcall, prmsg>>
  BY CallKinds DEF IcmpRecv, NetFree, MailInv
<1>2. CASE /\ icmptab' = [icmptab EXCEPT ![s].icstate = "ICMP_RECV", ![s].icpid = p]
           /\ netcall' = [netcall EXCEPT ![p] = [at |-> "icmp", slot |-> s]]
           /\ prmsg'   = [prmsg EXCEPT ![p] = "none"]
  <2>1. IcmpAt(s)
    BY <1>1, <1>2 DEF IcmpNamed, IcmpAt, InIcmp
  <2>2. [at |-> "icmp", slot |-> s] \in NetCalls
    BY DEF NetCalls
  <2>3. Moves(p, "icmp")
    BY <1>1, <1>2, <2>2 DEF Moves
  <2> QED  BY <2>1, <2>3, IcmpAtNamed
<1>3. CASE icmptab' = [icmptab EXCEPT ![s] = PacketTaken(@)] /\ UNCHANGED <<netcall, prmsg>>
  <2>1. IcmpAt(s)
    BY <1>1, <1>3 DEF IcmpNamed, IcmpAt, InIcmp, PacketTaken
  <2> QED  BY <1>1, <1>3, <2>1, IcmpAtNamed DEF mailvars
<1> QED  BY <1>1, <1>2, <1>3

\* The process is told or times out, and the slot names nobody.
LEMMA IcmpRecvEndNamed ==
  ASSUME MailInv, IcmpNamed, NEW p \in NetProc, IcmpRecvEnd(p)
  PROVE  IcmpNamed' /\ Moves(p, "icmp")
<1>1. /\ netcall[p].at = "icmp" /\ netcall' = [netcall EXCEPT ![p] = NetIdle]
      /\ prmsg' = [prmsg EXCEPT ![p] = "none"] /\ UNCHANGED killed
      /\ \/ icmptab' = [icmptab EXCEPT ![netcall[p].slot] = PacketTaken(@)]
         \/ icmptab' = [icmptab EXCEPT ![netcall[p].slot].icstate = "ICMP_USED"]
  BY DEF IcmpRecvEnd
<1>2. p \notin killed /\ netcall[p].slot \in IcmpSlot /\ DOMAIN netcall = NetProc
  BY <1>1, CallKinds DEF MailInv
<1>3. PICK s \in IcmpSlot : s = netcall[p].slot
  BY <1>2
<1>4. \/ icmptab' = [icmptab EXCEPT ![s] = PacketTaken(@)]
      \/ icmptab' = [icmptab EXCEPT ![s].icstate = "ICMP_USED"]
  BY <1>1, <1>3
<1>5. IcmpAt(s)
  <2>1. /\ DOMAIN icmptab' = IcmpSlot /\ \A t \in IcmpSlot \ {s} : icmptab'[t] = icmptab[t]
        /\ DOMAIN icmptab'[s] = {"icstate", "icremip", "iccount", "ichead", "ictail", "icpid"}
        /\ icmptab'[s].icstate = "ICMP_USED"
    BY <1>4 DEF IcmpNamed, PacketTaken
  <2>2. \A q \in NetProc, t \in IcmpSlot \ {s} : InIcmp(q, t) => InIcmp(q, t)'
    BY <1>1, <1>2, <1>3 DEF InIcmp
  <2> QED  BY <1>1, <2>1, <2>2 DEF IcmpAt
<1>6. Moves(p, "icmp")
  BY <1>1, <1>2, CallKinds DEF Moves
<1> QED  BY <1>5, <1>6, IcmpAtNamed

\* icmp_release frees a slot.
LEMMA IcmpReleaseNamed ==
  ASSUME IcmpNamed, NEW s \in IcmpSlot, IcmpRelease(s)
  PROVE  IcmpNamed' /\ UNCHANGED mailvars
<1>1. /\ icmptab' = [icmptab EXCEPT ![s].icstate = "ICMP_FREE", ![s].iccount = 0]
      /\ UNCHANGED mailvars
  BY DEF IcmpRelease
<1>2. IcmpAt(s)
  BY <1>1 DEF IcmpNamed, IcmpAt, InIcmp, mailvars
<1> QED  BY <1>1, <1>2, IcmpAtNamed

\* A step of icmp is none of the other protocols' business.
LEMMA IcmpStepNamed ==
  ASSUME MailInv, IcmpNamed, IcmpNext
  PROVE  IcmpNamed' /\ MailInv' /\ Keeps("arp") /\ Keeps("udp")
<1>1. UNCHANGED mailvars => MailInv' /\ Keeps("arp") /\ Keeps("udp")
  BY DEF mailvars, MailInv, Keeps
<1>2. ASSUME NEW p \in NetProc, Moves(p, "icmp")  PROVE MailInv' /\ Keeps("arp") /\ Keeps("udp")
  <2>1. PICK k : k = "icmp"  OBVIOUS
  <2> QED  BY <1>2, <2>1, MovesKeep
<1>3. ASSUME NEW q, Tells(q, "icmp")  PROVE MailInv' /\ Keeps("arp") /\ Keeps("udp")
  <2>1. PICK k : k = "icmp"  OBVIOUS
  <2> QED  BY <1>3, <2>1, TellsKeep
<1>4. CASE \E h \in EchoHost : IcmpRegister(h)
  BY <1>1, <1>4, IcmpRegisterNamed
<1>5. CASE \E h \in EchoHost, s \in IcmpSlot : IcmpIn(s, h)
  BY <1>3, <1>5, IcmpInNamed
<1>6. CASE \E s \in IcmpSlot : IcmpRelease(s)
  BY <1>1, <1>6, IcmpReleaseNamed
<1>7. CASE \E s \in IcmpSlot, p \in NetProc : IcmpRecv(p, s)
  BY <1>1, <1>2, <1>7, IcmpRecvNamed
<1>8. CASE \E p \in NetProc : IcmpRecvEnd(p)
  BY <1>2, <1>8, IcmpRecvEndNamed
<1> QED  BY <1>4, <1>5, <1>6, <1>7, <1>8 DEF IcmpNext
-----------------------------------------------------------------------------
\* Names survive the steps of the others; a process that is killed is not
\* mistaken for another.

\* What others do keeps the naming.
LEMMA NamesFrame ==
  ASSUME UdpNamed, IcmpNamed
  PROVE  /\ (Keeps("udp") /\ UNCHANGED udptab) => UdpNamed'
         /\ (Keeps("icmp") /\ UNCHANGED icmptab) => IcmpNamed'
<1>1. ASSUME Keeps("udp"), UNCHANGED udptab  PROVE UdpNamed'
  BY <1>1 DEF UdpNamed, Keeps, InUdp
<1>2. ASSUME Keeps("icmp"), UNCHANGED icmptab  PROVE IcmpNamed'
  BY <1>2 DEF IcmpNamed, Keeps, InIcmp
<1> QED  BY <1>1, <1>2

\* So does somebody outside who sends a message or kills.
LEMMA NamesOutside ==
  ASSUME "reuse" \notin NetCareless, MailInv, UdpNamed, IcmpNamed,
         NEW p \in NetProc, Stray(p) \/ KillNet(p), UNCHANGED <<udptab, icmptab>>
  PROVE  UdpNamed' /\ IcmpNamed'
<1>1. killed \subseteq killed' /\ \A q \in NetProc : q \in killed' \/ netcall'[q] = netcall[q]
  BY DEF Stray, KillNet, MailInv
<1>2. UdpNamed'
  BY <1>1 DEF UdpNamed, InUdp
<1>3. IcmpNamed'
  BY <1>1 DEF IcmpNamed, InIcmp
<1> QED  BY <1>2, <1>3

\* At the start nobody waits and every entry is free.
LEMMA ResolveInit ==
  NetInit => ResolveInv
<1> SUFFICES ASSUME NetInit PROVE ResolveInv
  OBVIOUS
<1>1. MailInv
  BY CallKinds DEF NetInit, MailboxInit, MailInv
<1>2. \A p \in NetProc : netcall[p].at = "none"
  BY CallKinds DEF NetInit, MailboxInit
<1>3. \A s \in Slot : arpcache[s].arstate = "AR_FREE"
  BY DEF NetInit, ArpInit, Cleared
<1>4. arpcache \in [Slot -> ArpEntries] /\ heard \in [IPAddr -> HwAddr \cup {None}] /\ DOMAIN arpret = NetProc
  BY DEF NetInit, ArpInit, Cleared, ArpEntries
<1>5. ArpInv
  BY <1>2, <1>3, <1>4 DEF ArpInv, ArpEntries, ArpCacheSound, CacheIsCurrent, PendingHasWaiter, In
<1>6. UdpNamed /\ IcmpNamed
  BY DEF NetInit, UdpInit, IcmpInit, UdpNamed, IcmpNamed
<1> QED  BY <1>1, <1>5, <1>6 DEF ResolveInv

\* Every step of the three protocols keeps the invariant of address resolution.
LEMMA ResolveNext ==
  ASSUME {"stray", "reuse", "evict"} \cap NetCareless = {}
  PROVE  ResolveInv /\ [NetNext]_netvars => ResolveInv'
<1> SUFFICES ASSUME ResolveInv, [NetNext]_netvars PROVE ResolveInv'
  OBVIOUS
<1>1. MailInv /\ ArpInv /\ UdpNamed /\ IcmpNamed
      /\ "evict" \notin NetCareless /\ "reuse" \notin NetCareless /\ {"stray", "reuse"} \cap NetCareless = {}
  BY DEF ResolveInv
<1>2. ArpInv => (UNCHANGED arpvars => UNCHANGED <<arpcache, heard>> /\ DOMAIN arpret' = NetProc)
  BY DEF arpvars, ArpInv
<1>3. CASE ArpNext /\ UNCHANGED <<udptab, icmptab>>
  <2>1. ArpInv' /\ MailInv' /\ Keeps("udp") /\ Keeps("icmp")
    BY <1>1, <1>3, ArpResolveKeeps, ArpResolveEndKeeps, ArpInKeeps DEF ArpNext
  <2> QED  BY <1>1, <1>3, <2>1, NamesFrame DEF ResolveInv
<1>4. CASE UdpNext /\ UNCHANGED <<arpvars, icmptab>>
  <2>1. UdpNamed' /\ MailInv' /\ Keeps("arp") /\ Keeps("icmp")
    BY <1>1, <1>4, UdpStepNamed
  <2>2. ArpInv'
    BY <1>1, <1>2, <1>4, <2>1, ArpFrame
  <2> QED  BY <1>1, <1>4, <2>1, <2>2, NamesFrame DEF ResolveInv
<1>5. CASE IcmpNext /\ UNCHANGED <<arpvars, udptab>>
  <2>1. IcmpNamed' /\ MailInv' /\ Keeps("arp") /\ Keeps("udp")
    BY <1>1, <1>5, IcmpStepNamed
  <2>2. ArpInv'
    BY <1>1, <1>2, <1>5, <2>1, ArpFrame
  <2> QED  BY <1>1, <1>5, <2>1, <2>2, NamesFrame DEF ResolveInv
<1>6. CASE (\E p \in NetProc : Stray(p) \/ KillNet(p)) /\ UNCHANGED <<arpvars, udptab, icmptab>>
  <2>1. PICK p \in NetProc : Stray(p) \/ KillNet(p)
    BY <1>6
  <2>2. MailInv' /\ ArpInv'
    BY <1>1, <1>6, <2>1, ArpOutside
  <2>3. UdpNamed' /\ IcmpNamed'
    BY <1>1, <1>6, <2>1, NamesOutside
  <2> QED  BY <2>2, <2>3 DEF ResolveInv
<1>7. CASE UNCHANGED netvars
  <2>1. UNCHANGED <<mailvars, arpvars, udptab, icmptab>>
    BY <1>7 DEF netvars
  <2>2. MailInv' /\ Keeps("arp") /\ Keeps("udp") /\ Keeps("icmp")
    BY <1>1, <2>1 DEF mailvars, MailInv, Keeps
  <2> QED  BY <1>1, <1>2, <2>1, <2>2, ArpFrame, NamesFrame DEF ResolveInv
<1> QED  BY <1>3, <1>4, <1>5, <1>6, <1>7 DEF NetNext

\* The cache of addresses is right whatever packets, timeouts and kills come
\* between, and whatever the processes do with the other protocols meanwhile:
\* no two entries for a station, no answer out of date, and no entry pending
\* for nobody (net/arp.c).  The hypothesis is that a process waiting for an
\* address gets no message from elsewhere, that a process id is not used again,
\* and that an entry is not given away before the process it was resolved for
\* has run; two processes at one endpoint, or one released under a receiver,
\* do no harm here.
THEOREM NetResolves ==
  ASSUME {"stray", "reuse", "evict"} \cap NetCareless = {}
  PROVE  NetSpec => []ArpCacheSound
<1>1. NetInit => ResolveInv
  BY ResolveInit
<1>2. ResolveInv /\ [NetNext]_netvars => ResolveInv'
  BY ResolveNext
<1>3. ResolveInv => ArpCacheSound
  BY DEF ResolveInv, ArpInv
<1> QED  BY <1>1, <1>2, <1>3, PTL DEF NetSpec
-----------------------------------------------------------------------------
\* What address resolution promises: the refinement, step by step.

Asking == [p \in NetProc |-> IF netcall[p].at = "arp" THEN netcall[p].addr ELSE None]

nbmapped == <<heard, Asking, arpret>>

NbSteps == NB!Give \/ (\E p \in NetProc : NB!Ask(p) \/ NB!Told(p) \/ NB!ToldAtOnce(p) \/ NB!GiveUp(p))

\* Who asks for which address, from the calls.
LEMMA AskingChanges ==
  ASSUME MailInv
  PROVE  /\ Keeps("arp") => Asking' = Asking
         /\ \A p \in NetProc : (\A q \in NetProc \ {p} : netcall'[q] = netcall[q]) =>
               Asking' = [Asking EXCEPT ![p] = IF netcall'[p].at = "arp" THEN netcall'[p].addr ELSE None]
<1>1. ASSUME Keeps("arp")  PROVE Asking' = Asking
  BY <1>1 DEF Keeps, Asking
<1>2. ASSUME NEW p \in NetProc, \A q \in NetProc \ {p} : netcall'[q] = netcall[q]
      PROVE  Asking' = [Asking EXCEPT ![p] = IF netcall'[p].at = "arp" THEN netcall'[p].addr ELSE None]
  BY <1>2 DEF Asking
<1> QED  BY <1>1, <1>2

\* arp_resolve is a question of Neighbours, or one that is answered at once.
LEMMA NbResolve ==
  ASSUME ResolveInv, NEW p \in NetProc, NEW a \in IPAddr, ArpResolve(p, a)
  PROVE  NB!Ask(p) \/ NB!ToldAtOnce(p)
<1>1. MailInv /\ ArpInv
  BY DEF ResolveInv
<1>2. /\ netcall[p] = NetIdle /\ UNCHANGED <<heard, killed>>
      /\ \/ /\ EntriesFor(a) \cap In("AR_RESOLVED") # {} /\ UNCHANGED <<arpcache, netcall, prmsg>>
            /\ arpret' = [arpret EXCEPT ![p] = <<a, arpcache[Min(EntriesFor(a))].arhaddr>>]
         \/ /\ EntriesFor(a) = {} /\ UNCHANGED arpret
            /\ \E s : netcall'  = [netcall EXCEPT ![p] = [at |-> "arp", slot |-> s, addr |-> a,
                                                         sent |-> 1]]
  BY DEF ArpResolve, NetFree
<1>3. Asking[p] = None /\ None \notin IPAddr
  BY <1>2, CallKinds, ArpAssumption DEF Asking
<1>4. CASE /\ EntriesFor(a) \cap In("AR_RESOLVED") # {} /\ UNCHANGED <<arpcache, netcall, prmsg>>
           /\ arpret' = [arpret EXCEPT ![p] = <<a, arpcache[Min(EntriesFor(a))].arhaddr>>]
  <2>1. PICK s \in EntriesFor(a) : s \in In("AR_RESOLVED")
    BY <1>4
  <2>2. Min(EntriesFor(a)) = s /\ s \in Slot
    BY <1>1, ArpSlots
  <2>3. arpcache[s].arpaddr = a /\ arpcache[s].arhaddr = heard[arpcache[s].arpaddr] /\ arpcache[s].arhaddr # None
    BY <1>1, <2>1, <2>2 DEF EntriesFor, ArpInv, ArpCacheSound, CacheIsCurrent, In
  <2>4. heard[a] # None /\ arpret' = [arpret EXCEPT ![p] = <<a, heard[a]>>]
    BY <1>4, <2>2, <2>3
  <2>5. UNCHANGED <<heard, Asking>>
    BY <1>2, <1>4 DEF Asking
  <2>6. NB!ToldAtOnce(p)
    BY <1>3, <2>4, <2>5 DEF NB!ToldAtOnce, NB!Tell, Asking
  <2> QED  BY <2>6
<1>5. ASSUME EntriesFor(a) = {}, UNCHANGED arpret,
             NEW s, netcall'  = [netcall EXCEPT ![p] = [at |-> "arp", slot |-> s, addr |-> a, sent |-> 1]]
      PROVE  NB!Ask(p)
  <2>1. \A q \in NetProc : Asking[q] # a
    <3>1. SUFFICES ASSUME NEW q \in NetProc, netcall[q].at = "arp", netcall[q].addr = a  PROVE FALSE
      BY <1>3 DEF Asking
    <3>2. netcall[q].slot \in Slot /\ arpcache[netcall[q].slot].arpaddr = a
          /\ arpcache[netcall[q].slot].arstate # "AR_FREE"
      BY <1>1, <3>1, CallKinds DEF MailInv, ArpInv
    <3> QED  BY <1>5, <3>2 DEF EntriesFor
  <2>2. /\ \A q \in NetProc \ {p} : netcall'[q] = netcall[q]
        /\ netcall'[p].at = "arp" /\ netcall'[p].addr = a
    BY <1>1, <1>5 DEF MailInv
  <2>3. Asking' = [Asking EXCEPT ![p] = a]
    BY <1>1, <2>2, AskingChanges
  <2> QED  BY <1>2, <1>3, <1>5, <2>1, <2>3 DEF NB!Ask, Asking
<1> QED  BY <1>2, <1>4, <1>5

\* Its end is an answer, or giving up; a retry is no step of Neighbours.
LEMMA NbResolveEnd ==
  ASSUME ResolveInv, NEW p \in NetProc, ArpResolveEnd(p)
  PROVE  NB!Told(p) \/ NB!GiveUp(p) \/ UNCHANGED nbmapped
<1>1. MailInv /\ ArpInv
  BY DEF ResolveInv
<1> DEFINE s == netcall[p].slot
           a == netcall[p].addr
<1>2. /\ netcall[p].at = "arp" /\ UNCHANGED <<heard, killed>>
      /\ \/ UNCHANGED <<arpcache, arpret>> /\ netcall' = [netcall EXCEPT ![p].sent = @ + 1]
         \/ UNCHANGED arpret /\ netcall' = [netcall EXCEPT ![p] = NetIdle]
         \/ /\ Recvd(p) # "TIMEOUT" /\ netcall' = [netcall EXCEPT ![p] = NetIdle]
            /\ arpret' = [arpret EXCEPT ![p] = <<a, arpcache[s].arhaddr>>]
  BY DEF ArpResolveEnd
<1>3. /\ s \in Slot /\ a \in IPAddr /\ arpcache[s].arpaddr = a /\ p \notin killed
      /\ Recvd(p) # "TIMEOUT" => arpcache[s].arstate = "AR_RESOLVED"
      /\ netcall[p] \in [at : {"arp"}, slot : Slot, addr : IPAddr, sent : Nat]
  BY <1>1, <1>2, ArpWaits
<1>4. Asking[p] = a /\ Asking[p] # None
  BY <1>2, <1>3, ArpAssumption DEF Asking
<1>5. ASSUME UNCHANGED <<arpcache, arpret>>, netcall' = [netcall EXCEPT ![p].sent = @ + 1]
      PROVE  UNCHANGED nbmapped
  <2>1. /\ \A q \in NetProc \ {p} : netcall'[q] = netcall[q]
        /\ netcall'[p].at = "arp" /\ netcall'[p].addr = a
    BY <1>1, <1>3, <1>5 DEF MailInv
  <2>2. Asking' = [Asking EXCEPT ![p] = a]
    BY <1>1, <2>1, AskingChanges
  <2>3. Asking' = Asking
    BY <2>2, <1>4 DEF Asking
  <2> QED  BY <1>2, <1>5, <2>3 DEF nbmapped
<1>6. ASSUME netcall' = [netcall EXCEPT ![p] = NetIdle]
      PROVE  Asking' = [Asking EXCEPT ![p] = None]
  <2>1. (\A q \in NetProc \ {p} : netcall'[q] = netcall[q]) /\ netcall'[p].at # "arp"
    BY <1>1, <1>6, CallKinds DEF MailInv
  <2> QED  BY <1>1, <2>1, AskingChanges
<1>7. ASSUME UNCHANGED arpret, netcall' = [netcall EXCEPT ![p] = NetIdle]
      PROVE  NB!GiveUp(p)
  <2>1. Asking' = [Asking EXCEPT ![p] = None]
    BY <1>6, <1>7
  <2> QED  BY <1>2, <1>4, <1>7, <2>1 DEF NB!GiveUp, Asking
<1>8. ASSUME Recvd(p) # "TIMEOUT", netcall' = [netcall EXCEPT ![p] = NetIdle],
             arpret' = [arpret EXCEPT ![p] = <<a, arpcache[s].arhaddr>>]
      PROVE  NB!Told(p)
  <2>1. Asking' = [Asking EXCEPT ![p] = None]
    BY <1>6, <1>8
  <2>2. arpcache[s].arhaddr = heard[a] /\ arpcache[s].arhaddr # None
    BY <1>1, <1>3, <1>8 DEF ArpInv, ArpCacheSound, CacheIsCurrent, In
  <2>3. heard[a] # None /\ arpret' = [arpret EXCEPT ![p] = <<a, heard[a]>>]
    BY <1>8, <2>2
  <2>4. heard[Asking[p]] # None /\ arpret' = [arpret EXCEPT ![p] = <<Asking[p], heard[Asking[p]]>>]
    BY <1>4, <2>3
  <2> HIDE DEF a, s
  <2> QED  BY <1>2, <1>4, <2>1, <2>4 DEF NB!Told, NB!Tell, Asking
<1> HIDE DEF a, s
<1> QED  BY <1>2, <1>5, <1>7, <1>8

\* Every step of the protocols is a step of Neighbours or none.
LEMMA NbStep ==
  ASSUME ResolveInv, [NetNext]_netvars
  PROVE  NbSteps \/ UNCHANGED nbmapped
<1>1. MailInv /\ ArpInv /\ UdpNamed /\ IcmpNamed
  BY DEF ResolveInv
<1>2. Keeps("arp") /\ UNCHANGED arpvars => UNCHANGED nbmapped
  BY <1>1, AskingChanges DEF arpvars, nbmapped
<1>3. CASE ArpNext /\ UNCHANGED <<udptab, icmptab>>
  <2>1. ASSUME NEW a \in IPAddr, NEW h \in HwAddr, NEW request \in BOOLEAN, ArpIn(a, h, request)
        PROVE  NB!Give
    <3>1. heard' = [heard EXCEPT ![a] = h] /\ UNCHANGED <<netcall, arpret>>
      BY <2>1 DEF ArpIn
    <3>2. Asking' = Asking
      BY <3>1 DEF Asking
    <3> QED  BY <3>1, <3>2 DEF NB!Give, Asking
  <2> QED  BY <1>3, <2>1, NbResolve, NbResolveEnd DEF ArpNext, NbSteps
<1>4. CASE UdpNext /\ UNCHANGED <<arpvars, icmptab>>
  BY <1>1, <1>2, <1>4, UdpStepNamed
<1>5. CASE IcmpNext /\ UNCHANGED <<arpvars, udptab>>
  BY <1>1, <1>2, <1>5, IcmpStepNamed
<1>6. ASSUME NEW p \in NetProc, Stray(p) \/ KillNet(p), UNCHANGED <<arpvars, udptab, icmptab>>
      PROVE  NbSteps \/ UNCHANGED nbmapped
  <2>1. CASE Stray(p)
    <3>1. Asking' = Asking
      BY <2>1 DEF Stray, Asking
    <3> QED  BY <1>6, <3>1 DEF nbmapped, arpvars
  <2>2. CASE KillNet(p)
    <3>1. netcall' = [netcall EXCEPT ![p] = NetIdle]
      BY <2>2 DEF KillNet
    <3>2. (\A q \in NetProc \ {p} : netcall'[q] = netcall[q]) /\ netcall'[p].at # "arp"
      BY <1>1, <3>1, CallKinds DEF MailInv
    <3>3. Asking' = [Asking EXCEPT ![p] = None]
      BY <1>1, <3>2, AskingChanges
    <3>4. CASE Asking[p] = None
      BY <1>6, <3>3, <3>4 DEF nbmapped, arpvars, Asking
    <3>5. CASE Asking[p] # None
      <4>1. NB!GiveUp(p)
        BY <1>6, <3>3, <3>5 DEF NB!GiveUp, Asking, arpvars
      <4> QED  BY <4>1 DEF NbSteps
    <3> QED  BY <3>4, <3>5
  <2> QED  BY <1>6, <2>1, <2>2
<1>7. CASE UNCHANGED netvars
  BY <1>7 DEF netvars, nbmapped, mailvars, arpvars, Asking
<1> QED  BY <1>3, <1>4, <1>5, <1>6, <1>7 DEF NetNext

\* The protocols together keep the promise of Neighbours: one process at a time
\* asks for an address, and an answer is what the station has given last.
THEOREM NetImplementsNeighbours ==
  ASSUME {"stray", "reuse", "evict"} \cap NetCareless = {}
  PROVE  NetSpec => NeighboursRefined
<1>1. NetInit => ResolveInv
  BY ResolveInit
<1>2. ResolveInv /\ [NetNext]_netvars => ResolveInv'
  BY ResolveNext
<1>3. NetInit => NB!NbInit
  BY CallKinds DEF NetInit, MailboxInit, ArpInit, NB!NbInit, NetIdle
<1>4. ResolveInv /\ [NetNext]_netvars => [NB!NbNext]_(NB!nbvars)
  BY NbStep DEF NbSteps, NB!NbNext, NB!nbvars, nbmapped, Asking
<1> QED  BY <1>1, <1>2, <1>3, <1>4, PTL DEF NetSpec, NeighboursRefined, NB!NbSpec
-----------------------------------------------------------------------------
\* UDP: every receiver is served.

\* What can happen to the mailbox while the table stays as it is.
Disturbs(k) ==
    /\ killed \subseteq killed'
    /\ \A q \in NetProc : netcall'[q].at = k =>
          netcall'[q] = netcall[q] /\ (prmsg'[q] = prmsg[q] \/ (prmsg[q] = "none" /\ prmsg'[q] = "other"))
    /\ \A q \in NetProc : netcall[q].at = k => netcall'[q] = netcall[q] \/ q \in killed'

\* What others do disturbs a protocol no more than by a message it did not
\* wait for.
LEMMA DisturbsWhen ==
  ASSUME MailInv
  PROVE  /\ \A k : Keeps(k) => Disturbs(k)
         /\ "reuse" \notin NetCareless => \A p \in NetProc, k \in {"arp", "udp", "icmp"} :
                                             Stray(p) \/ KillNet(p) => Disturbs(k)
<1>1. ASSUME NEW k, Keeps(k)  PROVE Disturbs(k)
  BY <1>1 DEF Keeps, Disturbs
<1>2. ASSUME NEW p \in NetProc, NEW k \in {"arp", "udp", "icmp"}, Stray(p)  PROVE Disturbs(k)
  BY <1>2 DEF Stray, Disturbs, MailInv
<1>3. ASSUME "reuse" \notin NetCareless, NEW p \in NetProc, NEW k \in {"arp", "udp", "icmp"}, KillNet(p)
      PROVE  Disturbs(k)
  <2>1. /\ netcall' = [netcall EXCEPT ![p] = NetIdle] /\ prmsg' = [prmsg EXCEPT ![p] = "none"]
        /\ killed' = killed \cup {p}
    BY <1>3 DEF KillNet
  <2> QED  BY <2>1, CallKinds DEF Disturbs, MailInv
<1> QED  BY <1>1, <1>2, <1>3

\* Such a disturbance keeps the invariant of UDP.
LEMMA UdpFrame ==
  ASSUME MailInv, UdpNamed, UdpInv, Disturbs("udp"), UNCHANGED udptab
  PROVE  UdpInv'
<1>1. \A q \in NetProc : netcall'[q].at = "udp" =>
          netcall'[q] = netcall[q] /\ (prmsg'[q] = prmsg[q] \/ (prmsg[q] = "none" /\ prmsg'[q] = "other"))
  BY DEF Disturbs
<1>2. \A s \in UdpSlot : udptab'[s].udstate = "UDP_RECV" =>
          udptab'[s].udpid \in killed' \/ InUdp(udptab[s].udpid, s)'
  BY DEF UdpNamed, Disturbs, InUdp
<1>3. EndpointsDistinct'
  BY DEF UdpInv, ReceiversServed, EndpointsDistinct, UsedSlots
<1>4. ReceiverFindsPacket'
  BY <1>1 DEF UdpInv, ReceiversServed, ReceiverFindsPacket
<1>5. RecvHasReceiver'
  BY <1>1, <1>2 DEF UdpInv, ReceiversServed, RecvHasReceiver
<1> QED  BY <1>1, <1>3, <1>4, <1>5 DEF UdpInv, ReceiversServed

\* A step at slot s of the table, which leaves it a good entry and whoever
\* waits there served.
UdpGood(s) ==
    /\ udptab'[s].udqueue \in Seq(Remote) /\ udptab'[s].udcount = Len(udptab'[s].udqueue)
    /\ udptab'[s].udcount <= UDP_QSIZ
    /\ udptab'[s].udstate = "UDP_RECV" => udptab'[s].udcount = 0
    /\ \A q \in NetProc : netcall'[q].at = "udp" =>
          \/ netcall'[q].slot # s /\ netcall'[q] = netcall[q] /\ prmsg'[q] = prmsg[q]
          \/ /\ netcall'[q].slot = s
             /\ prmsg'[q] = "OK" => udptab'[s].udcount > 0
             /\ \/ udptab'[s].udstate = "UDP_RECV" /\ udptab'[s].udpid = q /\ prmsg'[q] # "OK"
                \/ udptab'[s].udstate = "UDP_USED" /\ prmsg'[q] # "none"
    /\ \A q, r \in NetProc : netcall'[q].at = "udp" /\ netcall'[q].slot = s /\ netcall'[r] = netcall'[q]
                                => q = r

\* A step on one slot that leaves it in order does as well.
LEMMA UdpAtServed ==
  ASSUME MailInv, MailInv', UdpNamed, UdpInv, NEW s \in UdpSlot, UdpAt(s), UdpGood(s), EndpointsDistinct'
  PROVE  UdpInv'
<1>1. UdpNamed'
  BY UdpAtNamed
<1>2. \A t \in UdpSlot \ {s} : udptab'[t] = udptab[t]
  BY DEF UdpAt
<1>3. \A q \in NetProc : netcall'[q].at = "udp" => netcall'[q].slot \in UdpSlot
  BY CallKinds DEF MailInv
<1>4. \A q \in NetProc : netcall'[q].at = "udp" =>
          LET e == udptab'[netcall'[q].slot]
          IN  /\ \/ e.udstate = "UDP_RECV" /\ e.udpid = q /\ prmsg'[q] # "OK"
                 \/ e.udstate = "UDP_USED" /\ prmsg'[q] # "none"
              /\ prmsg'[q] = "OK" => e.udcount > 0
  BY <1>2, <1>3 DEF UdpGood, UdpInv, ReceiversServed, ReceiverFindsPacket
<1>5. \A t \in UdpSlot : /\ udptab'[t].udqueue \in Seq(Remote) /\ udptab'[t].udcount = Len(udptab'[t].udqueue)
                         /\ udptab'[t].udcount <= UDP_QSIZ
                         /\ udptab'[t].udstate = "UDP_RECV" => udptab'[t].udcount = 0
  BY <1>2 DEF UdpGood, UdpInv, ReceiversServed, ReceiverFindsPacket
<1>6. ReceiverFindsPacket'
  BY <1>4, <1>5 DEF ReceiverFindsPacket
<1>7. RecvHasReceiver'
  <2>1. \A t \in UdpSlot : udptab'[t].udstate = "UDP_RECV" =>
            udptab'[t].udpid \in killed' \/ InUdp(udptab[t].udpid, t)'
    BY <1>1 DEF UdpNamed, InUdp
  <2> QED  BY <1>3, <1>4, <1>5, <2>1 DEF RecvHasReceiver
<1>8. \A q, r \in NetProc : netcall'[q].at = "udp" /\ netcall'[r] = netcall'[q] => q = r
  <2>1. \A q, r \in NetProc : netcall'[q].at = "udp" /\ netcall'[q].slot # s /\ netcall'[r] = netcall'[q]
                                => q = r
    BY DEF UdpGood, UdpInv
  <2> QED  BY <2>1 DEF UdpGood
<1> QED  BY <1>4, <1>5, <1>6, <1>7, <1>8, UdpAssumption DEF UdpInv, ReceiversServed

\* What a slot is.
LEMMA UdpEntry ==
  ASSUME UdpNamed, UdpInv, NEW s \in UdpSlot
  PROVE  /\ DOMAIN udptab[s] = {"udstate", "udlocport", "udremote", "udqueue", "udcount", "udpid"}
         /\ udptab[s].udstate \in {"UDP_FREE", "UDP_USED", "UDP_RECV"}
         /\ udptab[s].udqueue \in Seq(Remote) /\ udptab[s].udcount = Len(udptab[s].udqueue)
         /\ udptab[s].udcount \in Nat /\ udptab[s].udcount <= UDP_QSIZ
         /\ udptab[s].udstate = "UDP_RECV" => udptab[s].udcount = 0
BY DEF UdpNamed, UdpInv, ReceiversServed, ReceiverFindsPacket

\* What a process that waits at a slot knows of it.
LEMMA UdpWaiters ==
  ASSUME MailInv, UdpInv
  PROVE  \A q \in NetProc : netcall[q].at = "udp" =>
            /\ netcall[q].slot \in UdpSlot /\ q \notin killed
            /\ \/ /\ udptab[netcall[q].slot].udstate = "UDP_RECV" /\ udptab[netcall[q].slot].udpid = q
                  /\ prmsg[q] # "OK"
               \/ udptab[netcall[q].slot].udstate = "UDP_USED" /\ prmsg[q] # "none"
            /\ prmsg[q] = "OK" => udptab[netcall[q].slot].udcount > 0
            /\ \A r \in NetProc : InUdp(r, netcall[q].slot) => r = q
<1> SUFFICES ASSUME NEW q \in NetProc, netcall[q].at = "udp"
             PROVE  /\ netcall[q].slot \in UdpSlot /\ q \notin killed
                    /\ \/ /\ udptab[netcall[q].slot].udstate = "UDP_RECV" /\ udptab[netcall[q].slot].udpid = q
                          /\ prmsg[q] # "OK"
                       \/ udptab[netcall[q].slot].udstate = "UDP_USED" /\ prmsg[q] # "none"
                    /\ prmsg[q] = "OK" => udptab[netcall[q].slot].udcount > 0
                    /\ \A r \in NetProc : InUdp(r, netcall[q].slot) => r = q
  OBVIOUS
<1>1. netcall[q].slot \in UdpSlot /\ q \notin killed /\ netcall[q] = [at |-> "udp", slot |-> netcall[q].slot]
  BY CallKinds DEF MailInv
<1>2. \A r \in NetProc : InUdp(r, netcall[q].slot) => netcall[r] = netcall[q]
  <2>1. \A r \in NetProc : netcall[r].at = "udp" => netcall[r] = [at |-> "udp", slot |-> netcall[r].slot]
    BY CallKinds DEF MailInv
  <2> QED  BY <1>1, <2>1 DEF InUdp
<1>3. \A r \in NetProc : netcall[r] = netcall[q] => q = r
  BY DEF UdpInv
<1>4. \/ /\ udptab[netcall[q].slot].udstate = "UDP_RECV" /\ udptab[netcall[q].slot].udpid = q
         /\ prmsg[q] # "OK"
      \/ udptab[netcall[q].slot].udstate = "UDP_USED" /\ prmsg[q] # "none"
  BY DEF UdpInv
<1>5. prmsg[q] = "OK" => udptab[netcall[q].slot].udcount > 0
  BY DEF UdpInv, ReceiversServed, ReceiverFindsPacket
<1> QED  BY <1>1, <1>2, <1>3, <1>4, <1>5

\* udp_register: no other slot has the endpoint.
LEMMA UdpRegisterServed ==
  ASSUME MailInv, UdpNamed, UdpInv, NEW loc, NEW rem, UdpRegister(loc, rem)
  PROVE  UdpInv'
<1>1. PICK s \in UdpSlot : s = Min(FreeSlots) /\ s \in FreeSlots
  BY UdpMin DEF UdpRegister, FreeSlots
<1>2. udptab' = [udptab EXCEPT ![s] =
                     [udstate |-> "UDP_USED", udlocport |-> loc, udremote |-> rem,
                      udqueue |-> <<>>, udcount |-> 0, udpid |-> NoOne]] /\ UNCHANGED mailvars
      /\ ~Registered(loc, rem)
  BY <1>1 DEF UdpRegister
<1>3. UdpAt(s)
  BY <1>2 DEF UdpNamed, UdpAt, mailvars, InUdp
<1>4. UNCHANGED <<netcall, prmsg>> /\ udptab[s].udstate = "UDP_FREE"
  BY <1>1, <1>2 DEF mailvars, FreeSlots, UsedSlots
<1>5. udptab'[s].udqueue = <<>> /\ udptab'[s].udcount = 0 /\ udptab'[s].udstate = "UDP_USED"
      /\ udptab'[s].udlocport = loc /\ udptab'[s].udremote = rem
  BY <1>2 DEF UdpNamed
<1>6. \A q \in NetProc : netcall[q].at = "udp" => netcall[q].slot # s
  BY <1>4, UdpWaiters
<1>7. UdpGood(s)
  BY <1>4, <1>5, <1>6, UdpAssumption DEF UdpGood
<1>8. EndpointsDistinct'
  BY <1>2, <1>3, <1>5 DEF UdpAt, UdpInv, ReceiversServed, EndpointsDistinct, UsedSlots, Registered
<1>9. MailInv'
  BY <1>2 DEF mailvars, MailInv
<1> QED  BY <1>3, <1>7, <1>8, <1>9, UdpAtServed

\* Every other step leaves the endpoints where they are.
LEMMA UdpSameEnds ==
  ASSUME UdpNamed, UdpInv, NEW s \in UdpSlot, UdpAt(s), udptab[s].udstate # "UDP_FREE" \/ udptab'[s].udstate = "UDP_FREE",
         udptab'[s].udlocport = udptab[s].udlocport, udptab'[s].udremote = udptab[s].udremote
  PROVE  EndpointsDistinct'
<1>1. \A t \in UdpSlot : /\ udptab'[t].udlocport = udptab[t].udlocport
                         /\ udptab'[t].udremote = udptab[t].udremote
                         /\ udptab'[t].udstate # "UDP_FREE" => udptab[t].udstate # "UDP_FREE"
  BY DEF UdpAt
<1> QED  BY <1>1 DEF UdpInv, ReceiversServed, EndpointsDistinct, UsedSlots

\* udp_in: the packet goes into the queue, and who waits is told.
LEMMA UdpInServed ==
  ASSUME MailInv, UdpNamed, UdpInv, NEW loc, NEW rem \in Remote, UdpIn(loc, rem)
  PROVE  UdpInv'
<1>1. PICK s \in UdpSlot : /\ s = Min({t \in Matching(loc, rem) : udptab[t].udcount < UDP_QSIZ})
                           /\ udptab[s].udstate # "UDP_FREE" /\ udptab[s].udcount < UDP_QSIZ
  <2>1. {t \in Matching(loc, rem) : udptab[t].udcount < UDP_QSIZ} \in SUBSET UdpSlot
    BY DEF Matching, UsedSlots
  <2>2. {t \in Matching(loc, rem) : udptab[t].udcount < UDP_QSIZ} # {}
    BY DEF UdpIn
  <2>3. PICK s : s = Min({t \in Matching(loc, rem) : udptab[t].udcount < UDP_QSIZ})
    OBVIOUS
  <2>4. s \in {t \in Matching(loc, rem) : udptab[t].udcount < UDP_QSIZ}
    BY <2>1, <2>2, <2>3, UdpMin
  <2> QED  BY <2>3, <2>4 DEF Matching, UsedSlots
<1>2. /\ udptab' = [udptab EXCEPT ![s] = Queued(@, rem)] /\ UNCHANGED <<netcall, killed>>
      /\ prmsg' = IF udptab[s].udstate = "UDP_RECV" THEN Informed(udptab[s].udpid) ELSE prmsg
  BY <1>1 DEF UdpIn
<1>3. UdpAt(s)
  BY <1>2 DEF UdpNamed, UdpAt, InUdp, Queued
<1>4. /\ udptab'[s].udqueue = Append(udptab[s].udqueue, rem) /\ udptab'[s].udcount = udptab[s].udcount + 1
      /\ udptab'[s].udstate = "UDP_USED"
      /\ udptab'[s].udlocport = udptab[s].udlocport /\ udptab'[s].udremote = udptab[s].udremote
  BY <1>2 DEF UdpNamed, Queued
<1>5. /\ udptab'[s].udqueue \in Seq(Remote) /\ udptab'[s].udcount = Len(udptab'[s].udqueue)
      /\ udptab'[s].udcount <= UDP_QSIZ /\ udptab'[s].udcount > 0
  <2>1. /\ udptab[s].udqueue \in Seq(Remote) /\ udptab[s].udcount = Len(udptab[s].udqueue)
        /\ udptab[s].udcount \in Nat /\ udptab[s].udcount < UDP_QSIZ /\ UDP_QSIZ \in Nat
    BY <1>1, UdpEntry, UdpAssumption
  <2>2. PICK u \in Seq(Remote) : u = udptab[s].udqueue
    BY <2>1
  <2>3. Append(u, rem) \in Seq(Remote) /\ Len(Append(u, rem)) = Len(u) + 1
    OBVIOUS
  <2> QED  BY <1>4, <2>1, <2>2, <2>3
<1>6. \A q \in NetProc : netcall[q].at = "udp" =>
          /\ netcall[q].slot # s => prmsg'[q] = prmsg[q]
          /\ netcall[q].slot = s => prmsg'[q] # "none"
  <2>1. SUFFICES ASSUME NEW q \in NetProc, netcall[q].at = "udp"
                 PROVE  /\ netcall[q].slot # s => prmsg'[q] = prmsg[q]
                        /\ netcall[q].slot = s => prmsg'[q] # "none"
    OBVIOUS
  <2>2. /\ q \notin killed /\ prmsg \in [NetProc -> {"none", "OK", "other"}]
        /\ \/ udptab[netcall[q].slot].udstate = "UDP_RECV" /\ udptab[netcall[q].slot].udpid = q
           \/ udptab[netcall[q].slot].udstate = "UDP_USED" /\ prmsg[q] # "none"
    BY <2>1, UdpWaiters DEF MailInv
  <2>3. udptab[s].udstate = "UDP_RECV" =>
           udptab[s].udpid \in NetProc /\ (udptab[s].udpid \in killed \/ InUdp(udptab[s].udpid, s))
    BY DEF UdpNamed
  <2>4. CASE netcall[q].slot = s
    BY <1>2, <2>2, <2>4 DEF Informed
  <2>5. CASE netcall[q].slot # s
    BY <1>2, <2>1, <2>2, <2>3, <2>5 DEF Informed, InUdp
  <2> QED  BY <2>4, <2>5
<1>7. UdpGood(s)
  <2>1. \A q, r \in NetProc : netcall[q].at = "udp" /\ netcall[r] = netcall[q] => q = r
    BY DEF UdpInv
  <2> QED  BY <1>2, <1>4, <1>5, <1>6, <2>1 DEF UdpGood
<1>8. EndpointsDistinct'
  BY <1>1, <1>3, <1>4, UdpSameEnds
<1>9. MailInv'
  <2>1. PICK k, q : k = "udp" /\ q = udptab[s].udpid  OBVIOUS
  <2>2. Tells(q, k)
    BY <1>2, <2>1 DEF UdpNamed, Tells, InUdp
  <2> QED  BY <2>2, TellsKeep
<1> QED  BY <1>3, <1>7, <1>8, <1>9, UdpAtServed

\* udp_recv: a packet at once, or a wait at a slot without one.
LEMMA UdpRecvServed ==
  ASSUME "shared" \notin NetCareless, MailInv, UdpNamed, UdpInv,
         NEW p \in NetProc, NEW s \in UdpSlot, UdpRecv(p, s)
  PROVE  UdpInv'
<1>1. /\ p \notin killed /\ netcall[p] = NetIdle /\ netcall[p].at = "none" /\ UNCHANGED killed
      /\ DOMAIN netcall = NetProc /\ prmsg \in [NetProc -> {"none", "OK", "other"}]
      /\ udptab[s].udstate = "UDP_USED" /\ \A q \in NetProc : ~InUdp(q, s)
      /\ \/ /\ udptab[s].udcount = 0
            /\ udptab'  = [udptab EXCEPT ![s].udstate = "UDP_RECV", ![s].udpid = p]
            /\ netcall' = [netcall EXCEPT ![p] = [at |-> "udp", slot |-> s]]
            /\ prmsg'   = [prmsg EXCEPT ![p] = "none"]
         \/ /\ udptab[s].udcount # 0
            /\ udptab' = [udptab EXCEPT ![s] = Dequeued(@)]
            /\ UNCHANGED <<netcall, prmsg>>
  BY CallKinds DEF UdpRecv, NetFree, MailInv
<1>2. UdpNamed' /\ MailInv'
  <2>1. PICK k : k = "udp"  OBVIOUS
  <2> QED  BY <2>1, UdpRecvNamed, MovesKeep DEF mailvars, MailInv
<1>3. \A q \in NetProc : netcall[q].at = "udp" => netcall[q].slot # s
  BY <1>1 DEF InUdp
<1>4. CASE /\ udptab[s].udcount = 0
           /\ udptab'  = [udptab EXCEPT ![s].udstate = "UDP_RECV", ![s].udpid = p]
           /\ netcall' = [netcall EXCEPT ![p] = [at |-> "udp", slot |-> s]]
           /\ prmsg'   = [prmsg EXCEPT ![p] = "none"]
  <2>1. UdpAt(s)
    BY <1>1, <1>4 DEF UdpNamed, UdpAt, InUdp
  <2>2. /\ udptab'[s].udstate = "UDP_RECV" /\ udptab'[s].udpid = p
        /\ udptab'[s].udlocport = udptab[s].udlocport /\ udptab'[s].udremote = udptab[s].udremote
        /\ udptab'[s].udqueue = udptab[s].udqueue /\ udptab'[s].udcount = udptab[s].udcount
    BY <1>4 DEF UdpNamed
  <2>3. /\ prmsg'[p] = "none" /\ netcall'[p].slot = s
        /\ \A q \in NetProc \ {p} : netcall'[q] = netcall[q] /\ prmsg'[q] = prmsg[q]
    BY <1>1, <1>4
  <2>4. UdpGood(s)
    <3>1. \A q \in NetProc : netcall'[q].at = "udp" /\ netcall'[q].slot = s => q = p
      BY <1>3, <2>3
    <3>2. /\ udptab'[s].udqueue \in Seq(Remote) /\ udptab'[s].udcount = Len(udptab'[s].udqueue)
          /\ udptab'[s].udcount <= UDP_QSIZ /\ udptab'[s].udcount = 0
      BY <1>4, <2>2, UdpEntry
    <3> QED  BY <2>2, <2>3, <3>1, <3>2 DEF UdpGood
  <2>5. EndpointsDistinct'
    BY <1>1, <2>1, <2>2, UdpSameEnds
  <2> QED  BY <1>2, <2>1, <2>4, <2>5, UdpAtServed
<1>5. CASE /\ udptab[s].udcount # 0
           /\ udptab' = [udptab EXCEPT ![s] = Dequeued(@)]
           /\ UNCHANGED <<netcall, prmsg>>
  <2>1. UdpAt(s)
    BY <1>1, <1>5 DEF UdpNamed, UdpAt, InUdp, Dequeued
  <2>2. /\ udptab[s].udqueue \in Seq(Remote) /\ udptab[s].udqueue # <<>>
        /\ udptab[s].udcount = Len(udptab[s].udqueue) /\ udptab[s].udcount <= UDP_QSIZ
    BY <1>5, UdpEntry
  <2>3. /\ udptab'[s].udstate = "UDP_USED"
        /\ udptab'[s].udlocport = udptab[s].udlocport /\ udptab'[s].udremote = udptab[s].udremote
        /\ udptab'[s].udqueue = Tail(udptab[s].udqueue) /\ udptab'[s].udcount = udptab[s].udcount - 1
    BY <1>5, <2>2 DEF UdpNamed, Dequeued
  <2>4. /\ udptab'[s].udqueue \in Seq(Remote) /\ udptab'[s].udcount = Len(udptab'[s].udqueue)
        /\ udptab'[s].udcount <= UDP_QSIZ
    BY <2>2, <2>3, UdpAssumption
  <2>5. UdpGood(s)
    BY <1>1, <1>3, <1>5, <2>3, <2>4 DEF UdpGood
  <2>6. EndpointsDistinct'
    BY <1>1, <2>1, <2>3, UdpSameEnds
  <2> QED  BY <1>2, <2>1, <2>5, <2>6, UdpAtServed
<1> QED  BY <1>1, <1>4, <1>5

\* The end of a wait: there is a packet for who was told of one.
LEMMA UdpRecvEndServed ==
  ASSUME MailInv, UdpNamed, UdpInv, NEW p \in NetProc, UdpRecvEnd(p)
  PROVE  UdpInv'
<1>1. /\ netcall[p].at = "udp" /\ netcall' = [netcall EXCEPT ![p] = NetIdle]
      /\ prmsg' = [prmsg EXCEPT ![p] = "none"] /\ UNCHANGED killed
      /\ udptab' = [udptab EXCEPT ![netcall[p].slot] = IF Recvd(p) = "OK" THEN Dequeued(@)
                                                       ELSE [@ EXCEPT !.udstate = "UDP_USED"]]
  BY DEF UdpRecvEnd
<1>2. /\ p \notin killed /\ netcall[p].slot \in UdpSlot /\ DOMAIN netcall = NetProc
      /\ prmsg \in [NetProc -> {"none", "OK", "other"}]
      /\ Recvd(p) = "OK" => prmsg[p] = "OK"
      /\ \A r \in NetProc : InUdp(r, netcall[p].slot) => r = p
      /\ udptab[netcall[p].slot].udstate # "UDP_FREE"
      /\ prmsg[p] = "OK" => udptab[netcall[p].slot].udcount > 0
  BY <1>1, UdpWaiters DEF MailInv, Recvd
<1>3. PICK s \in UdpSlot : s = netcall[p].slot
  BY <1>2
<1>4. udptab' = [udptab EXCEPT ![s] = IF Recvd(p) = "OK" THEN Dequeued(@)
                                      ELSE [@ EXCEPT !.udstate = "UDP_USED"]]
  BY <1>1, <1>3
<1>5. UdpAt(s)
  BY <1>1, <1>2, <1>3, <1>4 DEF UdpNamed, UdpAt, InUdp, Dequeued
<1>6. UdpNamed' /\ MailInv'
  <2>1. PICK k : k = "udp"  OBVIOUS
  <2> QED  BY <2>1, UdpRecvEndNamed, MovesKeep
<1>7. /\ udptab[s].udqueue \in Seq(Remote) /\ udptab[s].udcount = Len(udptab[s].udqueue)
      /\ udptab[s].udcount <= UDP_QSIZ /\ udptab[s].udcount \in Nat
  BY UdpEntry
<1>8. /\ udptab'[s].udstate = "UDP_USED"
      /\ udptab'[s].udlocport = udptab[s].udlocport /\ udptab'[s].udremote = udptab[s].udremote
      /\ udptab'[s].udqueue \in Seq(Remote) /\ udptab'[s].udcount = Len(udptab'[s].udqueue)
      /\ udptab'[s].udcount <= UDP_QSIZ
  <2>1. CASE Recvd(p) = "OK"
    <3>0. Len(udptab[s].udqueue) > 0
      <4>1. udptab[s].udcount > 0
        BY <1>2, <1>3, <2>1
      <4> QED  BY <4>1, <1>7
    <3>1. udptab[s].udqueue # <<>>
      BY <1>7, <3>0
    <3>2. /\ udptab'[s].udstate = "UDP_USED"
          /\ udptab'[s].udlocport = udptab[s].udlocport /\ udptab'[s].udremote = udptab[s].udremote
          /\ udptab'[s].udqueue = Tail(udptab[s].udqueue) /\ udptab'[s].udcount = udptab[s].udcount - 1
      BY <1>4, <2>1, <3>1 DEF UdpNamed, Dequeued
    <3> QED  BY <1>7, <3>1, <3>2, UdpAssumption
  <2>2. CASE Recvd(p) # "OK"
    BY <1>4, <1>7, <2>2 DEF UdpNamed
  <2> QED  BY <2>1, <2>2
<1>9. UdpGood(s)
  <2>1. \A q \in NetProc : netcall'[q].at = "udp" =>
            netcall'[q] = netcall[q] /\ prmsg'[q] = prmsg[q] /\ netcall[q].slot # s
    BY <1>1, <1>2, <1>3, CallKinds DEF InUdp
  <2> QED  BY <1>8, <2>1 DEF UdpGood
<1>10. EndpointsDistinct'
  BY <1>2, <1>3, <1>5, <1>8, UdpSameEnds
<1> QED  BY <1>5, <1>6, <1>9, <1>10, UdpAtServed

\* udp_release: nobody waits at the slot.
LEMMA UdpReleaseServed ==
  ASSUME "release" \notin NetCareless, MailInv, UdpNamed, UdpInv, NEW s \in UdpSlot, UdpRelease(s)
  PROVE  UdpInv'
<1>1. /\ udptab' = [udptab EXCEPT ![s].udstate = "UDP_FREE", ![s].udqueue = <<>>,
                                  ![s].udcount = IF @ > 0 THEN 0 ELSE @]
      /\ UNCHANGED mailvars /\ UNCHANGED <<netcall, prmsg>> /\ \A q \in NetProc : ~InUdp(q, s)
  BY DEF UdpRelease, mailvars
<1>2. UdpAt(s)
  BY <1>1 DEF UdpNamed, UdpAt, InUdp, mailvars
<1>3. /\ udptab'[s].udqueue = <<>> /\ udptab'[s].udcount = 0 /\ udptab'[s].udstate = "UDP_FREE"
      /\ udptab'[s].udlocport = udptab[s].udlocport /\ udptab'[s].udremote = udptab[s].udremote
  <2>1. udptab[s].udcount \in Nat
    BY UdpEntry
  <2> QED  BY <1>1, <2>1 DEF UdpNamed
<1>4. UdpGood(s)
  <2>1. \A q \in NetProc : netcall'[q].at = "udp" =>
            netcall'[q] = netcall[q] /\ prmsg'[q] = prmsg[q] /\ netcall'[q].slot # s
    BY <1>1 DEF InUdp
  <2> QED  BY <1>3, <2>1, UdpAssumption DEF UdpGood
<1>5. EndpointsDistinct'
  BY <1>2, <1>3, UdpSameEnds
<1>6. MailInv'
  BY <1>1 DEF mailvars, MailInv
<1> QED  BY <1>2, <1>4, <1>5, <1>6, UdpAtServed

\* Every step of UDP.
LEMMA UdpStepServed ==
  ASSUME {"shared", "release"} \cap NetCareless = {}, MailInv, UdpNamed, UdpInv, UdpNext
  PROVE  UdpInv'
<1>1. "shared" \notin NetCareless /\ "release" \notin NetCareless
  OBVIOUS
<1>2. CASE \E loc \in UdpPort, rem \in Remote \cup {AnyRemote} : UdpRegister(loc, rem)
  BY <1>2, UdpRegisterServed
<1>3. CASE \E loc \in UdpPort, rem \in Remote : UdpIn(loc, rem)
  BY <1>3, UdpInServed
<1>4. CASE \E s \in UdpSlot : UdpRelease(s)
  BY <1>1, <1>4, UdpReleaseServed
<1>5. CASE \E s \in UdpSlot, p \in NetProc : UdpRecv(p, s)
  BY <1>1, <1>5, UdpRecvServed
<1>6. CASE \E p \in NetProc : UdpRecvEnd(p)
  BY <1>6, UdpRecvEndServed
<1> QED  BY <1>2, <1>3, <1>4, <1>5, <1>6 DEF UdpNext
-----------------------------------------------------------------------------
\* Echo replies: every receiver is served, and the ring counts what it holds.

\* The remainder of what is smaller.
LEMMA ModSmall ==
  \A a \in Nat, b \in Nat \ {0} : a < b => a % b = a
OBVIOUS

\* An index that wraps is one that never wrapped, taken to the modulus.
LEMMA ModNext ==
  \A x \in Nat, q \in Nat \ {0} : ((x % q) + 1) % q = (x + 1) % q
<1> SUFFICES ASSUME NEW x \in Nat, NEW q \in Nat \ {0} PROVE ((x % q) + 1) % q = (x + 1) % q
  OBVIOUS
<1>1. PICK d \in Nat, r \in 0 .. q-1 : x = q * d + r
  <2>1. x \div q \in Nat /\ x % q \in 0 .. q-1
    OBVIOUS
  <2>2. x = (q * (x \div q)) + (x % q)
    OBVIOUS
  <2> QED  BY <2>1, <2>2
<1>2. x % q = r
  BY <1>1
<1>3. CASE r + 1 < q
  BY <1>1, <1>2, <1>3
<1>4. CASE r + 1 = q
  BY <1>1, <1>2, <1>4
<1> QED  BY <1>3, <1>4

\* A disturbance keeps the invariant of the echo replies.
LEMMA IcmpFrame ==
  ASSUME MailInv, IcmpNamed, IcmpInv, Disturbs("icmp"), UNCHANGED icmptab
  PROVE  IcmpInv'
<1>1. \A q \in NetProc : netcall'[q].at = "icmp" =>
          netcall'[q] = netcall[q] /\ (prmsg'[q] = prmsg[q] \/ (prmsg[q] = "none" /\ prmsg'[q] = "other"))
  BY DEF Disturbs
<1>2. \A s \in IcmpSlot : icmptab'[s].icstate = "ICMP_RECV" =>
          icmptab'[s].icpid \in killed' \/ InIcmp(icmptab[s].icpid, s)'
  BY DEF IcmpNamed, Disturbs, InIcmp
<1>3. EchoesServed'
  BY <1>1, <1>2 DEF IcmpInv, EchoesServed, IcmpUsed
<1> QED  BY <1>1, <1>3 DEF IcmpInv

\* A step at slot s which leaves it a good entry and whoever waits there served.
IcmpRing(e) ==
    /\ e.iccount \in Nat /\ e.ichead \in Nat /\ e.ictail \in Nat
    /\ e.icstate # "ICMP_FREE" => /\ e.iccount <= ICMP_QSIZ /\ e.ichead <= ICMP_QSIZ
                                  /\ (e.ichead + e.iccount) % ICMP_QSIZ = e.ictail
    /\ e.icstate = "ICMP_RECV" => e.iccount = 0

IcmpGood(s) ==
    /\ IcmpRing(icmptab'[s])
    /\ \A t \in IcmpSlot \ {s} : icmptab'[s].icstate # "ICMP_FREE" /\ icmptab[t].icstate # "ICMP_FREE"
                                    => icmptab[t].icremip # icmptab'[s].icremip
    /\ \A q \in NetProc : netcall'[q].at = "icmp" =>
          \/ netcall'[q].slot # s /\ netcall'[q] = netcall[q] /\ prmsg'[q] = prmsg[q]
          \/ /\ netcall'[q].slot = s /\ icmptab'[s].icpid = q
             /\ prmsg'[q] = "OK" => icmptab'[s].iccount > 0
             /\ \/ icmptab'[s].icstate = "ICMP_RECV" /\ prmsg'[q] # "OK"
                \/ icmptab'[s].icstate = "ICMP_USED" /\ prmsg'[q] # "none"

\* What a slot is.
LEMMA IcmpEntry ==
  ASSUME IcmpNamed, IcmpInv, NEW s \in IcmpSlot
  PROVE  /\ DOMAIN icmptab[s] = {"icstate", "icremip", "iccount", "ichead", "ictail", "icpid"}
         /\ icmptab[s].icstate \in {"ICMP_FREE", "ICMP_USED", "ICMP_RECV"}
         /\ IcmpRing(icmptab[s])
         /\ \A t \in IcmpSlot \ {s} : icmptab[s].icstate # "ICMP_FREE" /\ icmptab[t].icstate # "ICMP_FREE"
                                         => icmptab[t].icremip # icmptab[s].icremip
<1>1. s \in IcmpUsed => /\ icmptab[s].iccount \in 0 .. ICMP_QSIZ /\ icmptab[s].ichead <= ICMP_QSIZ
                        /\ (icmptab[s].ichead + icmptab[s].iccount) % ICMP_QSIZ = icmptab[s].ictail
                        /\ icmptab[s].icstate = "ICMP_RECV" => icmptab[s].iccount = 0
                        /\ \A t \in IcmpUsed \ {s} : icmptab[t].icremip # icmptab[s].icremip
  BY DEF IcmpInv, EchoesServed
<1>2. s \in IcmpUsed <=> icmptab[s].icstate # "ICMP_FREE"
  BY DEF IcmpUsed
<1>3. /\ DOMAIN icmptab[s] = {"icstate", "icremip", "iccount", "ichead", "ictail", "icpid"}
      /\ icmptab[s].icstate \in {"ICMP_FREE", "ICMP_USED", "ICMP_RECV"}
  BY DEF IcmpNamed
<1>4. IcmpRing(icmptab[s])
  BY <1>1, <1>2, <1>3, IcmpAssumption DEF IcmpInv, IcmpRing
<1>5. \A t \in IcmpSlot \ {s} : icmptab[s].icstate # "ICMP_FREE" /\ icmptab[t].icstate # "ICMP_FREE"
                                   => icmptab[t].icremip # icmptab[s].icremip
  BY <1>1, <1>2 DEF IcmpUsed
<1> QED  BY <1>3, <1>4, <1>5

\* What a process that waits at a slot knows of it.
LEMMA IcmpWaiters ==
  ASSUME MailInv, IcmpInv
  PROVE  \A q \in NetProc : netcall[q].at = "icmp" =>
            /\ netcall[q].slot \in IcmpSlot /\ q \notin killed
            /\ netcall[q] = [at |-> "icmp", slot |-> netcall[q].slot]
            /\ icmptab[netcall[q].slot].icpid = q
            /\ \/ icmptab[netcall[q].slot].icstate = "ICMP_RECV" /\ prmsg[q] # "OK"
               \/ icmptab[netcall[q].slot].icstate = "ICMP_USED" /\ prmsg[q] # "none"
            /\ prmsg[q] = "OK" => icmptab[netcall[q].slot].iccount > 0
BY CallKinds DEF MailInv, IcmpInv, EchoesServed

\* A step on one slot that leaves it in order.
LEMMA IcmpAtServed ==
  ASSUME MailInv, MailInv', IcmpNamed, IcmpInv, NEW s \in IcmpSlot, IcmpAt(s), IcmpGood(s)
  PROVE  IcmpInv'
<1>1. IcmpNamed'
  BY IcmpAtNamed
<1>2. \A t \in IcmpSlot \ {s} : icmptab'[t] = icmptab[t]
  BY DEF IcmpAt
<1>3. \A q \in NetProc : netcall'[q].at = "icmp" =>
         /\ netcall'[q].slot \in IcmpSlot /\ netcall'[q] = [at |-> "icmp", slot |-> netcall'[q].slot]
         /\ netcall[q].at = "icmp" => netcall[q].slot \in IcmpSlot
  BY CallKinds DEF MailInv
<1>4. \A q \in NetProc : netcall'[q].at = "icmp" =>
          LET e == icmptab'[netcall'[q].slot]
          IN  /\ e.icpid = q
              /\ \/ e.icstate = "ICMP_RECV" /\ prmsg'[q] # "OK"
                 \/ e.icstate = "ICMP_USED" /\ prmsg'[q] # "none"
              /\ prmsg'[q] = "OK" => e.iccount > 0
  <2>1. SUFFICES ASSUME NEW q \in NetProc, netcall'[q].at = "icmp"
                 PROVE  LET e == icmptab'[netcall'[q].slot]
                        IN  /\ e.icpid = q
                            /\ \/ e.icstate = "ICMP_RECV" /\ prmsg'[q] # "OK"
                               \/ e.icstate = "ICMP_USED" /\ prmsg'[q] # "none"
                            /\ prmsg'[q] = "OK" => e.iccount > 0
    OBVIOUS
  <2>2. CASE netcall'[q].slot # s /\ netcall'[q] = netcall[q] /\ prmsg'[q] = prmsg[q]
    <3>1. icmptab'[netcall'[q].slot] = icmptab[netcall[q].slot] /\ netcall[q].at = "icmp"
      BY <1>2, <1>3, <2>1, <2>2
    <3> QED  BY <2>2, <3>1, IcmpWaiters
  <2>3. CASE netcall'[q].slot = s
    BY <2>1, <2>3 DEF IcmpGood
  <2> QED  BY <2>1, <2>2, <2>3 DEF IcmpGood
<1>5. \A t \in IcmpSlot : IcmpRing(icmptab'[t])
  BY <1>2, IcmpEntry DEF IcmpGood
<1>6. \A t \in IcmpSlot : icmptab'[t].icstate = "ICMP_RECV" =>
          icmptab'[t].icpid \in killed' \/ InIcmp(icmptab[t].icpid, t)'
  BY <1>1 DEF IcmpNamed, InIcmp
<1>7. \A t, u \in IcmpSlot : t # u /\ icmptab'[t].icstate # "ICMP_FREE" /\ icmptab'[u].icstate # "ICMP_FREE"
                                => icmptab'[u].icremip # icmptab'[t].icremip
  BY <1>2, IcmpEntry DEF IcmpGood
<1>8. \A t \in IcmpUsed' :
          LET e == icmptab'[t]
          IN  /\ e.iccount \in 0 .. ICMP_QSIZ /\ e.ichead <= ICMP_QSIZ
              /\ (e.ichead + e.iccount) % ICMP_QSIZ = e.ictail
              /\ e.icstate = "ICMP_RECV" => e.iccount = 0
  BY <1>5, IcmpAssumption DEF IcmpRing, IcmpUsed
<1>9. EchoesServed'
  BY <1>4, <1>6, <1>7, <1>8 DEF EchoesServed, IcmpUsed
<1>10. \A q, r \in NetProc : netcall'[q].at = "icmp" /\ netcall'[r] = netcall'[q] => q = r
  BY <1>4
<1> QED  BY <1>4, <1>5, <1>9, <1>10 DEF IcmpInv, IcmpRing

\* icmp_register: no other slot has the address.
LEMMA IcmpRegisterServed ==
  ASSUME MailInv, IcmpNamed, IcmpInv, NEW h, IcmpRegister(h)
  PROVE  IcmpInv'
<1>1. PICK s \in IcmpSlot : s = Min(IcmpSlot \ IcmpUsed) /\ s \notin IcmpUsed
  <2>1. IcmpSlot \ IcmpUsed # {} /\ IcmpSlot \ IcmpUsed \in SUBSET IcmpSlot
    BY DEF IcmpRegister, IcmpUsed
  <2>2. PICK s : s = Min(IcmpSlot \ IcmpUsed)
    OBVIOUS
  <2>3. s \in IcmpSlot \ IcmpUsed
    BY <2>1, <2>2, IcmpMin
  <2> QED  BY <2>2, <2>3
<1>2. icmptab' = [icmptab EXCEPT ![s] =
                      [icstate |-> "ICMP_USED", icremip |-> h, iccount |-> 0,
                       ichead |-> 0, ictail |-> 0, icpid |-> NoOne]] /\ UNCHANGED mailvars
      /\ \A t \in IcmpUsed : icmptab[t].icremip # h
  BY <1>1 DEF IcmpRegister
<1>3. IcmpAt(s)
  BY <1>2 DEF IcmpNamed, IcmpAt, mailvars, InIcmp
<1>4. /\ icmptab'[s].icstate = "ICMP_USED" /\ icmptab'[s].icremip = h
      /\ icmptab'[s].iccount = 0 /\ icmptab'[s].ichead = 0 /\ icmptab'[s].ictail = 0
  BY <1>2 DEF IcmpNamed
<1>5. IcmpRing(icmptab'[s])
  <2>1. ICMP_QSIZ \in Nat \ {0}
    BY IcmpAssumption
  <2>2. (0 + 0) % ICMP_QSIZ = 0
    BY <2>1, ModSmall
  <2> QED  BY <1>4, <2>1, <2>2 DEF IcmpRing
<1>6. \A q \in NetProc : netcall'[q].at = "icmp" =>
          netcall'[q].slot # s /\ netcall'[q] = netcall[q] /\ prmsg'[q] = prmsg[q]
  <2>1. UNCHANGED <<netcall, prmsg>> /\ icmptab[s].icstate = "ICMP_FREE"
    BY <1>1, <1>2 DEF mailvars, IcmpUsed
  <2> QED  BY <2>1, IcmpWaiters
<1>7. IcmpGood(s)
  BY <1>2, <1>4, <1>5, <1>6 DEF IcmpGood, IcmpUsed
<1>8. MailInv'
  BY <1>2 DEF mailvars, MailInv
<1> QED  BY <1>3, <1>7, <1>8, IcmpAtServed

\* icmp_in: the reply goes into the ring, and who waits is told.
LEMMA IcmpInServed ==
  ASSUME "flood" \notin IcmpCareless, MailInv, IcmpNamed, IcmpInv,
         NEW s \in IcmpSlot, NEW h, IcmpIn(s, h)
  PROVE  IcmpInv'
<1> DEFINE e == icmptab[s]
<1>1. /\ icmptab' = [icmptab EXCEPT ![s] =
                          [e EXCEPT !.iccount = @ + 1, !.ictail = (@ + 1) % ICMP_QSIZ,
                                    !.icstate = "ICMP_USED"]]
      /\ UNCHANGED <<netcall, killed>> /\ e.iccount < ICMP_QSIZ /\ e.icstate # "ICMP_FREE"
      /\ prmsg' = IF e.icstate = "ICMP_RECV" THEN Informed(e.icpid) ELSE prmsg
  BY DEF IcmpIn, IcmpUsed
<1>2. IcmpAt(s)
  BY <1>1 DEF IcmpNamed, IcmpAt, InIcmp
<1>3. /\ icmptab'[s].icstate = "ICMP_USED" /\ icmptab'[s].icremip = e.icremip /\ icmptab'[s].icpid = e.icpid
      /\ icmptab'[s].iccount = e.iccount + 1 /\ icmptab'[s].ichead = e.ichead
      /\ icmptab'[s].ictail = (e.ictail + 1) % ICMP_QSIZ
  BY <1>1 DEF IcmpNamed
<1>4. IcmpRing(e)
  BY IcmpEntry
<1>5. IcmpRing(icmptab'[s])
  <2>1. ICMP_QSIZ \in Nat \ {0}
    BY IcmpAssumption
  <2>2. /\ e.iccount \in Nat /\ e.ichead \in Nat /\ e.ictail \in Nat /\ e.ichead <= ICMP_QSIZ
        /\ (e.ichead + e.iccount) % ICMP_QSIZ = e.ictail
    BY <1>1, <1>4 DEF IcmpRing
  <2>3. PICK x \in Nat : x = e.ichead + e.iccount
    BY <2>2
  <2>4. (e.ictail + 1) % ICMP_QSIZ = (x + 1) % ICMP_QSIZ
    BY <2>1, <2>2, <2>3, ModNext
  <2>5. x + 1 = e.ichead + (e.iccount + 1)
    BY <2>2, <2>3
  <2>6. (e.ictail + 1) % ICMP_QSIZ \in Nat
    BY <2>1, <2>2
  <2> HIDE DEF e
  <2> QED  BY <1>1, <1>3, <2>1, <2>2, <2>4, <2>5, <2>6 DEF IcmpRing
<1>6. \A q \in NetProc : netcall[q].at = "icmp" =>
          /\ netcall[q].slot # s => prmsg'[q] = prmsg[q]
          /\ netcall[q].slot = s => prmsg'[q] # "none" /\ e.icpid = q
  <2>1. SUFFICES ASSUME NEW q \in NetProc, netcall[q].at = "icmp"
                 PROVE  /\ netcall[q].slot # s => prmsg'[q] = prmsg[q]
                        /\ netcall[q].slot = s => prmsg'[q] # "none" /\ e.icpid = q
    OBVIOUS
  <2>2. /\ q \notin killed /\ prmsg \in [NetProc -> {"none", "OK", "other"}]
        /\ icmptab[netcall[q].slot].icpid = q
        /\ \/ icmptab[netcall[q].slot].icstate = "ICMP_RECV"
           \/ icmptab[netcall[q].slot].icstate = "ICMP_USED" /\ prmsg[q] # "none"
    BY <2>1, IcmpWaiters DEF MailInv
  <2>3. e.icstate = "ICMP_RECV" => e.icpid \in NetProc /\ (e.icpid \in killed \/ InIcmp(e.icpid, s))
    BY DEF IcmpNamed
  <2>4. CASE netcall[q].slot = s
    BY <1>1, <2>2, <2>4 DEF Informed
  <2>5. CASE netcall[q].slot # s
    BY <1>1, <2>1, <2>2, <2>3, <2>5 DEF Informed, InIcmp
  <2> QED  BY <2>4, <2>5
<1>7. icmptab'[s].iccount > 0
  BY <1>3, <1>4 DEF IcmpRing
<1>8. IcmpGood(s)
  <2>1. \A t \in IcmpSlot \ {s} : icmptab[t].icstate # "ICMP_FREE" => icmptab[t].icremip # icmptab'[s].icremip
    BY <1>1, <1>3, IcmpEntry
  <2> QED  BY <1>1, <1>3, <1>5, <1>6, <1>7, <2>1 DEF IcmpGood
<1>9. MailInv'
  <2>1. PICK k, q : k = "icmp" /\ q = e.icpid  OBVIOUS
  <2>2. Tells(q, k)
    BY <1>1, <2>1 DEF IcmpNamed, Tells, InIcmp
  <2> QED  BY <2>2, TellsKeep
<1> QED  BY <1>2, <1>8, <1>9, IcmpAtServed

\* A packet is taken from in front of the end of the ring.
LEMMA IcmpTaken ==
  ASSUME ICMP_QSIZ < ICMP_SLOTS, NEW e, IcmpRing(e), e.iccount > 0, e.icstate # "ICMP_FREE",
         DOMAIN e = {"icstate", "icremip", "iccount", "ichead", "ictail", "icpid"},
         e.ichead + 1 <= ICMP_QSIZ
  PROVE  /\ IcmpRing(PacketTaken(e)) /\ PacketTaken(e).icstate = "ICMP_USED"
         /\ PacketTaken(e).icremip = e.icremip
<1>1. /\ PacketTaken(e).icstate = "ICMP_USED" /\ PacketTaken(e).icremip = e.icremip
      /\ PacketTaken(e).iccount = e.iccount - 1 /\ PacketTaken(e).ictail = e.ictail
      /\ PacketTaken(e).ichead = (e.ichead + 1) % ICMP_SLOTS
  BY DEF PacketTaken, NextHead
<1>2. /\ e.iccount \in Nat /\ e.ichead \in Nat /\ e.ictail \in Nat /\ e.iccount <= ICMP_QSIZ
      /\ (e.ichead + e.iccount) % ICMP_QSIZ = e.ictail
      /\ ICMP_QSIZ \in Nat \ {0} /\ ICMP_SLOTS \in Nat \ {0}
  BY IcmpAssumption DEF IcmpRing
<1>3. (e.ichead + 1) % ICMP_SLOTS = e.ichead + 1
  BY <1>2, ModSmall
<1>4. (e.ichead + 1) + (e.iccount - 1) = e.ichead + e.iccount
  BY <1>2
<1>5. e.iccount - 1 \in Nat /\ e.iccount - 1 <= ICMP_QSIZ /\ e.ichead + 1 \in Nat
  BY <1>2
<1> QED  BY <1>1, <1>2, <1>3, <1>4, <1>5 DEF IcmpRing

\* icmp_recv: a reply at once, or a wait at a slot without one.
LEMMA IcmpRecvServed ==
  ASSUME ICMP_QSIZ < ICMP_SLOTS, "wrap" \notin IcmpCareless, "shared" \notin NetCareless,
         MailInv, IcmpNamed, IcmpInv, NEW p \in NetProc, NEW s \in IcmpSlot, IcmpRecv(p, s)
  PROVE  IcmpInv'
<1>1. /\ p \notin killed /\ netcall[p] = NetIdle /\ netcall[p].at = "none" /\ UNCHANGED killed
      /\ DOMAIN netcall = NetProc /\ prmsg \in [NetProc -> {"none", "OK", "other"}]
      /\ icmptab[s].icstate = "ICMP_USED" /\ \A q \in NetProc : ~InIcmp(q, s)
      /\ \/ /\ icmptab[s].iccount = 0
            /\ icmptab' = [icmptab EXCEPT ![s].icstate = "ICMP_RECV", ![s].icpid = p]
            /\ netcall' = [netcall EXCEPT ![p] = [at |-> "icmp", slot |-> s]]
            /\ prmsg'   = [prmsg EXCEPT ![p] = "none"]
         \/ /\ icmptab[s].iccount # 0 /\ icmptab[s].ichead + 1 <= ICMP_QSIZ
            /\ icmptab' = [icmptab EXCEPT ![s] = PacketTaken(@)]
            /\ UNCHANGED <<netcall, prmsg>>
  BY CallKinds DEF IcmpRecv, NetFree, MailInv, InRing
<1>2. IcmpNamed' /\ MailInv'
  <2>1. PICK k : k = "icmp"  OBVIOUS
  <2> QED  BY <2>1, IcmpRecvNamed, MovesKeep DEF mailvars, MailInv
<1>3. \A q \in NetProc : netcall[q].at = "icmp" => netcall[q].slot # s
  BY <1>1 DEF InIcmp
<1>4. CASE /\ icmptab[s].iccount = 0
           /\ icmptab' = [icmptab EXCEPT ![s].icstate = "ICMP_RECV", ![s].icpid = p]
           /\ netcall' = [netcall EXCEPT ![p] = [at |-> "icmp", slot |-> s]]
           /\ prmsg'   = [prmsg EXCEPT ![p] = "none"]
  <2>1. IcmpAt(s)
    BY <1>1, <1>4 DEF IcmpNamed, IcmpAt, InIcmp
  <2>2. /\ icmptab'[s].icstate = "ICMP_RECV" /\ icmptab'[s].icpid = p
        /\ icmptab'[s].icremip = icmptab[s].icremip /\ icmptab'[s].iccount = icmptab[s].iccount
        /\ icmptab'[s].ichead = icmptab[s].ichead /\ icmptab'[s].ictail = icmptab[s].ictail
    BY <1>4 DEF IcmpNamed
  <2>3. /\ prmsg'[p] = "none" /\ netcall'[p].slot = s
        /\ \A q \in NetProc \ {p} : netcall'[q] = netcall[q] /\ prmsg'[q] = prmsg[q]
    BY <1>1, <1>4
  <2>4. IcmpRing(icmptab'[s])
    BY <1>1, <1>4, <2>2, IcmpEntry DEF IcmpRing
  <2>5. \A t \in IcmpSlot \ {s} : icmptab[t].icstate # "ICMP_FREE" => icmptab[t].icremip # icmptab'[s].icremip
    BY <1>1, <2>2, IcmpEntry
  <2>6. IcmpGood(s)
    BY <1>3, <2>2, <2>3, <2>4, <2>5 DEF IcmpGood
  <2> QED  BY <1>2, <2>1, <2>6, IcmpAtServed
<1>5. CASE /\ icmptab[s].iccount # 0 /\ icmptab[s].ichead + 1 <= ICMP_QSIZ
           /\ icmptab' = [icmptab EXCEPT ![s] = PacketTaken(@)]
           /\ UNCHANGED <<netcall, prmsg>>
  <2>1. IcmpAt(s)
    BY <1>1, <1>5 DEF IcmpNamed, IcmpAt, InIcmp, PacketTaken
  <2>2. icmptab'[s] = PacketTaken(icmptab[s])
    BY <1>5 DEF IcmpNamed
  <2>3. PICK e : e = icmptab[s]  OBVIOUS
  <2>4. /\ IcmpRing(e) /\ e.iccount > 0 /\ e.icstate # "ICMP_FREE" /\ e.ichead + 1 <= ICMP_QSIZ
        /\ DOMAIN e = {"icstate", "icremip", "iccount", "ichead", "ictail", "icpid"}
    <3>1. IcmpRing(e) /\ DOMAIN e = {"icstate", "icremip", "iccount", "ichead", "ictail", "icpid"}
      BY <2>3, IcmpEntry
    <3>2. e.iccount \in Nat
      BY <3>1 DEF IcmpRing
    <3> QED  BY <1>1, <1>5, <2>3, <3>1, <3>2
  <2>5. IcmpRing(icmptab'[s]) /\ icmptab'[s].icremip = icmptab[s].icremip
    BY <2>2, <2>3, <2>4, IcmpTaken
  <2>6. \A t \in IcmpSlot \ {s} : icmptab[t].icstate # "ICMP_FREE" => icmptab[t].icremip # icmptab'[s].icremip
    BY <1>1, <2>5, IcmpEntry
  <2>7. IcmpGood(s)
    BY <1>3, <1>5, <2>5, <2>6 DEF IcmpGood
  <2> QED  BY <1>2, <2>1, <2>7, IcmpAtServed
<1> QED  BY <1>1, <1>4, <1>5

\* The end of a wait: there is a reply for who was told of one.
LEMMA IcmpRecvEndServed ==
  ASSUME ICMP_QSIZ < ICMP_SLOTS, "wrap" \notin IcmpCareless,
         MailInv, IcmpNamed, IcmpInv, NEW p \in NetProc, IcmpRecvEnd(p)
  PROVE  IcmpInv'
<1>1. /\ netcall[p].at = "icmp" /\ netcall' = [netcall EXCEPT ![p] = NetIdle]
      /\ prmsg' = [prmsg EXCEPT ![p] = "none"] /\ UNCHANGED killed
      /\ \/ /\ Recvd(p) = "OK" /\ icmptab[netcall[p].slot].ichead + 1 <= ICMP_QSIZ
            /\ icmptab' = [icmptab EXCEPT ![netcall[p].slot] = PacketTaken(@)]
         \/ icmptab' = [icmptab EXCEPT ![netcall[p].slot].icstate = "ICMP_USED"]
  BY DEF IcmpRecvEnd, InRing
<1>2. /\ p \notin killed /\ netcall[p].slot \in IcmpSlot /\ DOMAIN netcall = NetProc
      /\ prmsg \in [NetProc -> {"none", "OK", "other"}]
      /\ Recvd(p) = "OK" => prmsg[p] = "OK"
      /\ icmptab[netcall[p].slot].icpid = p /\ icmptab[netcall[p].slot].icstate # "ICMP_FREE"
      /\ prmsg[p] = "OK" => icmptab[netcall[p].slot].iccount > 0
  BY <1>1, IcmpWaiters DEF MailInv, Recvd
<1>3. PICK s \in IcmpSlot : s = netcall[p].slot
  BY <1>2
<1>4. IcmpNamed' /\ MailInv'
  <2>1. PICK k : k = "icmp"  OBVIOUS
  <2> QED  BY <2>1, IcmpRecvEndNamed, MovesKeep
<1>5. \A q \in NetProc : netcall'[q].at = "icmp" =>
          netcall'[q] = netcall[q] /\ prmsg'[q] = prmsg[q] /\ netcall[q].slot # s
  <2>1. \A q \in NetProc : netcall[q].at = "icmp" => icmptab[netcall[q].slot].icpid = q
    BY IcmpWaiters
  <2> QED  BY <1>1, <1>2, <1>3, <2>1, CallKinds
<1>6. \A q \in NetProc, t \in IcmpSlot \ {s} : InIcmp(q, t) => InIcmp(q, t)'
  BY <1>1, <1>2, <1>3 DEF InIcmp
<1>7. /\ DOMAIN icmptab' = IcmpSlot /\ \A t \in IcmpSlot \ {s} : icmptab'[t] = icmptab[t]
      /\ DOMAIN icmptab'[s] = {"icstate", "icremip", "iccount", "ichead", "ictail", "icpid"}
      /\ icmptab'[s].icstate = "ICMP_USED" /\ icmptab'[s].icremip = icmptab[s].icremip
      /\ IcmpRing(icmptab'[s])
  <2>1. PICK e : e = icmptab[s]  OBVIOUS
  <2>2. /\ IcmpRing(e) /\ e.icstate # "ICMP_FREE"
        /\ DOMAIN e = {"icstate", "icremip", "iccount", "ichead", "ictail", "icpid"}
    BY <1>2, <1>3, <2>1, IcmpEntry
  <2>3. CASE /\ Recvd(p) = "OK" /\ icmptab[netcall[p].slot].ichead + 1 <= ICMP_QSIZ
             /\ icmptab' = [icmptab EXCEPT ![netcall[p].slot] = PacketTaken(@)]
    <3>1. icmptab' = [icmptab EXCEPT ![s] = PacketTaken(e)] /\ e.ichead + 1 <= ICMP_QSIZ
      BY <1>3, <2>1, <2>3
    <3>2. e.iccount > 0
      BY <1>2, <1>3, <2>1, <2>3
    <3>3. IcmpRing(PacketTaken(e)) /\ PacketTaken(e).icstate = "ICMP_USED"
          /\ PacketTaken(e).icremip = e.icremip
      BY <2>2, <3>1, <3>2, IcmpTaken
    <3>4. DOMAIN PacketTaken(e) = {"icstate", "icremip", "iccount", "ichead", "ictail", "icpid"}
      BY <2>2 DEF PacketTaken
    <3> QED  BY <2>1, <3>1, <3>3, <3>4 DEF IcmpNamed
  <2>4. CASE icmptab' = [icmptab EXCEPT ![netcall[p].slot].icstate = "ICMP_USED"]
    <3>1. icmptab' = [icmptab EXCEPT ![s].icstate = "ICMP_USED"]
      BY <1>3, <2>4
    <3>2. /\ DOMAIN icmptab' = IcmpSlot /\ \A t \in IcmpSlot \ {s} : icmptab'[t] = icmptab[t]
          /\ DOMAIN icmptab'[s] = {"icstate", "icremip", "iccount", "ichead", "ictail", "icpid"}
          /\ icmptab'[s].icstate = "ICMP_USED" /\ icmptab'[s].icremip = icmptab[s].icremip
          /\ icmptab'[s].iccount = e.iccount /\ icmptab'[s].ichead = e.ichead /\ icmptab'[s].ictail = e.ictail
      BY <2>1, <2>2, <3>1 DEF IcmpNamed
    <3>3. IcmpRing(icmptab'[s])
      BY <2>2, <3>2 DEF IcmpRing
    <3> QED  BY <3>2, <3>3
  <2> QED  BY <1>1, <2>3, <2>4
<1>8. IcmpAt(s)
  BY <1>1, <1>6, <1>7 DEF IcmpAt
<1>9. IcmpGood(s)
  <2>1. \A t \in IcmpSlot \ {s} : icmptab[t].icstate # "ICMP_FREE" => icmptab[t].icremip # icmptab'[s].icremip
    BY <1>2, <1>3, <1>7, IcmpEntry
  <2> QED  BY <1>5, <1>7, <2>1 DEF IcmpGood
<1> QED  BY <1>4, <1>8, <1>9, IcmpAtServed

\* icmp_release: nobody waits at the slot.
LEMMA IcmpReleaseServed ==
  ASSUME "release" \notin NetCareless, MailInv, IcmpNamed, IcmpInv, NEW s \in IcmpSlot, IcmpRelease(s)
  PROVE  IcmpInv'
<1>1. /\ icmptab' = [icmptab EXCEPT ![s].icstate = "ICMP_FREE", ![s].iccount = 0]
      /\ UNCHANGED mailvars /\ UNCHANGED <<netcall, prmsg>> /\ \A q \in NetProc : ~InIcmp(q, s)
  BY DEF IcmpRelease, mailvars
<1>2. IcmpAt(s)
  BY <1>1 DEF IcmpNamed, IcmpAt, InIcmp, mailvars
<1>3. /\ icmptab'[s].icstate = "ICMP_FREE" /\ icmptab'[s].iccount = 0
      /\ icmptab'[s].ichead = icmptab[s].ichead /\ icmptab'[s].ictail = icmptab[s].ictail
  BY <1>1 DEF IcmpNamed
<1>4. IcmpRing(icmptab'[s])
  BY <1>3, IcmpEntry DEF IcmpRing
<1>5. \A q \in NetProc : netcall'[q].at = "icmp" =>
          netcall'[q].slot # s /\ netcall'[q] = netcall[q] /\ prmsg'[q] = prmsg[q]
  BY <1>1 DEF InIcmp
<1>6. IcmpGood(s)
  BY <1>3, <1>4, <1>5 DEF IcmpGood
<1>7. MailInv'
  BY <1>1 DEF mailvars, MailInv
<1> QED  BY <1>2, <1>6, <1>7, IcmpAtServed

\* Every step of the echo replies.
LEMMA IcmpStepServed ==
  ASSUME {"shared", "release"} \cap NetCareless = {}, IcmpCareless = {}, ICMP_QSIZ < ICMP_SLOTS,
         MailInv, IcmpNamed, IcmpInv, IcmpNext
  PROVE  IcmpInv'
<1>1. /\ "shared" \notin NetCareless /\ "release" \notin NetCareless
      /\ "wrap" \notin IcmpCareless /\ "flood" \notin IcmpCareless
  OBVIOUS
<1>2. CASE \E h \in EchoHost : IcmpRegister(h)
  BY <1>2, IcmpRegisterServed
<1>3. CASE \E h \in EchoHost, s \in IcmpSlot : IcmpIn(s, h)
  BY <1>1, <1>3, IcmpInServed
<1>4. CASE \E s \in IcmpSlot : IcmpRelease(s)
  BY <1>1, <1>4, IcmpReleaseServed
<1>5. CASE \E s \in IcmpSlot, p \in NetProc : IcmpRecv(p, s)
  BY <1>1, <1>5, IcmpRecvServed
<1>6. CASE \E p \in NetProc : IcmpRecvEnd(p)
  BY <1>1, <1>6, IcmpRecvEndServed
<1> QED  BY <1>2, <1>3, <1>4, <1>5, <1>6 DEF IcmpNext
-----------------------------------------------------------------------------
\* The three protocols together.

\* The other protocols and those outside leave UDP in order.
LEMMA NetKeepsUdp ==
  ASSUME NetCareless = {}, ResolveInv, UdpInv, [NetNext]_netvars
  PROVE  UdpInv'
<1>1. MailInv /\ ArpInv /\ UdpNamed /\ IcmpNamed
  BY DEF ResolveInv
<1>2. Keeps("udp") /\ UNCHANGED udptab => UdpInv'
  BY <1>1, UdpFrame, DisturbsWhen
<1>3. CASE ArpNext /\ UNCHANGED <<udptab, icmptab>>
  <2>1. Keeps("udp")
    BY <1>1, <1>3, ArpResolveKeeps, ArpResolveEndKeeps, ArpInKeeps DEF ArpNext
  <2> QED  BY <1>2, <1>3, <2>1
<1>4. CASE UdpNext /\ UNCHANGED <<arpvars, icmptab>>
  <2>1. {"shared", "release"} \cap NetCareless = {}
    OBVIOUS
  <2> QED  BY <1>1, <1>4, <2>1, UdpStepServed
<1>5. CASE IcmpNext /\ UNCHANGED <<arpvars, udptab>>
  BY <1>1, <1>2, <1>5, IcmpStepNamed
<1>6. CASE (\E p \in NetProc : Stray(p) \/ KillNet(p)) /\ UNCHANGED <<arpvars, udptab, icmptab>>
  <2>1. PICK k : k = "udp"  OBVIOUS
  <2>2. Disturbs(k)
    BY <1>1, <1>6, <2>1, DisturbsWhen
  <2> QED  BY <1>1, <1>6, <2>1, <2>2, UdpFrame
<1>7. CASE UNCHANGED netvars
  <2>1. UNCHANGED <<mailvars, udptab>>
    BY <1>7 DEF netvars
  <2>2. Keeps("udp")
    BY <2>1 DEF mailvars, Keeps
  <2> QED  BY <1>2, <2>1, <2>2
<1> QED  BY <1>3, <1>4, <1>5, <1>6, <1>7 DEF NetNext

\* And the echo replies.
LEMMA NetKeepsIcmp ==
  ASSUME NetCareless = {}, IcmpCareless = {}, ICMP_QSIZ < ICMP_SLOTS,
         ResolveInv, IcmpInv, [NetNext]_netvars
  PROVE  IcmpInv'
<1>1. MailInv /\ ArpInv /\ UdpNamed /\ IcmpNamed
  BY DEF ResolveInv
<1>2. Keeps("icmp") /\ UNCHANGED icmptab => IcmpInv'
  BY <1>1, IcmpFrame, DisturbsWhen
<1>3. CASE ArpNext /\ UNCHANGED <<udptab, icmptab>>
  <2>1. Keeps("icmp")
    BY <1>1, <1>3, ArpResolveKeeps, ArpResolveEndKeeps, ArpInKeeps DEF ArpNext
  <2> QED  BY <1>2, <1>3, <2>1
<1>4. CASE UdpNext /\ UNCHANGED <<arpvars, icmptab>>
  BY <1>1, <1>2, <1>4, UdpStepNamed
<1>5. CASE IcmpNext /\ UNCHANGED <<arpvars, udptab>>
  <2>1. {"shared", "release"} \cap NetCareless = {}
    OBVIOUS
  <2> QED  BY <1>1, <1>5, <2>1, IcmpStepServed
<1>6. CASE (\E p \in NetProc : Stray(p) \/ KillNet(p)) /\ UNCHANGED <<arpvars, udptab, icmptab>>
  <2>1. PICK k : k = "icmp"  OBVIOUS
  <2>2. Disturbs(k)
    BY <1>1, <1>6, <2>1, DisturbsWhen
  <2> QED  BY <1>1, <1>6, <2>1, <2>2, IcmpFrame
<1>7. CASE UNCHANGED netvars
  <2>1. UNCHANGED <<mailvars, icmptab>>
    BY <1>7 DEF netvars
  <2>2. Keeps("icmp")
    BY <2>1 DEF mailvars, Keeps
  <2> QED  BY <1>2, <2>1, <2>2
<1> QED  BY <1>3, <1>4, <1>5, <1>6, <1>7 DEF NetNext

\* At the start all slots are free.
LEMMA NetServedInit ==
  NetInit => UdpInv /\ IcmpInv
<1> SUFFICES ASSUME NetInit PROVE UdpInv /\ IcmpInv
  OBVIOUS
<1>1. \A p \in NetProc : netcall[p].at = "none"
  BY CallKinds DEF NetInit, MailboxInit
<1>2. \A s \in UdpSlot : /\ udptab[s].udstate = "UDP_FREE" /\ udptab[s].udqueue = <<>>
                         /\ udptab[s].udcount = 0
  BY DEF NetInit, UdpInit
<1>3. UdpInv
  <2>1. \A s \in UdpSlot : /\ udptab[s].udqueue \in Seq(Remote) /\ udptab[s].udcount = Len(udptab[s].udqueue)
                           /\ udptab[s].udcount <= UDP_QSIZ /\ udptab[s].udcount = 0
    <3>1. <<>> \in Seq(Remote) /\ Len(<<>>) = 0
      OBVIOUS
    <3>2. 0 <= UDP_QSIZ
      BY UdpAssumption
    <3>3. ASSUME NEW s \in UdpSlot
          PROVE  /\ udptab[s].udqueue \in Seq(Remote) /\ udptab[s].udcount = Len(udptab[s].udqueue)
                 /\ udptab[s].udcount <= UDP_QSIZ /\ udptab[s].udcount = 0
      <4>1. udptab[s].udqueue = <<>> /\ udptab[s].udcount = 0
        BY <1>2
      <4> QED  BY <3>1, <3>2, <4>1
    <3> QED  BY <3>3
  <2>2. EndpointsDistinct
    BY <1>2 DEF EndpointsDistinct, UsedSlots
  <2>3. ReceiverFindsPacket
    BY <1>1, <2>1 DEF ReceiverFindsPacket
  <2>4. RecvHasReceiver
    BY <1>1, <1>2 DEF RecvHasReceiver
  <2> QED  BY <1>1, <2>1, <2>2, <2>3, <2>4 DEF UdpInv, ReceiversServed
<1>4. \A s \in IcmpSlot : /\ icmptab[s].icstate = "ICMP_FREE" /\ icmptab[s].iccount = 0
                          /\ icmptab[s].ichead = 0 /\ icmptab[s].ictail = 0
  BY DEF NetInit, IcmpInit
<1>5. IcmpInv
  BY <1>1, <1>4 DEF IcmpInv, EchoesServed, IcmpUsed
<1> QED  BY <1>3, <1>5

\* Every UDP receiver that is told of a packet finds one, no receiver waits
\* while its queue has packets, and no packet is announced to a process that
\* waits for something else (net/udp.c); here the processes do nothing
\* careless, but the echo replies may be as many as they like.
THEOREM NetReceivers ==
  ASSUME NetCareless = {}
  PROVE  NetSpec => []ReceiversServed
<1>1. NetInit => ResolveInv /\ UdpInv
  BY ResolveInit, NetServedInit
<1>2. ResolveInv /\ UdpInv /\ [NetNext]_netvars => ResolveInv' /\ UdpInv'
  BY ResolveNext, NetKeepsUdp
<1>3. UdpInv => ReceiversServed
  BY DEF UdpInv
<1> QED  BY <1>1, <1>2, <1>3, PTL DEF NetSpec

\* The same for the echo replies as well (net/icmp.c), as long as no more of
\* them come than a ring has room for, nor are taken from one than it has
\* slots, and the table is longer than the rings, as it is (net/icmp.h): the
\* head wraps at the length of the table, the tail at that of the ring.
THEOREM NetServes ==
  ASSUME NetCareless = {}, IcmpCareless = {}, ICMP_QSIZ < ICMP_SLOTS
  PROVE  NetSpec => []EndpointsServed
<1>1. NetInit => NetInv
  BY ResolveInit, NetServedInit DEF NetInv
<1>2. NetInv /\ [NetNext]_netvars => NetInv'
  BY ResolveNext, NetKeepsUdp, NetKeepsIcmp DEF NetInv
<1>3. NetInv => EndpointsServed
  BY DEF NetInv, UdpInv, IcmpInv, EndpointsServed
<1> QED  BY <1>1, <1>2, <1>3, PTL DEF NetSpec

-----------------------------------------------------------------------------
\* The download of a file, with a local port of its own for each and a file
\* that does not change meanwhile.

TftpSpec == TftpInit /\ [][TftpNext]_tftpvars

TheFile(get) == [get |-> get, version |-> 1]

Clients ==
    [get : {gets}, localport : {gets}, remport : Nat, first : BOOLEAN, expected : Nat, i : Nat]

\* What a session sends to a port is a block of the file that was asked for
\* from there.
FromSession(d) ==
    /\ d.from \in Nat
    /\ \/ d.dblk = Failure
       \/ \E n \in 1 .. Blocks :
             /\ d.dblk = n % BlkMod /\ d.data = <<TheFile(d.to), n>>
             /\ (d.last <=> n = Blocks) /\ (d.empty => n = Blocks)

\* The buffers hold the beginning of the file, and the block that is expected
\* is the one after it.
TftpInv ==
    /\ gets \in Nat
    /\ rcv_bufs \in Seq({TheFile(gets)} \X Nat)
    /\ \A n \in DOMAIN rcv_bufs : rcv_bufs[n] = <<TheFile(gets), n>>
    /\ client # NoGet =>
          /\ client \in Clients
          /\ client.expected = Len(rcv_bufs) + 1 /\ client.expected <= Blocks
          /\ filesiz = "none"
    /\ filesiz = "whole" => Len(rcv_bufs) \in {Blocks, Blocks - 1}
    /\ filesiz = "part"  => Len(rcv_bufs) = Room
    /\ \A m \in tosrv : m.from = m.get /\ m.from \in Nat
    /\ \A k \in DOMAIN sessions : /\ sessions[k].port \in Nat
                                  /\ sessions[k].file = TheFile(sessions[k].peer)
    /\ sessions \in Seq([port : Nat, peer : Nat, file : {TheFile(g) : g \in Nat}, even : BOOLEAN])
    /\ \A d \in tocli : FromSession(d)

\* A number that the modulus leaves as it is.
LEMMA SmallMod ==
    ASSUME NEW n \in Nat, NEW m \in Nat \ {0}, n < m
    PROVE  n % m = n
  OBVIOUS

\* At the start no download is under way.
LEMMA TftpInitInv ==
    ASSUME TftpInit
    PROVE  TftpInv
<1>1. <<>> \in Seq({TheFile(gets)} \X Nat) /\ DOMAIN <<>> = {}
  OBVIOUS
<1>2. <<>> \in Seq([port : Nat, peer : Nat, file : {TheFile(g) : g \in Nat}, even : BOOLEAN])
  OBVIOUS
<1> QED BY <1>1, <1>2 DEF TftpInit, TftpInv

\* A new download has a port that no session has answered to.
LEMMA TftpgetKeeps ==
    ASSUME TftpInv, TftpCareless = {}, Tftpget
    PROVE  TftpInv'
<1> DEFINE c == [get |-> gets', localport |-> gets', remport |-> TFTP_PORT,
                 first |-> TRUE, expected |-> 1, i |-> 0]
<1>1. /\ gets' = gets + 1 /\ rcv_bufs' = <<>> /\ filesiz' = "none"
      /\ client' = c /\ tosrv' = tosrv \cup {Outmsg(c, c.remport)}
      /\ tocli' = tocli /\ sessions' = sessions
  BY DEF Tftpget, Sends
<1>2. gets \in Nat /\ gets' \in Nat
  BY <1>1 DEF TftpInv
<1>3. c \in Clients' /\ c.expected = 1 /\ 1 <= Blocks
  BY <1>2, TftpAssumption DEF Clients, TFTP_PORT
<1>4. /\ Outmsg(c, c.remport).from = Outmsg(c, c.remport).get
      /\ Outmsg(c, c.remport).from \in Nat
  BY <1>2 DEF Outmsg
<1> HIDE DEF c
<1>5. <<>> \in Seq({TheFile(gets')} \X Nat) /\ DOMAIN <<>> = {} /\ Len(<<>>) = 0
  OBVIOUS
<1>6. \A m \in tosrv' : m.from = m.get /\ m.from \in Nat
  BY <1>1, <1>2, <1>4 DEF TftpInv
<1>7. c.expected = Len(rcv_bufs') + 1
  BY <1>1, <1>3, <1>5
<1>8. /\ rcv_bufs' \in Seq({TheFile(gets')} \X Nat)
      /\ \A n \in DOMAIN rcv_bufs' : rcv_bufs'[n] = <<TheFile(gets'), n>>
  BY <1>1, <1>5
<1>9. /\ client' \in Clients'
      /\ client'.expected = Len(rcv_bufs') + 1 /\ client'.expected <= Blocks
      /\ filesiz' = "none"
  BY <1>1, <1>3, <1>7
<1> QED BY <1>1, <1>2, <1>6, <1>8, <1>9 DEF TftpInv, FromSession

\* A block of the download that is awaited is the next one of its file.
LEMMA StoreKeeps ==
    ASSUME TftpInv, client # NoGet, NEW d \in tocli, Store(d),
           UNCHANGED <<gets, tocli, sessions>>
    PROVE  TftpInv'
<1>1. /\ client \in Clients /\ client.expected = Len(rcv_bufs) + 1 /\ client.expected <= Blocks
      /\ filesiz = "none" /\ rcv_bufs \in Seq({TheFile(gets)} \X Nat)
      /\ Len(rcv_bufs) \in Nat /\ gets \in Nat
      /\ FromSession(d)
  BY DEF TftpInv
<1>2. /\ d.to = client.localport /\ d.dblk = client.expected
      /\ rcv_bufs' = IF d.empty THEN rcv_bufs ELSE Append(rcv_bufs, d.data)
  BY DEF Store, Received, Acceptable
<1>3. d.to = gets
  BY <1>1, <1>2 DEF Clients
<1>4. Blocks \in Nat /\ BlkMod \in Nat \ {0} /\ Blocks < BlkMod
  BY TftpAssumption
<1>5. PICK n \in 1 .. Blocks :
             /\ d.dblk = n % BlkMod /\ d.data = <<TheFile(gets), n>>
             /\ (d.last <=> n = Blocks) /\ (d.empty => n = Blocks)
  BY <1>1, <1>2, <1>3 DEF FromSession, Failure
<1>6. n % BlkMod = n
  BY <1>4, SmallMod
<1>7. n = Len(rcv_bufs) + 1
  BY <1>1, <1>2, <1>5, <1>6
<1>8. /\ rcv_bufs' \in Seq({TheFile(gets)} \X Nat)
      /\ \A k \in DOMAIN rcv_bufs' : rcv_bufs'[k] = <<TheFile(gets), k>>
      /\ Len(rcv_bufs') = IF d.empty THEN n - 1 ELSE n
  <2>1. CASE d.empty
    BY <1>1, <1>2, <1>7, <2>1 DEF TftpInv
  <2>2. CASE ~d.empty
    <3>1. rcv_bufs' = Append(rcv_bufs, <<TheFile(gets), n>>)
      BY <1>2, <1>5, <2>2
    <3>2. \A k \in DOMAIN rcv_bufs : rcv_bufs[k] = <<TheFile(gets), k>>
      BY DEF TftpInv
    <3> QED BY <1>1, <1>7, <2>2, <3>1, <3>2
  <2> QED BY <2>1, <2>2
<1> DEFINE acked == [client EXCEPT !.remport = d.from, !.first = FALSE, !.i = 0,
                                   !.expected = (@ + 1) % BlkMod]
<1>9. /\ acked.get = gets /\ acked.localport = gets
      /\ acked.expected = (n + 1) % BlkMod
      /\ acked \in Clients
  <2>1. (n + 1) % BlkMod \in Nat
    BY <1>4
  <2>2. client.expected = n
    BY <1>1, <1>7
  <2>3. acked = [client EXCEPT !.remport = d.from, !.first = FALSE, !.i = 0,
                               !.expected = (n + 1) % BlkMod]
    BY <1>1, <2>2 DEF Clients
  <2> HIDE DEF acked
  <2>4. PICK x \in Nat : x = (n + 1) % BlkMod
    BY <2>1
  <2>5. acked = [client EXCEPT !.remport = d.from, !.first = FALSE, !.i = 0, !.expected = x]
    BY <2>3, <2>4
  <2>6. d.from \in Nat
    BY <1>1 DEF FromSession
  <2>7. /\ acked.get = gets /\ acked.localport = gets /\ acked.expected = x
        /\ acked \in Clients
    BY <1>1, <2>5, <2>6 DEF Clients
  <2> QED BY <2>4, <2>7
<1>10. /\ Outmsg(acked, d.from).from = gets /\ Outmsg(acked, d.from).get = gets
       /\ Outmsg(acked, acked.remport).from = gets /\ Outmsg(acked, acked.remport).get = gets
  BY <1>9 DEF Outmsg
<1>11. \/ d.last /\ client' = NoGet /\ filesiz' = "whole" /\ tosrv' = tosrv \cup {Outmsg(acked, d.from)}
       \/ ~d.last /\ client' = acked /\ tosrv' = tosrv \cup {Outmsg(acked, acked.remport)}
                  /\ filesiz' = filesiz
  BY DEF Store, Returns, Sends
<1> HIDE DEF acked
<1>12. \A m \in tosrv' : m.from = m.get /\ m.from \in Nat
  BY <1>1, <1>10, <1>11 DEF TftpInv
<1>13. CASE d.last /\ client' = NoGet /\ filesiz' = "whole"
  <2>1. n = Blocks
    BY <1>5, <1>13
  <2>2. Len(rcv_bufs') \in {Blocks, Blocks - 1}
    BY <1>8, <2>1
  <2> QED BY <1>1, <1>8, <1>12, <1>13, <2>2 DEF TftpInv, FromSession
<1>14. CASE ~d.last /\ client' = acked /\ filesiz' = filesiz
  <2>1. n < Blocks /\ ~d.empty
    BY <1>4, <1>5, <1>14
  <2>2. (n + 1) % BlkMod = n + 1 /\ n + 1 <= Blocks
    <3>1. n + 1 \in Nat /\ n + 1 <= Blocks /\ n + 1 < BlkMod
      BY <1>4, <2>1
    <3>2. PICK x \in Nat : x = n + 1
      BY <3>1
    <3> QED BY <1>4, <3>1, <3>2, SmallMod
  <2>3. acked.expected = Len(rcv_bufs') + 1 /\ acked.expected <= Blocks
    BY <1>8, <1>9, <2>1, <2>2
  <2>4. client' \in Clients'
    BY <1>9, <1>14 DEF Clients
  <2> QED BY <1>1, <1>8, <1>12, <1>14, <2>3, <2>4 DEF TftpInv, FromSession
<1> QED BY <1>11, <1>13, <1>14

\* A datagram is the next block, or is dropped.
LEMMA TftpReceivesKeeps ==
    ASSUME TftpInv, TftpReceives
    PROVE  TftpInv'
<1>1. PICK d \in tocli : Ignore(d) \/ ErrorCame(d) \/ BufferFull(d) \/ Store(d)
  BY DEF TftpReceives
<1>2. client # NoGet /\ gets' = gets /\ tocli' = tocli /\ sessions' = sessions
  BY DEF TftpReceives
<1>3. client \in Clients /\ FromSession(d)
  BY <1>2 DEF TftpInv
<1>4. CASE Ignore(d)
  <2>1. client' \in Clients' /\ client'.expected = client.expected
    BY <1>2, <1>3, <1>4 DEF Ignore, Clients, FromSession
  <2>2. rcv_bufs' = rcv_bufs /\ filesiz' = filesiz /\ tosrv' = tosrv
    BY <1>4 DEF Ignore
  <2> QED BY <1>2, <2>1, <2>2 DEF TftpInv, FromSession
<1>5. CASE ErrorCame(d)
  <2>1. client' = NoGet /\ filesiz' = "SYSERR" /\ rcv_bufs' = rcv_bufs /\ tosrv' = tosrv
    BY <1>5 DEF ErrorCame, Returns
  <2> QED BY <1>2, <2>1 DEF TftpInv, FromSession
<1>6. CASE BufferFull(d)
  <2>1. /\ client' = NoGet /\ filesiz' = "part" /\ rcv_bufs' = rcv_bufs /\ tosrv' = tosrv
        /\ Len(rcv_bufs) = Room
    BY <1>6 DEF BufferFull, Returns
  <2> QED BY <1>2, <2>1 DEF TftpInv, FromSession
<1>7. CASE Store(d)
  BY <1>2, <1>7, StoreKeeps
<1> QED BY <1>1, <1>4, <1>5, <1>6, <1>7

\* A timeout sends again what was sent last, or gives up.
LEMMA TftpTimeoutKeeps ==
    ASSUME TftpInv, TftpTimeout
    PROVE  TftpInv'
<1> DEFINE c == [client EXCEPT !.i = @ + 1]
<1>1. /\ client # NoGet /\ gets' = gets /\ rcv_bufs' = rcv_bufs
      /\ tocli' = tocli /\ sessions' = sessions
      /\ \/ /\ client' = c /\ tosrv' = tosrv \cup {Outmsg(c, c.remport)}
            /\ filesiz' = filesiz
         \/ /\ client' = NoGet /\ filesiz' = "SYSERR" /\ tosrv' = tosrv
  BY DEF TftpTimeout, Sends, Returns
<1>2. client \in Clients
  BY <1>1 DEF TftpInv
<1>3. c \in Clients /\ c.expected = client.expected /\ c.get = gets /\ c.localport = gets
  BY <1>2 DEF Clients
<1>4. Outmsg(c, c.remport).from = gets /\ Outmsg(c, c.remport).get = gets
  BY <1>3 DEF Outmsg
<1> HIDE DEF c
<1>5. \A m \in tosrv' : m.from = m.get /\ m.from \in Nat
  BY <1>1, <1>4 DEF TftpInv
<1>6. CASE client' = c /\ filesiz' = filesiz
  <2>1. client' \in Clients'
    BY <1>1, <1>3, <1>6 DEF Clients
  <2> QED BY <1>1, <1>3, <1>5, <1>6, <2>1 DEF TftpInv, FromSession
<1>7. CASE client' = NoGet /\ filesiz' = "SYSERR"
  BY <1>1, <1>5, <1>7 DEF TftpInv, FromSession
<1> QED BY <1>1, <1>6, <1>7

\* What a session sends.
LEMMA BlockFrom ==
    ASSUME TftpAssumption, NEW s, s.port \in Nat, s.file = TheFile(s.peer), NEW n \in 1 .. Blocks
    PROVE  FromSession(Block(s, n))
<1> DEFINE d == Block(s, n)
<1>1. /\ d.to = s.peer /\ d.from = s.port /\ d.dblk = n % BlkMod /\ d.data = <<s.file, n>>
      /\ d.last <=> n = Blocks
      /\ d.empty => n = Blocks
  BY DEF Block
<1> HIDE DEF d
<1>2. /\ d.dblk = n % BlkMod /\ d.data = <<TheFile(d.to), n>>
      /\ (d.last <=> n = Blocks) /\ (d.empty => n = Blocks)
  BY <1>1, Zenon
<1>3. d.from \in Nat
  BY <1>1
<1>4. FromSession(d)
  BY <1>2, <1>3, Zenon DEF FromSession
<1> QED BY <1>4 DEF d

\* The server begins session s, and answers it with a block or an error.
Begins(s) ==
    /\ sessions' = Append(sessions, s)
    /\ \/ tocli' = tocli \cup {Block(s, 1)}
       \/ tocli' = tocli \cup {[to |-> s.peer, from |-> s.port, dblk |-> Failure]}

\* A request is from the port of its download.
LEMMA NewSessionKeeps ==
    ASSUME TftpInv, TftpCareless = {}, NewSession
    PROVE  TftpInv'
<1> DEFINE Sess == [port : Nat, peer : Nat, file : {TheFile(g) : g \in Nat}, even : BOOLEAN]
<1>0. PICK m \in tosrv, even \in BOOLEAN :
          \E file \in FileOf(m.get) :
              Begins([port |-> Len(sessions) + 1, peer |-> m.from, file |-> file, even |-> even])
  BY DEF NewSession, Begins
<1>1. PICK file \in FileOf(m.get) :
          Begins([port |-> Len(sessions) + 1, peer |-> m.from, file |-> file, even |-> even])
  BY <1>0
<1>2. PICK s : /\ s = [port |-> Len(sessions) + 1, peer |-> m.from, file |-> file, even |-> even]
               /\ Begins(s)
  BY <1>1
<1>3. /\ client' = client /\ gets' = gets /\ rcv_bufs' = rcv_bufs /\ filesiz' = filesiz
      /\ tosrv' = tosrv
  BY DEF NewSession
<1>4. m.from = m.get /\ m.from \in Nat
  BY DEF TftpInv
<1>5. file = TheFile(m.from)
  BY <1>4 DEF FileOf, TheFile
<1>6. sessions \in Seq(Sess) /\ Len(sessions) \in Nat
  BY DEF TftpInv
<1>7. s \in Sess /\ s.port \in Nat /\ s.file = TheFile(s.peer)
  BY <1>2, <1>4, <1>5, <1>6
<1>8. FromSession(Block(s, 1))
  <2>1. 1 \in 1 .. Blocks
    BY TftpAssumption
  <2> QED BY <1>7, <2>1, TftpAssumption, BlockFrom
<1>9. FromSession([to |-> s.peer, from |-> s.port, dblk |-> Failure])
  BY <1>7 DEF FromSession
<1>10. \A d \in tocli' : FromSession(d)
  BY <1>2, <1>8, <1>9 DEF TftpInv, Begins
<1>11. /\ sessions' \in Seq(Sess)
       /\ \A k \in DOMAIN sessions' : /\ sessions'[k].port \in Nat
                                      /\ sessions'[k].file = TheFile(sessions'[k].peer)
  <2>1. \A k \in DOMAIN sessions : /\ sessions[k].port \in Nat
                                   /\ sessions[k].file = TheFile(sessions[k].peer)
    BY DEF TftpInv
  <2> HIDE DEF Sess
  <2>2. /\ sessions' \in Seq(Sess) /\ DOMAIN sessions' = 1 .. Len(sessions) + 1
        /\ \A k \in 1 .. Len(sessions) : sessions'[k] = sessions[k]
        /\ sessions'[Len(sessions) + 1] = s
        /\ DOMAIN sessions = 1 .. Len(sessions)
    BY <1>2, <1>6, <1>7 DEF Begins
  <2>3. \A k \in DOMAIN sessions' : k \in DOMAIN sessions \/ k = Len(sessions) + 1
    BY <1>6, <2>2
  <2> QED BY <1>7, <2>1, <2>2, <2>3
<1>12. \A d \in tocli' : FromSession(d)'
  BY <1>10 DEF FromSession
<1> QED BY <1>3, <1>11, <1>12 DEF TftpInv, Clients

\* The server sends blocks of the file.
LEMMA SessionAnswersKeeps ==
    ASSUME TftpInv, SessionAnswers
    PROVE  TftpInv'
<1>1. PICK k \in DOMAIN sessions, n \in 1 .. Blocks-1 :
          tocli' = tocli \cup {Block(sessions[k], n + 1)}
  BY DEF SessionAnswers
<1>2. /\ client' = client /\ gets' = gets /\ rcv_bufs' = rcv_bufs /\ filesiz' = filesiz
      /\ tosrv' = tosrv /\ sessions' = sessions
  BY DEF SessionAnswers
<1>3. PICK l \in 1 .. Blocks : l = n + 1
  BY TftpAssumption
<1>4. PICK s : s = sessions[k]
  OBVIOUS
<1>5. s.port \in Nat /\ s.file = TheFile(s.peer)
  BY <1>4 DEF TftpInv
<1>6. FromSession(Block(s, l))
  BY <1>5, TftpAssumption, BlockFrom
<1>7. \A d \in tocli' : FromSession(d)
  BY <1>1, <1>3, <1>4, <1>6 DEF TftpInv
<1> QED BY <1>2, <1>7 DEF TftpInv, Clients, FromSession

\* Every step keeps the invariant of the download.
LEMMA TftpNextInv ==
    ASSUME TftpInv, TftpCareless = {}, [TftpNext]_tftpvars
    PROVE  TftpInv'
<1>1. CASE UNCHANGED tftpvars
  BY <1>1 DEF tftpvars, TftpInv, Clients, FromSession
<1> QED BY <1>1, TftpgetKeeps, TftpReceivesKeeps, TftpTimeoutKeeps, NewSessionKeeps,
           SessionAnswersKeeps DEF TftpNext

\* What a download has stored is the beginning of the file, in order and each
\* block once, and it says so only then that it has the whole file (net/tftp.c),
\* however often datagrams are lost, repeated or delayed and whichever session
\* they are from: for files of any length below the modulus of block numbers.
\* Each download has a port of its own, and the file does not change.
THEOREM TftpInOrder ==
    ASSUME TftpCareless = {}
    PROVE  TftpSpec => []FileInOrder
<1>1. TftpInit => TftpInv
  BY TftpInitInv
<1>2. TftpInv /\ [TftpNext]_tftpvars => TftpInv'
  BY TftpNextInv
<1>3. TftpInv => FileInOrder
  BY DEF TftpInv, FileInOrder, TheFile
<1> QED BY <1>1, <1>2, <1>3, PTL DEF TftpSpec
=============================================================================
