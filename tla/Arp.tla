--------------------------------- MODULE Arp ---------------------------------
(***************************************************************************)
(* Address resolution (net/arp.c): a cache of stations and their hardware  *)
(* addresses, filled by the packets that arrive, and the processes that    *)
(* wait for an entry.  All of it runs with interrupts disabled; a process  *)
(* gives up the processor only while it waits for a message, so that the   *)
(* cache may be another one when it goes on.                               *)
(*                                                                         *)
(* Left out: broadcast addresses, which need no cache, and a message with  *)
(* the value of SYSERR, which nobody sends.                                *)
(***************************************************************************)
EXTENDS Mailbox, Integers, FiniteSets, FiniteSetsExt

CONSTANTS ARP_SIZ,        \* entries of the cache
          ARP_RETRY,      \* requests sent for an address
          IPAddr,         \* addresses of stations
          HwAddr,         \* hardware addresses
          None            \* what memset leaves in an entry

ASSUME ArpAssumption ==
    /\ ARP_SIZ \in Nat \ {0} /\ ARP_RETRY \in Nat \ {0}
    /\ None \notin IPAddr \cup HwAddr \cup NetProc

VARIABLES arpcache,
          arpret,   \* what arp_resolve has returned to each process last
          heard     \* the last hardware address heard from each station (history)

arpvars == <<arpcache, arpret, heard>>

Slot == 1 .. ARP_SIZ

Cleared == [arstate |-> "AR_FREE", arpaddr |-> None, arpid |-> None, arhaddr |-> None]

\* arp_init leaves out the first entry, which the loader has cleared.
ArpInit ==
    /\ arpcache = [s \in Slot |-> Cleared]
    /\ arpret   = [p \in NetProc |-> <<None, None>>]
    /\ heard    = [a \in IPAddr |-> None]

In(state) == {s \in Slot : arpcache[s].arstate = state}
EntriesFor(a) == {s \in Slot : arpcache[s].arstate # "AR_FREE" /\ arpcache[s].arpaddr = a}

\* arp_alloc: the first free entry, else the first that is resolved; nothing
\* if all are pending.
ArpAlloc ==
    CASE In("AR_FREE") # {}                               -> {Min(In("AR_FREE"))}
      [] In("AR_FREE") = {} /\ In("AR_RESOLVED") # {}     -> {Min(In("AR_RESOLVED"))}
      [] In("AR_FREE") = {} /\ In("AR_RESOLVED") = {}     -> {}

GivenAway(s) == "evict" \in NetCareless \/ \A q \in NetProc : ~InArp(q, s)

ArpResolve(p, a) ==
    /\ NetFree(p)
    /\ \/ /\ EntriesFor(a) \cap In("AR_RESOLVED") # {}
          /\ arpret' = [arpret EXCEPT ![p] = <<a, arpcache[Min(EntriesFor(a))].arhaddr>>]
          /\ UNCHANGED <<arpcache, netcall, prmsg>>
       \/ /\ EntriesFor(a) = {}
          /\ \E s \in ArpAlloc :
                /\ GivenAway(s)
                /\ arpcache' = [arpcache EXCEPT ![s] = [arstate |-> "AR_PENDING", arpaddr |-> a,
                                                        arpid |-> p, arhaddr |-> None]]
                /\ netcall'  = [netcall EXCEPT ![p] = [at |-> "arp", slot |-> s, addr |-> a,
                                                       sent |-> 1]]
          /\ prmsg' = [prmsg EXCEPT ![p] = "none"]
          /\ UNCHANGED arpret
    /\ UNCHANGED <<heard, killed>>

\* Mutant of ArpResolveEnd: the entry stays pending when nobody has answered.
ArpResolveEndPending(p) ==
    /\ netcall[p].at = "arp"
    /\ \/ /\ Recvd(p) = "TIMEOUT" /\ netcall[p].sent < ARP_RETRY
          /\ netcall' = [netcall EXCEPT ![p].sent = @ + 1]
          /\ UNCHANGED arpret
       \/ /\ Recvd(p) = "TIMEOUT" /\ netcall[p].sent = ARP_RETRY
          /\ netcall'  = [netcall EXCEPT ![p] = NetIdle]
          /\ UNCHANGED arpret
       \/ /\ Recvd(p) # "TIMEOUT"
          /\ arpret'  = [arpret EXCEPT ![p] = <<netcall[p].addr, arpcache[netcall[p].slot].arhaddr>>]
          /\ netcall' = [netcall EXCEPT ![p] = NetIdle]
    /\ prmsg' = [prmsg EXCEPT ![p] = "none"]
    /\ UNCHANGED <<arpcache, heard, killed>>

\* After recvtime: the request is sent again, or the entry is invalidated, or
\* what the entry holds now is the answer.
ArpResolveEnd(p) ==
    /\ netcall[p].at = "arp"
    /\ \/ /\ Recvd(p) = "TIMEOUT" /\ netcall[p].sent < ARP_RETRY
          /\ netcall' = [netcall EXCEPT ![p].sent = @ + 1]
          /\ UNCHANGED <<arpcache, arpret>>
       \/ /\ Recvd(p) = "TIMEOUT" /\ netcall[p].sent = ARP_RETRY
          /\ arpcache' = [arpcache EXCEPT ![netcall[p].slot].arstate = "AR_FREE"]
          /\ netcall'  = [netcall EXCEPT ![p] = NetIdle]
          /\ UNCHANGED arpret
       \/ /\ Recvd(p) # "TIMEOUT"
          /\ arpret'  = [arpret EXCEPT ![p] = <<netcall[p].addr, arpcache[netcall[p].slot].arhaddr>>]
          /\ netcall' = [netcall EXCEPT ![p] = NetIdle]
          /\ UNCHANGED arpcache
    /\ prmsg' = [prmsg EXCEPT ![p] = "none"]
    /\ UNCHANGED <<heard, killed>>

\* Mutant of Heard: only an entry somebody waits for is brought up to date.
HeardPending(e, h) ==
    IF e.arstate = "AR_PENDING" THEN [e EXCEPT !.arhaddr = h, !.arstate = "AR_RESOLVED"] ELSE e

\* The entry of a station that has sent a packet.
Heard(e, h) == [e EXCEPT !.arhaddr = h, !.arstate = "AR_RESOLVED"]

\* arp_in: a packet of station a with hardware address h, to us or not.
ArpIn(a, h, request) ==
    /\ heard' = [heard EXCEPT ![a] = h]
    /\ \/ \E s \in EntriesFor(a) :
             /\ arpcache' = [arpcache EXCEPT ![s] = Heard(@, h)]
             /\ prmsg'    = IF arpcache[s].arstate = "AR_PENDING" THEN Informed(arpcache[s].arpid)
                                                                 ELSE prmsg
       \/ /\ EntriesFor(a) = {} /\ request
          /\ \E s \in ArpAlloc :
                /\ GivenAway(s)
                /\ arpcache' = [arpcache EXCEPT ![s] = [Cleared EXCEPT
                                   !.arpaddr = a, !.arhaddr = h, !.arstate = "AR_RESOLVED"]]
          /\ UNCHANGED prmsg
       \/ /\ EntriesFor(a) = {} /\ (request => ArpAlloc = {})
          /\ UNCHANGED <<arpcache, prmsg>>
    /\ UNCHANGED <<netcall, killed, arpret>>

ArpNext ==
    \/ \E p \in NetProc : ArpResolveEnd(p) \/ \E a \in IPAddr : ArpResolve(p, a)
    \/ \E a \in IPAddr, h \in HwAddr, request \in BOOLEAN : ArpIn(a, h, request)

-----------------------------------------------------------------------------
\* A station has at most one entry, and what a resolved entry says is the last
\* that was heard from the station, whoever asked and however entries were
\* given away since.
CacheIsCurrent ==
    /\ \A s, t \in Slot : s # t /\ arpcache[s].arstate # "AR_FREE" /\ arpcache[t].arstate # "AR_FREE"
                            => arpcache[s].arpaddr # arpcache[t].arpaddr
    /\ \A s \in In("AR_RESOLVED") : arpcache[s].arhaddr = heard[arpcache[s].arpaddr]

\* A pending entry has a process that waits for it and will free it: while it
\* is pending nobody else may ask for the address (arp.c:76).  The exception
\* is a process that was killed on the way; only a packet of the station frees
\* the address then.
PendingHasWaiter ==
    \A s \in In("AR_PENDING") :
        arpcache[s].arpid \in killed \/ InArp(arpcache[s].arpid, s)

\* The cache as a whole: no answer that is out of date, and no entry that is
\* pending for nobody, whatever packets, timeouts and kills come between.
ArpCacheSound == CacheIsCurrent /\ PendingHasWaiter

NB == INSTANCE Neighbours WITH
        Asker    <- NetProc,
        Station  <- IPAddr,
        Hardware <- HwAddr,
        Nobody   <- None,
        given    <- heard,
        asking   <- [p \in NetProc |-> IF netcall[p].at = "arp" THEN netcall[p].addr ELSE None],
        answer   <- arpret

NeighboursRefined == NB!NbSpec
=============================================================================
