-------------------------------- MODULE MCNet --------------------------------
(***************************************************************************)
(* The network side of the kernel on small instances: address resolution,  *)
(* UDP, echo replies, downloads, and the remote files.                     *)
(* Address resolution and UDP share the message buffers of the processes   *)
(* (udp_send waits for an address before udp_recv waits for a packet): the *)
(* part "net" has both of them, with one station.  Alone they have more    *)
(* stations, and the others, whose messages are their own, are parts of    *)
(* their own; a behaviour works with one part, so that the state space is  *)
(* their sum.                                                              *)
(***************************************************************************)
EXTENDS Arp, Icmp, Tftp, RemoteFile, TLC

VARIABLE part    \* the one this behaviour works with

netvars == <<mailvars, arpvars, udptab, icmptab, tftpvars, rfilevars, part>>

MCInit ==
    /\ MailboxInit /\ ArpInit /\ UdpInit /\ IcmpInit /\ TftpInit /\ RfInit
    /\ part \in {"arp", "udp", "net", "icmp", "tftp", "files"}

\* Bound on "net": packets of one station, with one hardware address.
OneStation ==
    /\ Cardinality({a \in IPAddr : heard'[a] # None \/ \E s \in Slot : arpcache'[s].arpaddr = a}) <= 1
    /\ \A a \in IPAddr : heard[a] # None => heard'[a] = heard[a]

NetNext ==
    \/ /\ part \in {"arp", "net"} /\ ArpNext /\ (part = "net" => OneStation)
       /\ UNCHANGED <<udptab, icmptab>>
    \/ part \in {"udp", "net"} /\ UdpNext /\ UNCHANGED <<arpvars, icmptab>>
    \/ part = "icmp" /\ IcmpNext /\ UNCHANGED <<arpvars, udptab>>
    \/ /\ part \in {"arp", "udp", "net", "icmp"}
       /\ \E p \in NetProc : Stray(p) \/ KillNet(p)
       /\ UNCHANGED <<arpvars, udptab, icmptab>>

tabvars == <<mailvars, arpvars, udptab, icmptab>>

MCNext ==
    /\ UNCHANGED part
    /\ \/ NetNext /\ UNCHANGED <<tftpvars, rfilevars>>
       \/ part = "files" /\ RfNext /\ UNCHANGED <<tabvars, tftpvars>>
       \/ part = "tftp" /\ TftpNext /\ UNCHANGED <<tabvars, rfilevars>>

MCSpec == MCInit /\ [][MCNext]_netvars

\* The same model values stand for the users of the network and of the files.
MCSymmetry == Permutations(NetProc) \cup Permutations(IPAddr) \cup Permutations(HwAddr)

\* No step reads what earlier requests have returned.
InView == <<tabvars, tftpvars, rfltab, rf_mutex, rf_seq, rfcall, exch, rfnet, gone, part>>
=============================================================================
