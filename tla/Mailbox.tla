------------------------------- MODULE Mailbox -------------------------------
(***************************************************************************)
(* The one-message buffer of a process, as the protocols use it: clear it, *)
(* wait with recvtime, and go on with the message or a timeout.  A message *)
(* that comes after the timer has expired and before the process has run   *)
(* still counts (system/recvtime.c:36), so that the outcome is decided     *)
(* when the process runs: if there is a message it is that, else TIMEOUT,  *)
(* at any time.                                                            *)
(*                                                                         *)
(* NetCareless says what the protocols leave to chance:                    *)
(*   "stray"    a message of another process (kill sends one to the parent)*)
(*              reaches a process that waits for an address                *)
(*   "reuse"    a process that was killed in a call has a successor with   *)
(*              the same id                                                *)
(*   "evict"    an entry of the ARP cache is given away between the moment *)
(*              it is resolved and the moment its process runs             *)
(*   "shared"   two processes receive from one UDP slot                    *)
(*   "release"  a UDP slot is released under a process that receives       *)
(***************************************************************************)
CONSTANTS NetProc,      \* processes that use the network
          NetCareless

ASSUME MailboxAssumption ==
    NetCareless \subseteq {"stray", "reuse", "evict", "shared", "release"}

VARIABLES prmsg,    \* "none", "OK" from a protocol, or "other" from elsewhere
          netcall,  \* the call each process waits in
          killed    \* the processes that have been killed

mailvars == <<prmsg, netcall, killed>>

NetIdle   == [at |-> "none"]
NetFree(p) == p \notin killed /\ netcall[p] = NetIdle
InArp(p, slot) == netcall[p].at = "arp" /\ netcall[p].slot = slot
InUdp(p, slot) == netcall[p].at = "udp" /\ netcall[p].slot = slot

MailboxInit ==
    /\ prmsg   = [p \in NetProc |-> "none"]
    /\ netcall = [p \in NetProc |-> NetIdle]
    /\ killed  = {}

\* What recvtime returns when the process runs.
Recvd(p) == IF prmsg[p] = "none" THEN "TIMEOUT" ELSE prmsg[p]

\* send(p, OK): refused when there is a message, or no such process.
Informed(p) ==
    IF p \in NetProc \ killed /\ prmsg[p] = "none" THEN [prmsg EXCEPT ![p] = "OK"] ELSE prmsg

Stray(p) ==
    /\ p \notin killed /\ prmsg[p] = "none"
    /\ netcall[p].at = "arp" => "stray" \in NetCareless
    /\ prmsg' = [prmsg EXCEPT ![p] = "other"]
    /\ UNCHANGED <<netcall, killed>>

\* A killed process leaves what it has written in the tables.
KillNet(p) ==
    /\ p \notin killed
    /\ netcall' = [netcall EXCEPT ![p] = NetIdle]
    /\ prmsg'   = [prmsg EXCEPT ![p] = "none"]
    /\ killed'  = IF "reuse" \in NetCareless THEN killed ELSE killed \cup {p}
=============================================================================
