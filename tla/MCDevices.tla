------------------------------ MODULE MCDevices ------------------------------
(***************************************************************************)
(* The remote disk, the Ethernet interface and the buffers of the stack on *)
(* small instances, in parts so that the state space is a sum.  For the    *)
(* disk, "net" has losses, timeouts and late answers and neither           *)
(* synchronisation nor deletion, and "calls" every call and a network that *)
(* delivers.                                                               *)
(* For the interface, "rings" has both rings and frames for the station    *)
(* only, and "groups" all destinations and no writer.  "stack" has the     *)
(* buffers.                                                                *)
(***************************************************************************)
EXTENDS RemoteDisk, Ether, Stack, TLC

VARIABLE part

MCInit ==
    /\ RdsInit /\ EtherInit /\ StackInit
    /\ part \in {"net", "calls", "rings", "groups", "stack"}
    /\ part \in {"rings", "groups", "stack"} => msgblk = 0

DiskCalls ==
    \E p \in User :
       \/ RdsopenBegin(p) \/ RdsopenEnd(p) \/ Rdsclose(p)
       \/ \E blk \in BLK : Rdsread(p, blk) \/ \E v \in Data : Rdswrite(p, blk, v)
       \/ RequestEnd(p) \/ RdsreadEnd(p)

\* What only the part "calls" has.
OtherCalls ==
    \E p \in User : \/ RdsSync(p) \/ RdsSyncEnd(p)
                    \/ RdsopenBadId(p) \/ RdsDelete(p) \/ RdsDeleteEnd(p)

DiskPart ==
    \/ DiskCalls \/ CommTakes \/ CommReceives \/ Server
    \/ part = "net" /\ (CommTimeout \/ Lose)
    \/ part = "calls" /\ OtherCalls

EtherPart ==
    \/ EthReads \/ TxDma \/ EthInterrupt
    \/ part = "rings" /\ (EthWrites \/ RxDma(devAddress))
    \/ part = "groups" /\ (EthArrivals \/ EthGroups)

MCNext ==
    /\ UNCHANGED part
    /\ \/ part \in {"net", "calls"} /\ DiskPart /\ UNCHANGED <<ethvars, stackvars>>
       \/ part \in {"rings", "groups"} /\ EtherPart /\ UNCHANGED <<rdsvars, stackvars>>
       \/ part = "stack" /\ StackNext /\ UNCHANGED <<rdsvars, ethvars>>

MCSpec == MCInit /\ [][MCNext]_<<rdsvars, ethvars, stackvars, part>>

\* The users of the disk are those of the interface.
MCSymmetry == Permutations(User) \cup Permutations(Data)
=============================================================================
