-------------------------------- MODULE Ether --------------------------------
(***************************************************************************)
(* The Ethernet interface (device/eth): two rings of descriptors shared    *)
(* with the DMA of the device, which fills and empties them at any time,   *)
(* two semaphores that count slots and frames, and an interrupt handler    *)
(* that looks for what the DMA has done.  Calls and the handler run with   *)
(* interrupts disabled; a call gives up the processor while it waits for a *)
(* semaphore.                                                              *)
(*                                                                         *)
(* A frame that goes out is its payload, one that comes in its destination;*)
(* what is left in a slot when it is free is never looked at (Noload).     *)
(* EthCareless says what the driver leaves to chance:                      *)
(*   "full"   all transmit slots are in use: the head of the ring is where *)
(*            its tail is, the handler takes the ring for empty, and       *)
(*            nobody who waits for a slot ever gets one                    *)
(*   "burst"  all receive slots are filled: the handler goes round the     *)
(*            ring and counts frames twice                                 *)
(*   "mcast"  an address is removed from a full list                       *)
(***************************************************************************)
EXTENDS SemLine, FiniteSets, FiniteSetsExt

CONSTANTS EthWriter, EthReader,     \* processes that write, that read
          Load,                     \* payloads
          devAddress, ethbcast,     \* the station, everybody
          McAddr,                   \* multicast addresses
          Noload,                   \* what a ring holds at first
          ETH_QUARK_TX_RING_SIZE,
          ETH_QUARK_RX_RING_SIZE,
          ETH_NUM_MCAST,            \* length of the list of addresses
          EthCareless

ASSUME EtherAssumption ==
    /\ {ETH_QUARK_TX_RING_SIZE, ETH_QUARK_RX_RING_SIZE, ETH_NUM_MCAST} \subseteq Nat \ {0}
    /\ {devAddress, ethbcast} \cap McAddr = {} /\ Noload \notin Load \cup McAddr
    /\ IsFiniteSet(EthWriter) /\ IsFiniteSet(EthReader)
    /\ EthCareless \subseteq {"full", "burst", "mcast"}

VARIABLES txRing, txHead, txTail, osem,
          rxRing, rxHead, rxTail, isem,
          txDma, rxDma,      \* the slot the device looks at next
          sr,                \* interrupts the device asks for
          handling,          \* what a running handler has still to look at
          ed_mca,            \* list of multicast addresses
          passall,           \* the device passes all multicast frames
          ethcall,           \* the call each process waits in
          ethgot,            \* what each has read last (history)
          wire,              \* what was sent last (history)
          overrun            \* the list was read behind its end

txvars  == <<txRing, txHead, txTail, osem>>
rxvars  == <<rxRing, rxHead, rxTail, isem>>
mcvars  == <<ed_mca, passall, overrun>>
intvars == <<sr, handling>>
ethvars == <<txvars, rxvars, txDma, rxDma, intvars, mcvars, ethcall, ethgot, wire>>

TxN == ETH_QUARK_TX_RING_SIZE
RxN == ETH_QUARK_RX_RING_SIZE
Address == {devAddress, ethbcast} \cup McAddr
EthProc == EthWriter \cup EthReader
EthIdle == [op |-> "none"]

\* ethinit: no transmit descriptor and every receive descriptor is the DMA's.
EtherInit ==
    /\ txRing = [i \in 0 .. TxN-1 |-> [own |-> FALSE, load |-> Noload]]
    /\ rxRing = [i \in 0 .. RxN-1 |-> [own |-> TRUE, dst |-> Noload]]
    /\ txHead = 0 /\ txTail = 0 /\ osem = NewSem(TxN)
    /\ rxHead = 0 /\ rxTail = 0 /\ isem = NewSem(0)
    /\ txDma = 0 /\ rxDma = 0 /\ sr = {} /\ handling = {}
    /\ ed_mca = <<>> /\ passall = FALSE /\ overrun = FALSE
    /\ ethcall = [p \in EthProc |-> EthIdle]
    /\ ethgot = [p \in EthReader |-> Noload] /\ wire = Noload

\* Calls are made while no handler is running.
EthFree(p) == handling = {} /\ ethcall[p] = EthIdle
EthGoesOn(p, op, sem) == handling = {} /\ ethcall[p].op = op /\ p \notin InLine(sem)

-----------------------------------------------------------------------------
\* ethwrite.  Nothing is here for the writer that has waited: SlotsComeBack
\* says that none is ever let in.
Ethwrite(p, load) ==
    /\ EthFree(p)
    /\ osem' = SemWait(osem, p)
    /\ \/ /\ p \in InLine(osem')
          /\ ethcall' = [ethcall EXCEPT ![p] = [op |-> "write"]]
          /\ UNCHANGED <<txRing, txTail>>
       \/ /\ p \notin InLine(osem')
          /\ "full" \in EthCareless \/ osem.count > 1
          /\ txRing' = [txRing EXCEPT ![txTail] = [own |-> TRUE, load |-> load]]
          /\ txTail' = (txTail + 1) % TxN
          /\ UNCHANGED ethcall
    /\ UNCHANGED <<txHead, rxvars, txDma, rxDma, intvars, mcvars, ethgot, wire>>

-----------------------------------------------------------------------------
\* ethread: frames for others are given back to the DMA until there is one
\* for us or there are no more.

RxSlot(k) == (rxHead + k) % RxN
ValidAddr(a) == a \in {devAddress, ethbcast} \cup Range(ed_mca)

\* Mutant of GivenBack: only the frame that is returned is given back.
GivenBackLast(n) == {RxSlot(n-1)}

\* The descriptors of the first n frames.
GivenBack(n) == {RxSlot(k) : k \in 0 .. n-1}

\* The reader has the first frame, and units more are counted in isem.
ReadFrom(p, units, sem) ==
    LET valid == {k \in 0 .. units : ValidAddr(rxRing[RxSlot(k)].dst)}
        n     == IF valid = {} THEN units + 1 ELSE Min(valid) + 1
    IN  /\ rxHead' = RxSlot(n)
        /\ rxRing' = [i \in DOMAIN rxRing |->
                         IF i \in GivenBack(n) THEN [own |-> TRUE, dst |-> Noload] ELSE rxRing[i]]
        /\ isem'    = IF valid = {} THEN SemWait([sem EXCEPT !.count = @ - units], p)
                                    ELSE [sem EXCEPT !.count = @ - (n - 1)]
        /\ ethgot'  = IF valid = {} THEN ethgot
                                    ELSE [ethgot EXCEPT ![p] = rxRing[RxSlot(n-1)].dst]
        /\ ethcall' = [ethcall EXCEPT ![p] = IF valid = {} THEN [op |-> "read"] ELSE EthIdle]

Ethread(p) ==
    /\ EthFree(p)
    /\ \/ /\ isem.count > 0
          /\ ReadFrom(p, isem.count - 1, [isem EXCEPT !.count = @ - 1])
       \/ /\ isem.count <= 0
          /\ isem'    = SemWait(isem, p)
          /\ ethcall' = [ethcall EXCEPT ![p] = [op |-> "read"]]
          /\ UNCHANGED <<rxRing, rxHead, ethgot>>
    /\ UNCHANGED <<rxTail, txvars, txDma, rxDma, intvars, mcvars, wire>>

EthreadEnd(p) ==
    /\ EthGoesOn(p, "read", isem)
    /\ ReadFrom(p, Units(isem), isem)
    /\ UNCHANGED <<rxTail, txvars, txDma, rxDma, intvars, mcvars, wire>>

-----------------------------------------------------------------------------
\* The device, as the driver relies on it: frames go out in order and are
\* dropped on the way in if there is no descriptor; it asks for an interrupt
\* after each.

TxDma ==
    /\ txRing[txDma].own
    /\ wire'   = txRing[txDma].load
    /\ txRing' = [txRing EXCEPT ![txDma] = [own |-> FALSE, load |-> Noload]]
    /\ txDma'  = (txDma + 1) % TxN
    /\ sr'     = sr \cup {"TI"}
    /\ UNCHANGED <<txHead, txTail, osem, rxvars, rxDma, handling, mcvars, ethcall, ethgot>>

RxDma(dst) ==
    /\ dst \in McAddr => passall
    /\ rxRing[rxDma].own
    /\ "burst" \in EthCareless \/ \E i \in DOMAIN rxRing : i # rxDma /\ rxRing[i].own
    /\ rxRing' = [rxRing EXCEPT ![rxDma] = [own |-> FALSE, dst |-> dst]]
    /\ rxDma'  = (rxDma + 1) % RxN
    /\ sr'     = sr \cup {"RI"}
    /\ UNCHANGED <<rxHead, rxTail, isem, txvars, txDma, handling, mcvars, ethcall, ethgot,
                   wire>>

-----------------------------------------------------------------------------
\* ethhandler.

Signaln(sem, n) ==
    [count |-> sem.count + n, line |-> SubSeq(sem.line, n + 1, Len(sem.line))]

\* What is read from the status register is written back, which clears it,
\* before the rings are looked at.
EthHandler ==
    /\ handling = {} /\ sr # {}
    /\ handling' = sr /\ sr' = {}
    /\ UNCHANGED <<txvars, rxvars, txDma, rxDma, mcvars, ethcall, ethgot, wire>>

\* Mutant of TxDone: the slots that the DMA still has are counted as well.
TxDoneAll == (txTail - txHead) % TxN

\* Slots from the head on that the DMA has done with, as far as the tail.
TxDone ==
    LET used == (txTail - txHead) % TxN
    IN  CHOOSE n \in 0 .. used :
           /\ \A k \in 0 .. n-1 : ~txRing[(txHead + k) % TxN].own
           /\ n < used => txRing[(txHead + n) % TxN].own

TxScan ==
    /\ "TI" \in handling
    /\ txHead'   = (txHead + TxDone) % TxN
    /\ osem'     = Signaln(osem, TxDone)
    /\ handling' = handling \ {"TI"}
    /\ UNCHANGED <<txRing, txTail, rxvars, txDma, rxDma, sr, mcvars, ethcall, ethgot, wire>>

\* Slots from the tail on that the DMA has filled; one more than there are
\* when all of them are.
RxDone ==
    IF \A i \in DOMAIN rxRing : ~rxRing[i].own THEN RxN + 1
    ELSE CHOOSE n \in 0 .. RxN :
            /\ \A k \in 0 .. n-1 : ~rxRing[(rxTail + k) % RxN].own
            /\ rxRing[(rxTail + n) % RxN].own

RxScan ==
    /\ handling = {"RI"} /\ handling' = {}
    /\ rxTail' = (rxTail + RxDone) % RxN
    /\ isem'   = Signaln(isem, RxDone)
    /\ UNCHANGED <<rxRing, rxHead, txvars, txDma, rxDma, sr, mcvars, ethcall, ethgot, wire>>

-----------------------------------------------------------------------------
\* ethmcast_add and ethmcast_remove, through ethcontrol.  Addresses that have
\* been added once are passed by the device for good.

EthmcastAdd(a) ==
    /\ handling = {}
    /\ passall' = TRUE
    /\ ed_mca'  = IF Len(ed_mca) < ETH_NUM_MCAST THEN Append(ed_mca, a) ELSE ed_mca
    /\ UNCHANGED <<txvars, rxvars, txDma, rxDma, intvars, overrun, ethcall, ethgot, wire>>

\* The first entry of the address; the one behind the last is moved as well.
EthmcastRemove(a) ==
    /\ handling = {}
    /\ a \in Range(ed_mca)
    /\ "mcast" \in EthCareless \/ Len(ed_mca) < ETH_NUM_MCAST
    /\ ed_mca'  = RemoveFirst(ed_mca, a)
    /\ overrun' = (Len(ed_mca) = ETH_NUM_MCAST)
    /\ UNCHANGED <<txvars, rxvars, txDma, rxDma, intvars, passall, ethcall, ethgot, wire>>

EthWrites    == \E p \in EthWriter, load \in Load : Ethwrite(p, load)
EthReads     == \E p \in EthReader : Ethread(p) \/ EthreadEnd(p)
EthArrivals  == \E dst \in Address : RxDma(dst)
EthInterrupt == EthHandler \/ TxScan \/ RxScan
EthGroups    == \E a \in McAddr : EthmcastAdd(a) \/ EthmcastRemove(a)

EtherNext == EthWrites \/ EthReads \/ TxDma \/ EthArrivals \/ EthInterrupt \/ EthGroups

EtherSpec == EtherInit /\ [][EtherNext]_ethvars

-----------------------------------------------------------------------------
EthLetIn(op, sem) == {p \in EthProc : ethcall[p].op = op /\ p \notin InLine(sem)}

\* A unit of osem is a transmit slot whose frame has left, a unit of isem a
\* frame that nobody has read, and none of either is forgotten: ethhandler.c:34
\* takes the interrupt back before it looks at the rings, so that what happens
\* while it looks causes another one.  This holds until all transmit slots are
\* taken at once (ethwrite.c:26 waits "for an empty slot in the transmit
\* descriptor ring"): then nothing comes back, and nobody who waits is let in.
SlotsComeBack ==
    /\ EthLetIn("write", osem) = {}
    /\ Units(osem) = 0 => txHead = txTail
    /\ Units(osem) > 0 =>
          /\ Units(osem) = TxN - ((txTail - txHead) % TxN)
          /\ handling = {} /\ "TI" \notin sr => txHead = txDma
    /\ Units(isem) + Cardinality(EthLetIn("read", isem)) = (rxTail - rxHead) % RxN
    /\ handling = {} /\ "RI" \notin sr => rxTail = rxDma
    /\ ~overrun

\* To its users the interface is a wire: frames leave and are read in order,
\* whatever the rings, the DMA and the handler do in between.
TxPending == Cardinality({i \in DOMAIN txRing : txRing[i].own})
RxPending == Cardinality({i \in DOMAIN rxRing : ~rxRing[i].own})

OutFrames == [k \in 1 .. TxPending |-> txRing[(txDma + (k - 1)) % TxN].load]
InFrames  == [k \in 1 .. RxPending |-> rxRing[RxSlot(k-1)].dst]

W == INSTANCE Wire WITH
        Client  <- EthReader,
        Payload <- Load,
        Address <- Address,
        Group   <- McAddr,
        Nothing <- Noload,
        out     <- OutFrames,
        sent    <- wire,
        in      <- InFrames,
        got     <- ethgot,
        joined  <- Range(ed_mca)

WireRefined == W!WireSpec
=============================================================================
