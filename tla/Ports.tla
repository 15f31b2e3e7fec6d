-------------------------------- MODULE Ports --------------------------------
(***************************************************************************)
(* Ports: bounded message queues between processes (system/pt*.c).         *)
(*                                                                         *)
(* A port has one semaphore that counts free places and one that counts    *)
(* messages; the nodes that hold messages come from one list for all       *)
(* ports.  Calls run with interrupts disabled, so each is one action up to *)
(* where it may switch to another process: in wait, in the function that   *)
(* disposes of a message, and in the two calls of semreset or semdelete.   *)
(* A switch is allowed there whether or not somebody is released.          *)
(***************************************************************************)
EXTENDS SemLine, FiniteSets, FiniteSetsExt

CONSTANTS Proc,        \* processes that use ports
          NPORTS,      \* entries of the port table
          PT_MSGS,     \* message nodes in the system
          Msgs, NoMsg, \* messages, and the value for none
          MaxCounts,   \* sizes given to ptcreate
          MaxSeq,      \* bound on ptseq: how often a port is created or cleared
          PortVictims  \* the calls in which a process may be killed

ASSUME PortsAssumption ==
    /\ NPORTS \in Nat \ {0} /\ PT_MSGS \in Nat /\ MaxSeq \in Nat
    /\ IsFiniteSet(Proc)
    /\ MaxCounts \subseteq Nat /\ NoMsg \notin Msgs
    /\ PortVictims \subseteq {"send", "recv", "clear"}

VARIABLES porttab,   \* the port table
          ptfree,    \* number of nodes on the free list
          ptnextid,  \* where ptcreate starts to search
          ptcall,    \* what each process is doing in a call
          received,  \* what ptrecv returned last, per process
          panicked   \* the system has run out of nodes

portvars == <<porttab, ptfree, ptnextid, ptcall, received, panicked>>

Port == 0 .. NPORTS-1
Gone == [op |-> "gone"]
Idle == [op |-> "idle"]
Call(op, i, seq, msg)     == [op |-> op, port |-> i, seq |-> seq, msg |-> msg]
Clear(op, i, newstate)    == [op |-> op, port |-> i, newstate |-> newstate]

InCall(p)   == ptcall[p].op \in {"send", "recv"}
Clearing(p) == ptcall[p].op \in {"dispose", "semreset1", "semreset2"}

\* The process has been released, by a signal or because its port was cleared.
Released(p) ==
    /\ InCall(p)
    /\ LET pt == porttab[ptcall[p].port]
       IN  p \notin InLine(pt.ssem) \cup InLine(pt.rsem)

\* The test after wait: has the port been cleared since the call began?
Outdated(p) == porttab[ptcall[p].port].ptstate # "PT_ALLOC"
               \/ porttab[ptcall[p].port].ptseq # ptcall[p].seq

-----------------------------------------------------------------------------
\* ptinit
PortsInit ==
    /\ porttab  = [i \in Port |-> [ptstate |-> "PT_FREE", ptseq |-> 0, ptmaxcnt |-> 0,
                                   msgs |-> <<>>, ssem |-> NewSem(0), rsem |-> NewSem(0)]]
    /\ ptfree   = PT_MSGS
    /\ ptnextid = 0
    /\ ptcall   = [p \in Proc |-> Idle]
    /\ received = [p \in Proc |-> NoMsg]
    /\ panicked = FALSE

PortCall(p) == ~panicked /\ ptcall[p] = Idle

FreePorts == {k \in 0 .. NPORTS-1 :
                porttab[(ptnextid + k) % NPORTS].ptstate = "PT_FREE"}

\* Mutant of Created: the list of the entry's earlier life stays.
CreatedKept(pt, count) ==
    [pt EXCEPT !.ptstate = "PT_ALLOC", !.ptseq = @ + 1, !.ptmaxcnt = count,
               !.ssem = NewSem(count), !.rsem = NewSem(0)]

Created(pt, count) ==
    [ptstate |-> "PT_ALLOC", ptseq |-> pt.ptseq + 1, ptmaxcnt |-> count,
     msgs |-> <<>>, ssem |-> NewSem(count), rsem |-> NewSem(0)]

Ptcreate(p, count) ==
    /\ PortCall(p)
    /\ FreePorts # {}
    /\ LET i == (ptnextid + Min(FreePorts)) % NPORTS
       IN  /\ porttab[i].ptseq < MaxSeq
           /\ porttab'  = [porttab EXCEPT ![i] = Created(@, count)]
           /\ ptnextid' = (i + 1) % NPORTS
    /\ UNCHANGED <<ptfree, ptcall, received, panicked>>

\* The rest of ptsend, once there is a place: pt is the port after the wait.
Deposit(p, i, pt, msg) ==
    \/ /\ ptfree = 0
       /\ panicked' = TRUE
       /\ porttab'  = [porttab EXCEPT ![i] = pt]
       /\ UNCHANGED <<ptfree, ptcall>>
    \/ /\ ptfree > 0
       /\ ptfree'  = ptfree - 1
       /\ porttab' = [porttab EXCEPT ![i] = [pt EXCEPT !.msgs = Append(@, msg),
                                                       !.rsem = SemSignal(@)]]
       /\ ptcall'  = [ptcall EXCEPT ![p] = Idle]
       /\ UNCHANGED panicked

Ptsend(p, i, msg) ==
    /\ PortCall(p)
    /\ porttab[i].ptstate = "PT_ALLOC"
    /\ LET pt == [porttab[i] EXCEPT !.ssem = SemWait(@, p)]
       IN  \/ /\ p \in InLine(pt.ssem)
              /\ porttab' = [porttab EXCEPT ![i] = pt]
              /\ ptcall'  = [ptcall EXCEPT ![p] = Call("send", i, pt.ptseq, msg)]
              /\ UNCHANGED <<ptfree, panicked>>
           \/ /\ p \notin InLine(pt.ssem)
              /\ Deposit(p, i, pt, msg)
    /\ UNCHANGED <<ptnextid, received>>

\* Mutant of PtsendEnd: only the state of the port is looked at.
PtsendEndUnseen(p) ==
    /\ ~panicked /\ ptcall[p].op = "send" /\ Released(p)
    /\ \/ /\ porttab[ptcall[p].port].ptstate # "PT_ALLOC"
          /\ ptcall' = [ptcall EXCEPT ![p] = Idle]
          /\ UNCHANGED <<porttab, ptfree, panicked>>
       \/ /\ porttab[ptcall[p].port].ptstate = "PT_ALLOC"
          /\ Deposit(p, ptcall[p].port, porttab[ptcall[p].port], ptcall[p].msg)
    /\ UNCHANGED <<ptnextid, received>>

\* ptsend goes on after its wait; it returns SYSERR if the port was cleared.
PtsendEnd(p) ==
    /\ ~panicked /\ ptcall[p].op = "send" /\ Released(p)
    /\ \/ /\ Outdated(p)
          /\ ptcall' = [ptcall EXCEPT ![p] = Idle]
          /\ UNCHANGED <<porttab, ptfree, panicked>>
       \/ /\ ~Outdated(p)
          /\ Deposit(p, ptcall[p].port, porttab[ptcall[p].port], ptcall[p].msg)
    /\ UNCHANGED <<ptnextid, received>>

\* The rest of ptrecv, once there is a message.
Take(p, i, pt) ==
    /\ received' = [received EXCEPT ![p] = Head(pt.msgs)]
    /\ porttab'  = [porttab EXCEPT ![i] = [pt EXCEPT !.msgs = Tail(@),
                                                     !.ssem = SemSignal(@)]]
    /\ ptfree'   = ptfree + 1
    /\ ptcall'   = [ptcall EXCEPT ![p] = Idle]

Ptrecv(p, i) ==
    /\ PortCall(p)
    /\ porttab[i].ptstate = "PT_ALLOC"
    /\ LET pt == [porttab[i] EXCEPT !.rsem = SemWait(@, p)]
       IN  \/ /\ p \in InLine(pt.rsem)
              /\ porttab' = [porttab EXCEPT ![i] = pt]
              /\ ptcall'  = [ptcall EXCEPT ![p] = Call("recv", i, pt.ptseq, NoMsg)]
              /\ UNCHANGED <<ptfree, received>>
           \/ /\ p \notin InLine(pt.rsem)
              /\ Take(p, i, pt)
    /\ UNCHANGED <<ptnextid, panicked>>

PtrecvEnd(p) ==
    /\ ~panicked /\ ptcall[p].op = "recv" /\ Released(p)
    /\ \/ /\ Outdated(p)
          /\ ptcall' = [ptcall EXCEPT ![p] = Idle]
          /\ UNCHANGED <<porttab, ptfree, received>>
       \/ /\ ~Outdated(p)
          /\ Take(p, ptcall[p].port, porttab[ptcall[p].port])
    /\ UNCHANGED <<ptnextid, panicked>>

-----------------------------------------------------------------------------
\* ptreset and ptdelete, through _ptclear.

\* Mutant of Limbo: the sequence number is left to ptcreate.
LimboSameSeq(pt) == [pt EXCEPT !.ptstate = "PT_LIMBO"]

Limbo(pt) == [pt EXCEPT !.ptstate = "PT_LIMBO", !.ptseq = @ + 1]

Ptclear(p, i, newstate) ==
    /\ PortCall(p)
    /\ porttab[i].ptstate = "PT_ALLOC"
    /\ porttab[i].ptseq < MaxSeq
    /\ porttab' = [porttab EXCEPT ![i] = Limbo(@)]
    /\ ptcall'  = [ptcall EXCEPT ![p] = Clear("dispose", i, newstate)]
    /\ UNCHANGED <<ptfree, ptnextid, received, panicked>>

Ptreset(p, i)  == Ptclear(p, i, "PT_ALLOC")
Ptdelete(p, i) == Ptclear(p, i, "PT_FREE")

\* The whole list goes to the free list; a deleted port keeps its pointers.
Emptied(i, newstate) ==
    /\ ptfree'  = ptfree + Len(porttab[i].msgs)
    /\ porttab' = [porttab EXCEPT ![i].ssem = SemReset(IF newstate = "PT_ALLOC"
                                                       THEN porttab[i].ptmaxcnt ELSE 0),
                                  ![i].msgs = IF newstate = "PT_ALLOC" THEN <<>> ELSE @]

\* The messages have been disposed of: up to the end of the first semreset.
PtclearSenders(p) ==
    /\ ~panicked /\ ptcall[p].op = "dispose"
    /\ Emptied(ptcall[p].port, ptcall[p].newstate)
    /\ ptcall' = [ptcall EXCEPT ![p].op = "semreset1"]
    /\ UNCHANGED <<ptnextid, received, panicked>>

\* Mutant of PtclearReceivers: they are left to the next message.
PtclearReceiversNot(p) ==
    /\ ~panicked /\ ptcall[p].op = "semreset1"
    /\ ptcall'  = [ptcall EXCEPT ![p].op = "semreset2"]
    /\ UNCHANGED <<porttab, ptfree, ptnextid, received, panicked>>

PtclearReceivers(p) ==
    /\ ~panicked /\ ptcall[p].op = "semreset1"
    /\ porttab' = [porttab EXCEPT ![ptcall[p].port].rsem = SemReset(0)]
    /\ ptcall'  = [ptcall EXCEPT ![p].op = "semreset2"]
    /\ UNCHANGED <<ptfree, ptnextid, received, panicked>>

PtclearEnd(p) ==
    /\ ~panicked /\ ptcall[p].op = "semreset2"
    /\ porttab'  = [porttab EXCEPT ![ptcall[p].port].ptstate = ptcall[p].newstate]
    /\ ptnextid' = IF ptcall[p].newstate = "PT_FREE" THEN ptcall[p].port ELSE ptnextid
    /\ ptcall'   = [ptcall EXCEPT ![p] = Idle]
    /\ UNCHANGED <<ptfree, received, panicked>>

\* kill of a process that waits in a call or has been released and not yet run.
PortKill(p) ==
    /\ ~panicked
    /\ \/ ptcall[p].op \in PortVictims
       \/ "clear" \in PortVictims /\ Clearing(p)
    /\ porttab' = [porttab EXCEPT ![ptcall[p].port].ssem = SemKill(@, p),
                                  ![ptcall[p].port].rsem = SemKill(@, p)]
    /\ ptcall'  = [ptcall EXCEPT ![p] = Gone]
    /\ UNCHANGED <<ptfree, ptnextid, received, panicked>>

\* What ptcount returns for a port that is allocated.
Ptcount(i) ==
    LET pt == porttab[i]
    IN  IF pt.rsem.count >= 0 /\ pt.ssem.count < 0 THEN pt.rsem.count - pt.ssem.count
                                                   ELSE pt.rsem.count

PortGoesOn(p) == \/ PtsendEnd(p) \/ PtrecvEnd(p)
                 \/ PtclearSenders(p) \/ PtclearReceivers(p) \/ PtclearEnd(p)

PortsNext ==
    \E p \in Proc :
        \/ \E count \in MaxCounts : Ptcreate(p, count)
        \/ \E i \in Port : \/ \E msg \in Msgs : Ptsend(p, i, msg)
                           \/ Ptrecv(p, i) \/ Ptreset(p, i) \/ Ptdelete(p, i)
        \/ PortGoesOn(p) \/ PortKill(p)

-----------------------------------------------------------------------------
PortsTypeOK ==
    /\ porttab \in [Port -> [ptstate : {"PT_FREE", "PT_LIMBO", "PT_ALLOC"},
                             ptseq : 0 .. MaxSeq, ptmaxcnt : {0} \cup MaxCounts,
                             msgs : Seq(Msgs),
                             ssem : [count : Int, line : Seq(Proc)],
                             rsem : [count : Int, line : Seq(Proc)]]]
    /\ ptfree \in 0 .. PT_MSGS
    /\ ptnextid \in Port
    /\ received \in [Proc -> Msgs \cup {NoMsg}]
    /\ panicked \in BOOLEAN

\* The processes that have been let into a port and still have to run.
Coming(op, i) ==
    {p \in Proc : ptcall[p].op = op /\ ptcall[p].port = i /\ Released(p) /\ ~Outdated(p)}

\* Nodes in use by a port.
Nodes(i) ==
    IF \/ porttab[i].ptstate = "PT_FREE"
       \/ \E p \in Proc : /\ ptcall[p].op \in {"semreset1", "semreset2"}
                          /\ ptcall[p].port = i
    THEN 0 ELSE Len(porttab[i].msgs)

\* The nodes in use, each as the place it has in the list of its port.
NodesInUse == UNION {{i} \X (1 .. Nodes(i)) : i \in Port}

\* Every message node is on the free list or holds a message of one port
\* (ptsend.c:42, ptrecv.c:40, ptclear.c:34), also after calls that were
\* overtaken by a reset or a deletion.
NodesConserved == ptfree + Cardinality(NodesInUse) = PT_MSGS

\* A receiver that its semaphore has let in finds a message (ptrecv.c:29 does
\* not look whether there is one), a sender finds a place, and a port never
\* holds more messages than it was created for.
PlacesAndMessages ==
    \A i \in Port :
        porttab[i].ptstate = "PT_ALLOC" =>
            /\ Units(porttab[i].rsem) + Cardinality(Coming("recv", i)) <= Len(porttab[i].msgs)
            /\ Len(porttab[i].msgs) + Units(porttab[i].ssem) + Cardinality(Coming("send", i))
                   <= porttab[i].ptmaxcnt

\* ptcount.c:7 says: K messages, those of blocked senders included, or -K if K
\* processes are blocked to receive.  It is so when nobody is on his way in
\* and nobody was killed on his way.
PtcountTells ==
    \A i \in Port :
        /\ porttab[i].ptstate = "PT_ALLOC"
        /\ Coming("recv", i) \cup Coming("send", i) = {}
        /\ \A p \in Proc : ptcall[p] # Gone
        => LET senders   == Cardinality(InLine(porttab[i].ssem))
               receivers == Cardinality(InLine(porttab[i].rsem))
           IN  Ptcount(i) = IF receivers > 0 THEN -receivers
                                             ELSE Len(porttab[i].msgs) + senders

\* The port table as a whole: nodes, messages, places and counts fit together.
PortsConsistent == PortsTypeOK /\ NodesConserved /\ PlacesAndMessages /\ PtcountTells

\* Whoever is in a call when its port is reset or deleted gets out of it
\* (ptclear.c:41-46): nobody is left in the line of a semaphore that has been
\* reset, unless the process that clears the port is on its way or was killed.
ClearedCallersGetOut ==
    \A p \in Proc :
        InCall(p) /\ Outdated(p) =>
            \/ Released(p)
            \/ porttab[ptcall[p].port].ptstate = "PT_LIMBO"
               /\ \E q \in Proc : \/ ptcall[q] = Gone
                                  \/ Clearing(q) /\ ptcall[q].port = ptcall[p].port

\* What the ports are as channels.
OpenPorts     == {i \in Port : porttab[i].ptstate = "PT_ALLOC"}
Places        == [i \in Port |-> porttab[i].ptmaxcnt]
MessagesHeld  == [i \in Port |-> IF porttab[i].ptstate = "PT_ALLOC" THEN porttab[i].msgs
                                                                    ELSE <<>>]
CallOf(p)     == IF InCall(p) THEN [op |-> ptcall[p].op, chan |-> ptcall[p].port,
                                    msg |-> ptcall[p].msg]
                              ELSE [op |-> "none"]
CallsMade     == [p \in Proc |-> CallOf(p)]
OvertakenCalls == {p \in Proc : InCall(p) /\ Outdated(p)}

\* Ports implements Channels.
Abstract == INSTANCE Channels WITH
    Process <- Proc,
    Channel <- Port,
    Message <- Msgs,
    Nothing <- NoMsg,
    open    <- OpenPorts,
    cap     <- Places,
    chan    <- MessagesHeld,
    doing   <- CallsMade,
    late    <- OvertakenCalls,
    got     <- received

ChannelsRefined == Abstract!CSpec
=============================================================================
