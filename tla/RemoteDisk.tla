----------------------------- MODULE RemoteDisk -----------------------------
(***************************************************************************)
(* The remote disk (device/rds): callers put requests for blocks into a    *)
(* queue, one communication process carries them out with a server across  *)
(* a network that loses datagrams, and a cache keeps the buffers that were *)
(* carried out last.  Calls run with interrupts disabled, and the          *)
(* communication process has a higher priority than its callers, so that   *)
(* each runs to the next place where it waits.                             *)
(*                                                                         *)
(* The lists of buffers are sequences; a write request has no waiter.      *)
(* RdsCareless says what the driver leaves to chance:                      *)
(*   "same"       a request is queued for a block that is being read, and  *)
(*                the end of the read links the queue into the cache       *)
(*   "waited"     a request that waited for a buffer finds that its block  *)
(*                has been requested or written meanwhile                  *)
(*   "overtaken"  a buffer is taken before a reader that was sent it, or a *)
(*                caller that was promised one, has run                    *)
(*   "other"      a block is read that is not the one last written: the    *)
(*                block number of a read message is never set              *)
(*   "stale"      an exchange begins while datagrams of an earlier one of  *)
(*                the same type are under way                              *)
(*   "close"      the disk is closed under a caller                        *)
(*   "shared"     the communication process begins an exchange when the    *)
(*                answer for a caller that deletes the disk has come and   *)
(*                the caller has not run: both take from one slot          *)
(* Of the exchanges of rdsopen and of deletion only the outcome is told,   *)
(* at the server and for the caller; their datagrams, which to others are  *)
(* like none, and the sequence numbers they use up are left out.           *)
(***************************************************************************)
EXTENDS SemLine, FiniteSets, FiniteSetsExt

CONSTANTS User,         \* processes that use the disk
          BLK,          \* block numbers
          Data, Blank,  \* what is written, and what the disk holds first
          RD_BUFFS,     \* number of buffers
          RD_RETRIES,   \* how often rdscomm sends
          MaxNet,       \* bound: datagrams under way in each direction
          MaxExchange,  \* bound: exchanges
          MaxSync,      \* bound: calls to synchronise
          RdsCareless

ASSUME RemoteDiskAssumption ==
    /\ {RD_BUFFS, RD_RETRIES, MaxNet} \subseteq Nat \ {0} /\ {MaxExchange, MaxSync} \subseteq Nat
    /\ BLK \subseteq Nat /\ 0 \in BLK /\ Blank \notin Data
    /\ RdsCareless \subseteq {"same", "waited", "overtaken", "other", "stale", "close",
                         "shared"}

VARIABLES rd_state,           \* state of the device
          buff,               \* the buffers
          req, cache, free,   \* request queue, cache (newest first), free list
          availsem, reqsem,   \* available buffers; requests (units only)
          rcall,              \* the call each user is in
          inbox,              \* the message each user has been sent
          ret,                \* what its last read has returned
          comm,               \* the exchange of the communication process
          rd_seq,             \* next sequence number
          msgblk,             \* the block number left in its message
          toserver, toclient, \* datagrams under way
          server, gone,       \* the server's disk; it has been deleted
          syncs,              \* requests to synchronise so far (history)
          panicked,           \* where the kernel has panicked, or "no"
          broken              \* lists, or answers, have been mixed

rdlists == <<buff, req, cache, free>>
rdnet   == <<comm, rd_seq, msgblk, toserver, toclient, server, gone>>
rdsvars == <<rd_state, rdlists, availsem, reqsem, rcall, inbox, ret, rdnet,
             syncs, panicked, broken>>

Buffer  == 1 .. RD_BUFFS
NoMail  == 0                \* what is sent is a buffer, or OK
OkMail  == RD_BUFFS + 1
AtRest  == [op |-> "none"]
Waits   == [at |-> "wait"]

\* rdsinit.  The block number in the message is not initialised.
RdsInit ==
    /\ rd_state = "RD_FREE"
    /\ buff  = [b \in Buffer |-> [op |-> "read", refcnt |-> 0, blk |-> 0, valid |-> FALSE,
                                  pid |-> "none", data |-> Blank]]
    /\ req = <<>> /\ cache = <<>> /\ free = [b \in Buffer |-> b]
    /\ availsem = NewSem(RD_BUFFS) /\ reqsem = 0
    /\ rcall = [p \in User |-> AtRest]
    /\ inbox = [p \in User |-> NoMail]
    /\ ret   = [p \in User |-> Blank]
    /\ comm = Waits /\ rd_seq = 1 /\ msgblk \in BLK
    /\ toserver = <<>> /\ toclient = <<>>
    /\ server = [b \in BLK |-> Blank]
    /\ gone = FALSE /\ syncs = 0 /\ panicked = "no" /\ broken = FALSE

Runs == panicked = "no" /\ ~broken
Free(p) == Runs /\ rcall[p] = AtRest

-----------------------------------------------------------------------------
\* rdsopen, rdsclose and RDS_CTL_DEL.  A call communicates through the UDP slot
\* of the communication process: rdscomm fails when somebody waits at it.
Exchanging == {p \in User : rcall[p].op \in {"open", "delete"}}
SlotTaken  == comm.at = "recv" \/ Exchanging # {}

\* The server makes a disk it does not have, also if its answer does not come.
MadeAnew ==
    /\ gone'   \in {gone, FALSE}
    /\ server' = IF gone /\ ~gone' THEN [blk \in BLK |-> Blank] ELSE server

\* The request is sent before it turns out that the slot is taken.
RdsopenBegin(p) ==
    /\ Free(p) /\ rd_state = "RD_FREE"
    /\ IF SlotTaken
       THEN MadeAnew /\ UNCHANGED <<rd_state, rcall>>
       ELSE /\ rd_state' = "RD_PEND"
            /\ rcall'    = [rcall EXCEPT ![p] = [op |-> "open"]]
            /\ UNCHANGED <<server, gone>>
    /\ UNCHANGED <<rdlists, availsem, reqsem, inbox, ret, comm, rd_seq, msgblk, toserver,
                   toclient, panicked, broken, syncs>>

\* An identifier that is empty or too long: nothing takes the device out of
\* RD_PEND again.
RdsopenBadId(p) ==
    /\ Free(p) /\ rd_state = "RD_FREE"
    /\ rd_state' = "RD_PEND"
    /\ UNCHANGED <<rdlists, availsem, reqsem, rcall, inbox, ret, rdnet, panicked, broken, syncs>>

RdsopenEnd(p) ==
    /\ Runs /\ rcall[p].op = "open"
    /\ MadeAnew
    /\ rd_state' = "RD_FREE" \/ (rd_state' = "RD_OPEN" /\ ~gone')
    /\ rcall' = [rcall EXCEPT ![p] = AtRest]
    /\ UNCHANGED <<rdlists, availsem, reqsem, inbox, ret, comm, rd_seq, msgblk, toserver,
                   toclient, panicked, broken, syncs>>

\* What rdsclose does for p to an open device whose queue is empty.
Closes(p) ==
    /\ (\A q \in User \ {p} : rcall[q] = AtRest) \/ "close" \in RdsCareless
    /\ free'     = Reverse(cache) \o free
    /\ buff'     = [b \in Buffer |-> [buff[b] EXCEPT !.valid = @ /\ b \notin Range(cache)]]
    /\ cache'    = <<>>
    /\ rd_state' = "RD_FREE"
    /\ UNCHANGED req

Rdsclose(p) ==
    /\ Free(p) /\ rd_state = "RD_OPEN" /\ req = <<>>
    /\ Closes(p)
    /\ UNCHANGED <<availsem, reqsem, rcall, inbox, ret, rdnet, panicked, broken, syncs>>

\* It too is sent in any case.
RdsDelete(p) ==
    /\ Free(p) /\ rd_state = "RD_OPEN"
    /\ IF SlotTaken
       THEN gone' \in {gone, TRUE} /\ UNCHANGED rcall
       ELSE rcall' = [rcall EXCEPT ![p] = [op |-> "delete"]] /\ UNCHANGED gone
    /\ UNCHANGED <<rd_state, rdlists, availsem, reqsem, inbox, ret, comm, rd_seq, msgblk,
                   toserver, toclient, server, panicked, broken, syncs>>

\* The server may have deleted the disk although its answer has not come.  With
\* the answer the device is closed, if it is still open and its queue is empty.
RdsDeleteEnd(p) ==
    /\ Runs /\ rcall[p].op = "delete"
    /\ gone'  \in {gone, TRUE}
    /\ rcall' = [rcall EXCEPT ![p] = AtRest]
    /\ \/ gone' /\ rd_state = "RD_OPEN" /\ req = <<>> /\ Closes(p)
       \/ UNCHANGED <<rd_state, rdlists>>
    /\ UNCHANGED <<availsem, reqsem, inbox, ret, comm, rd_seq, msgblk, toserver, toclient,
                   server, panicked, broken, syncs>>

-----------------------------------------------------------------------------
\* rdsbufalloc after its wait: the buffer it finds, on the free list or as the
\* oldest of the cache that nobody refers to.
Unused == {k \in DOMAIN cache : buff[cache[k]].refcnt <= 0}

Requested(blk) == \E k \in DOMAIN req : buff[req[k]].blk = blk
CachedAt(blk)  == {k \in DOMAIN cache : buff[cache[k]].blk = blk}

\* A request in buffer b, put at the tail, for call c of process p.
Filled(c, p, data) ==
    [op |-> c.op, refcnt |-> IF c.op = "write" THEN 0 ELSE 1, blk |-> c.blk,
     valid |-> c.op = "write", pid |-> p, data |-> data]

\* The block number the message will have when a request put now is sent.
MessageBlk ==
    LET w == {k \in DOMAIN req : buff[req[k]].op = "write"}
    IN  IF w = {} THEN msgblk ELSE buff[req[Max(w)]].blk

Careful(c) ==
    /\ "same" \in RdsCareless \/ \A k \in DOMAIN req :
          buff[req[k]].op = "read" => buff[req[k]].blk # c.blk
    /\ "other" \in RdsCareless \/ (c.op = "read" => c.blk = MessageBlk)

\* The request is put into buffer b, and the caller goes on or waits for its end.
Put(p, c, b) ==
    /\ Careful(c)
    /\ buff'   = [buff EXCEPT ![b] = Filled(c, p, IF c.op = "write" THEN c.data ELSE @.data)]
    /\ req'    = Append(req, b)
    /\ reqsem' = IF c.op = "sync" THEN reqsem ELSE reqsem + 1
    /\ syncs'  = IF c.op = "sync" THEN syncs + 1 ELSE syncs
    /\ inbox'  = IF c.op = "write" THEN inbox ELSE [inbox EXCEPT ![p] = NoMail]
    /\ rcall'  = [rcall EXCEPT ![p] = IF c.op = "write" THEN AtRest
                                      ELSE [op |-> "receive", blk |-> c.blk, sync |-> c.op = "sync"]]

\* With a unit of availsem in hand.
Allocate(p, c) ==
    /\ "overtaken" \in RdsCareless \/ Unused = DOMAIN cache
    /\ IF free = <<>> /\ Unused = {}
       THEN panicked' = "rdsbufalloc" /\ UNCHANGED <<rdlists, reqsem, inbox, rcall, syncs>>
       ELSE /\ LET b == IF free # <<>> THEN Head(free) ELSE cache[Max(Unused)]
               IN  /\ Put(p, c, b)
                   /\ free'  = IF free # <<>> THEN Tail(free) ELSE free
                   /\ cache' = IF free # <<>> THEN cache ELSE RemoveAt(cache, Max(Unused))
            /\ UNCHANGED panicked

\* A request for which a buffer has to be allocated.
Request(p, c) ==
    LET s == SemWait(availsem, p)
    IN  /\ availsem' = s
        /\ \/ /\ p \in InLine(s)
              /\ rcall' = [rcall EXCEPT ![p] = c]
              /\ UNCHANGED <<rdlists, reqsem, inbox, panicked, syncs>>
           \/ /\ p \notin InLine(s)
              /\ Allocate(p, c)

\* It goes on when it has been let in; what it looked for is not looked for again.
RequestEnd(p) ==
    /\ Runs /\ rcall[p].op \in {"read", "write", "sync"} /\ p \notin InLine(availsem)
    /\ \/ "waited" \in RdsCareless
       \/ ~Requested(rcall[p].blk)
          /\ \A k \in CachedAt(rcall[p].blk) : ~buff[cache[k]].valid
    /\ Allocate(p, rcall[p])
    /\ UNCHANGED <<rd_state, availsem, ret, rdnet, broken>>

\* rdsread: from the cache, else from the last request for the block.
Rdsread(p, blk) ==
    /\ Free(p) /\ rd_state = "RD_OPEN"
    /\ LET cached == CachedAt(blk)
           asked  == {k \in DOMAIN req : buff[req[k]].blk = blk}
           hit    == IF cached # {} /\ buff[cache[Min(cached)]].valid
                     THEN {cache[Min(cached)]}
                     ELSE IF asked # {} /\ buff[req[Max(asked)]].op = "write"
                     THEN {req[Max(asked)]} ELSE {}
       IN  \/ /\ hit # {}
              /\ ret' = [ret EXCEPT ![p] = buff[CHOOSE b \in hit : TRUE].data]
              /\ UNCHANGED <<rdlists, availsem, reqsem, rcall, inbox, panicked, syncs>>
           \/ /\ hit = {}
              /\ Request(p, [op |-> "read", blk |-> blk])
              /\ UNCHANGED ret
    /\ UNCHANGED <<rd_state, rdnet, broken>>

\* The buffer that was sent holds the block.  If an older buffer of the cache
\* has the same block the new one is not kept.
RdsreadEnd(p) ==
    /\ Runs /\ rcall[p].op = "receive" /\ ~rcall[p].sync /\ inbox[p] # NoMail
    /\ LET b    == inbox[p]
           refs == buff[b].refcnt - 1
           here == {k \in DOMAIN cache : cache[k] = b}
           drop == refs <= 0 /\ \E k \in CachedAt(rcall[p].blk) : k < Min(here)
       IN  /\ ret'   = [ret EXCEPT ![p] = buff[b].data]
           /\ buff'  = [buff EXCEPT ![b].refcnt = refs]
           /\ cache' = IF drop THEN RemoveAt(cache, Min(here)) ELSE cache
           /\ free'  = IF drop THEN <<b>> \o free ELSE free
    /\ inbox' = [inbox EXCEPT ![p] = NoMail]
    /\ rcall' = [rcall EXCEPT ![p] = AtRest]
    /\ UNCHANGED <<rd_state, req, availsem, reqsem, rdnet, panicked, broken, syncs>>

\* Mutant of UnitTaken: the semaphore keeps the unit of the buffer.
UnitKept(s) == s

\* semreset(availsem, count - 1): a negative count is refused.
UnitTaken(s) == IF s.count >= 1 THEN NewSem(s.count - 1) ELSE s

\* Mutant of Rdswrite: the cached copy of the block is left where it is.
RdswriteKeepsCached(p, blk, data) ==
    LET asked == {k \in DOMAIN req : buff[req[k]].op = "write" /\ buff[req[k]].blk = blk}
    IN  /\ Free(p) /\ rd_state = "RD_OPEN"
        /\ \/ /\ asked # {}
              /\ buff' = [buff EXCEPT ![req[Min(asked)]].data = data]
              /\ UNCHANGED <<req, cache, free, availsem, reqsem, rcall, inbox, panicked, syncs>>
           \/ /\ asked = {}
              /\ Request(p, [op |-> "write", blk |-> blk, data |-> data])
        /\ UNCHANGED <<rd_state, ret, rdnet, broken>>

\* rdswrite: the data of a queued write is replaced, or the cached buffer of
\* the block is taken, or one is allocated.
Rdswrite(p, blk, data) ==
    LET asked  == {k \in DOMAIN req : buff[req[k]].op = "write" /\ buff[req[k]].blk = blk}
        cached == CachedAt(blk)
        taken  == cached # {} /\ buff[cache[Min(cached)]].refcnt <= 0
        c      == [op |-> "write", blk |-> blk, data |-> data]
    IN  /\ Free(p) /\ rd_state = "RD_OPEN"
        /\ \/ /\ asked # {}
              /\ buff' = [buff EXCEPT ![req[Min(asked)]].data = data]
              /\ UNCHANGED <<req, cache, free, availsem, reqsem, rcall, inbox, panicked, syncs>>
           \/ /\ asked = {} /\ taken
              /\ availsem.count > 0 \/ "overtaken" \in RdsCareless
              /\ cache'    = RemoveAt(cache, Min(cached))
              /\ availsem' = UnitTaken(availsem)
              /\ Put(p, c, cache[Min(cached)])
              /\ UNCHANGED <<free, panicked>>
           \/ /\ asked = {} /\ ~taken
              /\ Request(p, c)
        /\ UNCHANGED <<rd_state, ret, rdnet, broken>>

\* rdscontrol, RDS_CTL_SYNC: the request has block number 0, and instead of a
\* signal the communication process is resumed, which is not suspended.
RdsSync(p) ==
    /\ Free(p) /\ rd_state = "RD_OPEN"
    /\ syncs < MaxSync /\ \A q \in User : rcall[q].op # "sync"
    /\ Request(p, [op |-> "sync", blk |-> 0])
    /\ UNCHANGED <<rd_state, ret, rdnet, broken>>

RdsSyncEnd(p) ==
    /\ Runs /\ rcall[p].op = "receive" /\ rcall[p].sync /\ inbox[p] # NoMail
    /\ inbox' = [inbox EXCEPT ![p] = NoMail]
    /\ rcall' = [rcall EXCEPT ![p] = AtRest]
    /\ UNCHANGED <<rd_state, rdlists, availsem, reqsem, ret, rdnet, panicked, broken, syncs>>

-----------------------------------------------------------------------------
\* rdsprocess and rdscomm.

Under(net, type) == \E k \in DOMAIN net : net[k].type = type
Sent(net, m) == IF Len(net) < MaxNet THEN Append(net, m) ELSE net

Exchange(b, type, blk, data) ==
    [at |-> "recv", buf |-> b, type |-> type, seq |-> rd_seq, blk |-> blk,
     data |-> data, tries |-> 0]
Datagram(c) == [type |-> c.type, seq |-> c.seq, blk |-> c.blk, data |-> c.data, ok |-> TRUE]

\* rdscomm up to its first wait.  It fails if the port or an address cannot be
\* had, if the message cannot be sent, or if a caller waits at the slot; and
\* rdsprocess panics whenever it fails.
Begin(c) ==
    \/ /\ Exchanging = {} /\ rd_seq < MaxExchange
       /\ "stale" \in RdsCareless \/ ~(Under(toserver, c.type) \/ Under(toclient, c.type))
       /\ comm'     = c
       /\ rd_seq'   = rd_seq + 1
       /\ toserver' = Sent(toserver, Datagram(c))
       /\ UNCHANGED <<panicked, broken>>
    \/ /\ panicked' = "rdsprocess"
       /\ UNCHANGED <<comm, rd_seq, toserver, broken>>
    \/ /\ "shared" \in RdsCareless /\ Exchanging # {}
       /\ broken' = TRUE
       /\ UNCHANGED <<comm, rd_seq, toserver, panicked>>

\* The buffer of a write goes to the cache before the exchange.
TakesWrite ==
    LET b == Head(req)
    IN  /\ buff[b].op = "write"
        /\ Begin(Exchange(b, "write", buff[b].blk, buff[b].data))
        /\ msgblk'   = buff[b].blk
        /\ req'      = Tail(req)
        /\ cache'    = <<b>> \o cache
        /\ availsem' = SemSignal(availsem)
        /\ UNCHANGED <<buff, free, inbox>>

\* Mutant of TakesRead: the request is taken off the queue at once.
TakesReadOff ==
    LET b == Head(req)
    IN  /\ buff[b].op = "read"
        /\ Begin(Exchange(b, "read", msgblk, Blank))
        /\ req' = Tail(req)
        /\ UNCHANGED <<msgblk, buff, cache, free, availsem, inbox>>

\* The block number of a read is what is left in the message.
TakesRead ==
    LET b == Head(req)
    IN  /\ buff[b].op = "read"
        /\ Begin(Exchange(b, "read", msgblk, Blank))
        /\ UNCHANGED <<msgblk, rdlists, availsem, inbox>>

TakesSync ==
    LET b == Head(req)
    IN  /\ buff[b].op = "sync"
        /\ inbox'    = [inbox EXCEPT ![buff[b].pid] = OkMail]
        /\ req'      = Tail(req)
        /\ free'     = <<b>> \o free
        /\ availsem' = SemSignal(availsem)
        /\ UNCHANGED <<buff, cache, comm, rd_seq, msgblk, toserver, panicked, broken>>

CommTakes ==
    /\ Runs /\ comm = Waits /\ reqsem > 0 /\ req # <<>>
    /\ reqsem' = reqsem - 1
    /\ TakesWrite \/ TakesRead \/ TakesSync
    /\ UNCHANGED <<rd_state, rcall, ret, toclient, server, gone, syncs>>

\* The answer to a read: the buffer goes to the cache, and its reader is sent
\* it.  If another request for the block is queued, whatever it is, the two
\* lists are linked into each other.
ReadDone(m) ==
    LET b == comm.buf
    IN  /\ buff'     = [buff EXCEPT ![b].data = m.data, ![b].refcnt = 1]
        /\ req'      = Tail(req)
        /\ cache'    = <<b>> \o cache
        /\ availsem' = SemSignal(availsem)
        /\ inbox'    = [inbox EXCEPT ![buff[b].pid] = b]
        /\ broken'   = \E k \in DOMAIN req' : buff[req'[k]].blk = buff[b].blk
        /\ UNCHANGED free

\* The last try has failed, or the next one may.
Again(resend) ==
    /\ \/ panicked' = "rdsprocess"
       \/ comm.tries + 1 < RD_RETRIES /\ UNCHANGED panicked
    /\ comm'     = [comm EXCEPT !.tries = @ + 1]
    /\ toserver' = IF resend /\ comm.tries + 1 < RD_RETRIES
                   THEN Sent(toserver, Datagram(comm)) ELSE toserver

\* An answer to an earlier exchange is not thrown away: it only keeps the
\* message from being sent again, and is accepted if its type is right.  If it
\* says that the server has failed, rdsprocess panics.
CommReceives ==
    /\ Runs /\ comm.at = "recv" /\ toclient # <<>>
    /\ toclient' = Tail(toclient)
    /\ LET m    == Head(toclient)
           mine == m.seq <= comm.seq /\ m.type = comm.type
       IN  \/ /\ mine /\ m.ok
              /\ comm' = Waits
              /\ \/ comm.type = "read" /\ ReadDone(m)
                 \/ /\ comm.type = "write"
                    /\ UNCHANGED <<rdlists, availsem, inbox, broken>>
              /\ UNCHANGED <<toserver, panicked>>
           \/ /\ mine /\ ~m.ok
              /\ panicked' = "rdsprocess"
              /\ UNCHANGED <<comm, toserver, rdlists, availsem, inbox, broken>>
           \/ /\ ~mine
              /\ Again(m.seq >= comm.seq)
              /\ UNCHANGED <<rdlists, availsem, inbox, broken>>
    /\ UNCHANGED <<rd_state, reqsem, rcall, ret, rd_seq, msgblk, server, gone, syncs>>

CommTimeout ==
    /\ Runs /\ comm.at = "recv" /\ toclient = <<>>
    /\ Again(TRUE)
    /\ UNCHANGED <<rd_state, rdlists, availsem, reqsem, rcall, inbox, ret, rd_seq,
                   msgblk, toclient, server, gone, broken, syncs>>

-----------------------------------------------------------------------------
\* The server, and the network, which loses datagrams but keeps their order.

\* It may fail, and does when the disk has been deleted.
Server ==
    /\ Runs /\ toserver # <<>>
    /\ \E ok \in IF gone THEN {FALSE} ELSE BOOLEAN :
          LET m == Head(toserver)
          IN  /\ server'   = IF ok /\ m.type = "write" THEN [server EXCEPT ![m.blk] = m.data]
                             ELSE server
              /\ toclient' = Sent(toclient,
                    [m EXCEPT !.ok   = ok,
                              !.data = IF ok /\ m.type = "read" THEN server[m.blk] ELSE @])
    /\ toserver' = Tail(toserver)
    /\ UNCHANGED <<rd_state, rdlists, availsem, reqsem, rcall, inbox, ret, comm, rd_seq,
                   msgblk, gone, panicked, broken, syncs>>

Lose ==
    /\ Runs
    /\ \/ toserver # <<>> /\ toserver' = Tail(toserver) /\ UNCHANGED toclient
       \/ toclient # <<>> /\ toclient' = Tail(toclient) /\ UNCHANGED toserver
    /\ UNCHANGED <<rd_state, rdlists, availsem, reqsem, rcall, inbox, ret, comm, rd_seq,
                   msgblk, server, gone, panicked, broken, syncs>>

RdsNext ==
    \/ \E p \in User :
          \/ RdsopenBegin(p) \/ RdsopenBadId(p) \/ RdsopenEnd(p) \/ Rdsclose(p)
          \/ RdsDelete(p) \/ RdsDeleteEnd(p)
          \/ \E blk \in BLK : Rdsread(p, blk) \/ \E v \in Data : Rdswrite(p, blk, v)
          \/ RequestEnd(p) \/ RdsreadEnd(p) \/ RdsSync(p) \/ RdsSyncEnd(p)
    \/ CommTakes \/ CommReceives \/ CommTimeout \/ Server \/ Lose

RdsSpec == RdsInit /\ [][RdsNext]_rdsvars

-----------------------------------------------------------------------------
RdsTypeOK ==
    /\ rd_state \in {"RD_FREE", "RD_PEND", "RD_OPEN"}
    /\ buff \in [Buffer -> [op : {"read", "write", "sync"}, refcnt : 0 .. Cardinality(User),
                            blk : BLK, valid : BOOLEAN, pid : User \cup {"none"},
                            data : Data \cup {Blank}]]
    /\ {req, cache, free} \subseteq Seq(Buffer)
    /\ reqsem \in Nat
    /\ \A p \in User : inbox[p] \in 0 .. RD_BUFFS+1
    /\ panicked \in {"no", "rdsbufalloc", "rdsprocess"} /\ {broken, gone} \subseteq BOOLEAN

\* Callers that the semaphore has let in and that have not run since.
Promised == {p \in User : rcall[p].op \in {"read", "write", "sync"} /\ p \notin InLine(availsem)}

\* Every buffer is in one list, once; and the semaphore counts those that are
\* not in the request queue, less those promised to callers: rdswrite.c:57 takes
\* a buffer and resets the semaphore itself.  So whoever has a unit finds a
\* buffer, and rdsbufalloc never panics for want of one (rdsbufalloc.c:48).
BuffersCounted ==
    /\ RdsTypeOK
    /\ panicked # "rdsbufalloc"
    /\ Runs =>
        /\ Len(req) + Len(cache) + Len(free) = RD_BUFFS
        /\ Range(req) \cup Range(cache) \cup Range(free) = Buffer
        /\ Units(availsem) + Cardinality(Promised) = Len(free) + Len(cache)

\* The communication process is woken once for every read and write in the
\* queue, but not for a request to synchronise: every such call leaves one
\* request in the queue that nobody carries out before the next one comes
\* (rdscontrol.c:65 resumes a process that waits for a semaphore).
WokenForEachRequest ==
    Runs => reqsem + (IF comm.at = "recv" /\ comm.type = "read" THEN 1 ELSE 0)
               = Len(req) - syncs

\* To its users queue, cache and server are one disk: a block holds what the
\* last queued write for it says, else the write that is being carried out,
\* else what the server has.
Content(blk) ==
    LET w == {k \in DOMAIN req : buff[req[k]].op = "write" /\ buff[req[k]].blk = blk}
    IN  CASE w # {} -> buff[req[Max(w)]].data
          [] w = {} /\ comm.at = "recv" /\ comm.type = "write" /\ comm.blk = blk -> comm.data
          [] OTHER -> server[blk]

\* A read is over for its caller when the buffer is sent to it.
Answered(p) == rcall[p].op = "receive" /\ inbox[p] \in Buffer

RD == INSTANCE Disk WITH
        Client  <- User,
        Block   <- BLK,
        Value   <- Data \cup {Blank},
        Idle    <- -1,
        content <- [blk \in BLK |-> Content(blk)],
        reading <- [p \in User |->
                       IF rcall[p].op = "read" \/ (rcall[p].op = "receive" /\ ~rcall[p].sync
                                                   /\ inbox[p] = NoMail)
                       THEN rcall[p].blk ELSE -1],
        answer  <- [p \in User |-> IF Answered(p) THEN buff[inbox[p]].data ELSE ret[p]]

RemoteDiskRefined == RD!DiskSpec
=============================================================================
