---------------------------- MODULE DevicesProofs ----------------------------
(***************************************************************************)
(* The drivers and the buffers of the stack, for every number of           *)
(* processes, buffers and places.  Every buffer of the remote disk is in   *)
(* one list, there is one for whoever has a unit of the semaphore, and the *)
(* communication process is woken for each request but those to            *)
(* synchronise.  The rings of the serial line have a character for each    *)
(* unit and each reader let in, and output that is due asks for its        *)
(* interrupt.  No buffer of the stack is lost or in two places.  The units *)
(* of the Ethernet rings are slots that are free and frames that wait, and *)
(* to its users the interface is a wire.                                   *)
(***************************************************************************)
EXTENDS RemoteDisk, Tty, Ether, Stack, SemLineProofs

-----------------------------------------------------------------------------
\* The remote disk.

\* The calls that look for a buffer, and what the communication process may be
\* asked to do.
Seeking == {"read", "write", "sync"}
Content0 == Data \cup {Blank}

RdsCall ==
    {AtRest} \cup [op : {"open", "delete"}] \cup [op : {"read", "sync"}, blk : BLK]
    \cup [op : {"write"}, blk : BLK, data : Data]
    \cup [op : {"receive"}, blk : BLK, sync : BOOLEAN]

RdsDatagram == [type : {"read", "write"}, seq : Nat, blk : BLK, data : Content0, ok : BOOLEAN]

RdsComm ==
    {Waits} \cup [at : {"recv"}, buf : Buffer, type : {"read", "write"}, seq : Nat,
                  blk : BLK, data : Content0, tries : Nat]

PanicPlace == {"no", "rdsbufalloc", "rdsprocess"}

RdsShape ==
    /\ rd_state \in {"RD_FREE", "RD_PEND", "RD_OPEN"}
    /\ buff \in [Buffer -> [op : {"read", "write", "sync"}, refcnt : {0, 1}, blk : BLK,
                            valid : BOOLEAN, pid : User \cup {"none"}, data : Content0]]
    /\ \A b \in Buffer : buff[b].refcnt = 1 => buff[b].pid \in User
    /\ req \in Seq(Buffer) /\ cache \in Seq(Buffer) /\ free \in Seq(Buffer)
    /\ reqsem \in Nat /\ syncs \in Nat /\ rd_seq \in Nat
    /\ rcall \in [User -> RdsCall]
    /\ inbox \in [User -> 0 .. RD_BUFFS+1]
    /\ comm \in RdsComm /\ msgblk \in BLK
    /\ toserver \in Seq(RdsDatagram) /\ toclient \in Seq(RdsDatagram)
    /\ server \in [BLK -> Content0]
    /\ panicked \in PanicPlace /\ broken \in BOOLEAN /\ gone \in BOOLEAN

\* A buffer is in one list, once.
RdsLists ==
    /\ req \in Queue(Buffer) /\ cache \in Queue(Buffer) /\ free \in Queue(Buffer)
    /\ Range(req) \cap Range(cache) = {}
    /\ Range(req) \cap Range(free) = {}
    /\ Range(cache) \cap Range(free) = {}
    /\ Range(req) \cup Range(cache) \cup Range(free) = Buffer

\* Whoever waits for its request is the caller it names, has not been sent
\* anything, and has no other.
RdsRequests ==
    /\ \A b \in Range(req) : buff[b].op # "write" =>
          /\ buff[b].pid \in User
          /\ rcall[buff[b].pid].op = "receive"
          /\ rcall[buff[b].pid].sync = (buff[b].op = "sync")
          /\ inbox[buff[b].pid] = NoMail
    /\ \A b, c \in Range(req) :
          buff[b].op # "write" /\ buff[c].op # "write" /\ buff[b].pid = buff[c].pid => b = c

\* A buffer that has been sent stays in the cache until its reader has run.
RdsMail ==
    \A p \in User : inbox[p] # NoMail =>
        /\ rcall[p].op = "receive"
        /\ rcall[p].sync => inbox[p] = OkMail
        /\ ~rcall[p].sync =>
              inbox[p] \in Range(cache) /\ buff[inbox[p]].refcnt = 1 /\ buff[inbox[p]].pid = p

RdsReading ==
    comm.at = "recv" /\ comm.type = "read" =>
        req # <<>> /\ Head(req) = comm.buf /\ buff[comm.buf].op = "read"

RdsSemaphore ==
    /\ SemOK(availsem, User)
    /\ \A p \in InLine(availsem) : rcall[p].op \in Seeking
    /\ Units(availsem) + Cardinality(Promised) = Len(free) + Len(cache)

RdsWoken ==
    reqsem + (IF comm.at = "recv" /\ comm.type = "read" THEN 1 ELSE 0) = Len(req) - syncs

RdsRunning ==
    RdsLists /\ RdsRequests /\ RdsMail /\ RdsReading /\ RdsSemaphore /\ RdsWoken

\* Whoever has a unit finds a buffer.
NoneMissing == panicked # "rdsbufalloc"

RdsInv == RdsShape /\ NoneMissing /\ (Runs => RdsRunning)

\* What is assumed of the calls: nobody overtakes a reader or a caller that was
\* let in, and nobody closes the disk under a caller.
DiskOK == IsFiniteSet(User) /\ {"overtaken", "close"} \cap RdsCareless = {}

RdsRequest == [op : {"read", "sync"}, blk : BLK] \cup [op : {"write"}, blk : BLK, data : Data]

\* Callers that want a buffer and have been let in, but for p.
OthersIn(p) ==
    {q \in User : rcall[q].op \in Seeking /\ q \notin InLine(availsem)' /\ q # p}

LEMMA RequestFacts ==
    ASSUME NEW c \in RdsRequest
    PROVE  /\ c \in RdsCall /\ c.op \in Seeking /\ c.blk \in BLK
           /\ c.op = "write" => c.data \in Data
  BY DEF RdsRequest, RdsCall, Seeking

\* The lists together have all the buffers.
LEMMA ListsAre ==
    ASSUME RdsLists
    PROVE  /\ Len(req) \in Nat /\ Len(cache) \in Nat /\ Len(free) \in Nat
           /\ Len(req) + Len(cache) + Len(free) = RD_BUFFS
<1>1. /\ IsFiniteSet(Range(req)) /\ Cardinality(Range(req)) = Len(req) /\ Len(req) \in Nat
      /\ IsFiniteSet(Range(cache)) /\ Cardinality(Range(cache)) = Len(cache) /\ Len(cache) \in Nat
      /\ IsFiniteSet(Range(free)) /\ Cardinality(Range(free)) = Len(free) /\ Len(free) \in Nat
  BY QueueCard DEF RdsLists
<1> DEFINE A == Range(req) \cup Range(cache)
<1>2. IsFiniteSet(A) /\ Cardinality(A) = Len(req) + Len(cache)
  <2>1. IsFiniteSet(A) /\ Cardinality(A) = Cardinality(Range(req)) + Cardinality(Range(cache))
                                            - Cardinality(Range(req) \cap Range(cache))
    BY <1>1, FS_Union
  <2>2. Cardinality(Range(req) \cap Range(cache)) = 0
    BY FS_EmptySet DEF RdsLists
  <2> QED BY <1>1, <2>1, <2>2
<1>3. Cardinality(A \cup Range(free)) = Len(req) + Len(cache) + Len(free)
  <2>1. Cardinality(A \cup Range(free)) = Cardinality(A) + Cardinality(Range(free))
                                            - Cardinality(A \cap Range(free))
    BY <1>1, <1>2, FS_Union
  <2>2. A \cap Range(free) = {}
    BY DEF RdsLists
  <2>3. Cardinality(A \cap Range(free)) = 0
    BY <2>2, FS_EmptySet
  <2> QED BY <1>1, <1>2, <2>1, <2>3
<1>4. A \cup Range(free) = Buffer
  BY DEF RdsLists
<1>5. Cardinality(Buffer) = RD_BUFFS
  BY RemoteDiskAssumption, FS_Interval DEF Buffer
<1> QED BY <1>1, <1>3, <1>4, <1>5

\* A request is put into a buffer that was in the cache or on the free list.
LEMMA PutKeeps ==
    ASSUME DiskOK, RdsInv, Runs, NEW p \in User, NEW c \in RdsRequest, NEW b \in Buffer,
           Put(p, c, b), rcall[p].op # "receive",
           cache' \in Queue(Buffer), free' \in Queue(Buffer),
           Range(cache)' \cap Range(free)' = {},
           b \in Range(cache) \cup Range(free),
           Range(cache)' = Range(cache) \ {b}, Range(free)' = Range(free) \ {b},
           \A q \in User : inbox[q] # b,
           SemOK(availsem', User),
           \A q \in InLine(availsem)' : q # p /\ rcall[q].op \in Seeking,
           Units(availsem)' + Cardinality(OthersIn(p)) = Len(free)' + Len(cache)',
           UNCHANGED <<rd_state, rdnet, broken, panicked>>
    PROVE  RdsInv'
<1> DEFINE f == Filled(c, p, IF c.op = "write" THEN c.data ELSE buff[b].data)
           call == IF c.op = "write" THEN AtRest
                   ELSE [op |-> "receive", blk |-> c.blk, sync |-> c.op = "sync"]
<1>1. /\ buff' = [buff EXCEPT ![b] = f]
      /\ req' = Append(req, b)
      /\ reqsem' = IF c.op = "sync" THEN reqsem ELSE reqsem + 1
      /\ syncs' = IF c.op = "sync" THEN syncs + 1 ELSE syncs
      /\ inbox' = IF c.op = "write" THEN inbox ELSE [inbox EXCEPT ![p] = NoMail]
      /\ rcall' = [rcall EXCEPT ![p] = call]
  BY DEF Put
<1>2. RdsShape /\ NoneMissing /\ RdsRunning
  BY DEF RdsInv
<1>3. /\ rd_state' = rd_state /\ comm' = comm /\ rd_seq' = rd_seq /\ msgblk' = msgblk
      /\ toserver' = toserver /\ toclient' = toclient /\ server' = server /\ gone' = gone
      /\ broken' = broken /\ panicked' = panicked
  BY DEF rdnet
<1>4. c \in RdsCall /\ c.op \in Seeking /\ c.blk \in BLK /\ (c.op = "write" => c.data \in Data)
  BY RequestFacts
<1>5. /\ f \in [op : {"read", "write", "sync"}, refcnt : {0, 1}, blk : BLK,
                valid : BOOLEAN, pid : User \cup {"none"}, data : Content0]
      /\ f.op = c.op /\ f.pid = p
  <2>1. (IF c.op = "write" THEN c.data ELSE buff[b].data) \in Content0
    BY <1>2, <1>4 DEF RdsShape, Content0
  <2>2. c.op \in {"read", "write", "sync"} /\ (IF c.op = "write" THEN 0 ELSE 1) \in {0, 1}
        /\ (c.op = "write") \in BOOLEAN
    BY <1>4 DEF Seeking
  <2> QED BY <1>4, <2>1, <2>2 DEF Filled
<1>6. call \in RdsCall
  BY <1>4 DEF RdsCall
<1> HIDE DEF f, call
<1>7. b \notin Range(req)
  BY <1>2 DEF RdsRunning, RdsLists
<1>8. req' \in Queue(Buffer) /\ Range(req)' = Range(req) \cup {b} /\ Len(req') = Len(req) + 1
  <2>1. req \in Queue(Buffer)
    BY <1>2 DEF RdsRunning, RdsLists
  <2> QED BY <1>1, <1>7, <2>1, EnqueueQueue DEF Enqueue
<1>9. buff'[b] = f /\ \A x \in Buffer : x # b => buff'[x] = buff[x]
  BY <1>1, <1>2 DEF RdsShape
<1>10. rcall'[p] = call /\ \A q \in User : q # p => rcall'[q] = rcall[q]
  BY <1>1, <1>2 DEF RdsShape
<1>11. /\ \A q \in User : q # p => inbox'[q] = inbox[q]
       /\ inbox'[p] = NoMail
  <2>1. inbox[p] = NoMail
    BY <1>2 DEF RdsRunning, RdsMail
  <2> QED BY <1>1, <1>2, <2>1 DEF RdsShape
<1>12. RdsShape'
  <2>1. (/\ rd_state \in {"RD_FREE", "RD_PEND", "RD_OPEN"}
         /\ comm \in RdsComm /\ msgblk \in BLK /\ rd_seq \in Nat
         /\ toserver \in Seq(RdsDatagram) /\ toclient \in Seq(RdsDatagram)
         /\ server \in [BLK -> Content0]
         /\ panicked \in PanicPlace /\ broken \in BOOLEAN /\ gone \in BOOLEAN)'
    BY <1>2, <1>3 DEF RdsShape
  <2>2. (buff \in [Buffer -> [op : {"read", "write", "sync"}, refcnt : {0, 1}, blk : BLK,
                              valid : BOOLEAN, pid : User \cup {"none"}, data : Content0]])'
    BY <1>1, <1>2, <1>5 DEF RdsShape
  <2>3. (\A x \in Buffer : buff[x].refcnt = 1 => buff[x].pid \in User)'
    BY <1>2, <1>5, <1>9 DEF RdsShape
  <2>4. (req \in Seq(Buffer) /\ cache \in Seq(Buffer) /\ free \in Seq(Buffer))'
    BY <1>8 DEF Queue
  <2>5. (reqsem \in Nat /\ syncs \in Nat)'
    BY <1>1, <1>2 DEF RdsShape
  <2>6. (rcall \in [User -> RdsCall])'
    BY <1>1, <1>2, <1>6 DEF RdsShape
  <2>7. (inbox \in [User -> 0 .. RD_BUFFS+1])'
    <3>1. 0 \in 0 .. RD_BUFFS+1
      BY RemoteDiskAssumption
    <3> QED BY <1>1, <1>2, <3>1 DEF RdsShape, NoMail
  <2> QED BY <2>1, <2>2, <2>3, <2>4, <2>5, <2>6, <2>7 DEF RdsShape
<1>13. NoneMissing'
  BY <1>2, <1>3 DEF NoneMissing
<1>14. RdsLists'
  BY <1>2, <1>7, <1>8 DEF RdsRunning, RdsLists
<1>15. RdsRequests'
  <2>1. \A x \in Range(req) : x \in Buffer /\ x # b
    BY <1>2, <1>7 DEF RdsRunning, RdsLists
  <2>2. \A x \in Range(req) : buff[x].op # "write" => buff[x].pid \in User /\ buff[x].pid # p
    BY <1>2 DEF RdsRunning, RdsRequests
  <2>3. ASSUME NEW x \in Range(req)', (buff[x].op # "write")'
        PROVE  (/\ buff[x].pid \in User
                /\ rcall[buff[x].pid].op = "receive"
                /\ rcall[buff[x].pid].sync = (buff[x].op = "sync")
                /\ inbox[buff[x].pid] = NoMail)'
    <3>1. CASE x = b
      <4>1. c.op # "write" /\ call.op = "receive" /\ call.sync = (c.op = "sync")
        BY <1>5, <1>9, <2>3, <3>1 DEF call
      <4> QED BY <1>5, <1>9, <1>10, <1>11, <3>1, <4>1
    <3>2. CASE x # b
      <4>1. x \in Range(req) /\ buff'[x] = buff[x]
        BY <1>8, <1>9, <2>1, <2>3, <3>2
      <4>2. buff[x].pid \in User /\ buff[x].pid # p
        BY <2>2, <2>3, <4>1
      <4>3. rcall'[buff[x].pid] = rcall[buff[x].pid] /\ inbox'[buff[x].pid] = inbox[buff[x].pid]
        BY <1>10, <1>11, <4>2
      <4> QED BY <1>2, <2>3, <4>1, <4>2, <4>3 DEF RdsRunning, RdsRequests
    <3> QED BY <3>1, <3>2
  <2>4. ASSUME NEW x \in Range(req)', NEW y \in Range(req)',
               (buff[x].op # "write" /\ buff[y].op # "write" /\ buff[x].pid = buff[y].pid)'
        PROVE  x = y
    <3>1. CASE x = b \/ y = b
      BY <1>5, <1>8, <1>9, <2>1, <2>2, <2>4, <3>1
    <3>2. CASE x # b /\ y # b
      BY <1>2, <1>8, <1>9, <2>1, <2>4, <3>2 DEF RdsRunning, RdsRequests
    <3> QED BY <3>1, <3>2
  <2> QED BY <2>3, <2>4 DEF RdsRequests
<1>16. RdsMail'
  <2> SUFFICES ASSUME NEW q \in User, inbox'[q] # NoMail
               PROVE  (/\ rcall[q].op = "receive"
                       /\ rcall[q].sync => inbox[q] = OkMail
                       /\ ~rcall[q].sync => /\ inbox[q] \in Range(cache)
                                            /\ buff[inbox[q]].refcnt = 1 /\ buff[inbox[q]].pid = q)'
    BY DEF RdsMail, NoMail, OkMail
  <2>1. q # p /\ rcall'[q] = rcall[q] /\ inbox'[q] = inbox[q] /\ inbox[q] # b
    BY <1>10, <1>11
  <2>2. /\ rcall[q].op = "receive"
        /\ rcall[q].sync => inbox[q] = OkMail
        /\ ~rcall[q].sync => /\ inbox[q] \in Range(cache)
                             /\ buff[inbox[q]].refcnt = 1 /\ buff[inbox[q]].pid = q
    BY <1>2, <2>1 DEF RdsRunning, RdsMail
  <2>3. \A x \in Range(cache) : x \in Buffer
    BY <1>2 DEF RdsRunning, RdsLists
  <2> QED BY <1>9, <2>1, <2>2, <2>3
<1>17. RdsReading'
  <2> SUFFICES ASSUME comm.at = "recv", comm.type = "read"
               PROVE  (req # <<>> /\ Head(req) = comm.buf /\ buff[comm.buf].op = "read")'
    BY <1>3 DEF RdsReading
  <2>1. req # <<>> /\ Head(req) = comm.buf /\ buff[comm.buf].op = "read"
    BY <1>2 DEF RdsRunning, RdsReading
  <2>2. req \in Seq(Buffer)
    BY <1>2 DEF RdsShape
  <2>3. req' # <<>> /\ Head(req') = Head(req)
    BY <1>1, <2>1, <2>2
  <2>4. Head(req) \in Range(req)
    BY <1>2, <2>1, DequeueQueue DEF RdsRunning, RdsLists, IsEmpty
  <2>5. Head(req) \in Buffer /\ Head(req) # b
    BY <1>2, <1>7, <2>4 DEF RdsRunning, RdsLists
  <2> QED BY <1>3, <1>9, <2>1, <2>3, <2>5
<1>18. RdsSemaphore'
  <2>1. InLine(availsem)' \subseteq User
    BY NobodyInLine
  <2>2. \A q \in InLine(availsem)' : rcall'[q].op \in Seeking
    BY <1>10, <2>1
  <2>3. Promised' = OthersIn(p)
    <3>1. rcall'[p].op \notin Seeking
      BY <1>10 DEF call, AtRest, Seeking
    <3> QED BY <1>10, <3>1 DEF Promised, OthersIn, Seeking
  <2>4. (Units(availsem) + Cardinality(Promised) = Len(free) + Len(cache))'
    BY <2>3
  <2> QED BY <2>2, <2>4 DEF RdsSemaphore
<1>19. RdsWoken'
  <2> DEFINE n == IF comm.at = "recv" /\ comm.type = "read" THEN 1 ELSE 0
  <2>1. reqsem + n = Len(req) - syncs /\ n' = n /\ n \in Nat
    BY <1>2, <1>3 DEF RdsRunning, RdsWoken
  <2>2. Len(req) \in Nat /\ reqsem \in Nat /\ syncs \in Nat
    BY <1>2, ListsAre DEF RdsRunning, RdsShape
  <2> HIDE DEF n
  <2>3. reqsem' + n = Len(req') - syncs'
    BY <1>1, <1>8, <2>1, <2>2
  <2> QED BY <2>1, <2>3 DEF RdsWoken, n
<1> QED BY <1>12, <1>13, <1>14, <1>15, <1>16, <1>17, <1>18, <1>19 DEF RdsInv, RdsRunning

\* Everybody who looks for a buffer.
Seekers == {q \in User : rcall[q].op \in Seeking}

LEMMA SeekersAre ==
    ASSUME DiskOK, RdsInv, Runs
    PROVE  /\ IsFiniteSet(User) /\ Seekers \subseteq User /\ InLine(availsem) \subseteq Seekers
           /\ Promised = Seekers \ InLine(availsem)
           /\ SemOK(availsem, User)
           /\ Units(availsem) \in Nat
           /\ IsFiniteSet(Promised) /\ Cardinality(Promised) \in Nat
           /\ Units(availsem) + Cardinality(Promised) = Len(free) + Len(cache)
           /\ Len(req) \in Nat /\ Len(free) \in Nat /\ Len(cache) \in Nat
<1>1. IsFiniteSet(User) /\ SemOK(availsem, User)
      /\ (\A p \in InLine(availsem) : rcall[p].op \in Seeking)
      /\ Units(availsem) + Cardinality(Promised) = Len(free) + Len(cache)
  BY DEF DiskOK, RdsInv, RdsRunning, RdsSemaphore
<1>2. InLine(availsem) \subseteq User
  BY <1>1, NobodyInLine
<1>3. Promised = Seekers \ InLine(availsem)
  BY DEF Promised, Seekers, Seeking
<1>4. IsFiniteSet(Promised) /\ Cardinality(Promised) \in Nat
  BY <1>1, FS_Subset, FS_CardinalityType DEF Promised
<1>5. Units(availsem) \in Nat
  BY <1>1, UnitsAre
<1>6. Len(req) \in Nat /\ Len(free) \in Nat /\ Len(cache) \in Nat
  BY ListsAre DEF RdsInv, RdsRunning
<1> QED BY <1>1, <1>2, <1>3, <1>4, <1>5, <1>6 DEF Seekers

\* Steps that change no more of a buffer than its data, and no list.
LEMMA QuietKeeps ==
    ASSUME RdsInv, Runs,
           UNCHANGED <<rd_state, req, cache, free, availsem, reqsem, rcall, inbox, rdnet,
                       syncs, panicked, broken>>,
           \/ buff' = buff
           \/ \E b \in Buffer, v \in Content0 : buff' = [buff EXCEPT ![b].data = v]
    PROVE  RdsInv'
<1>1. RdsShape /\ NoneMissing /\ RdsRunning
  BY DEF RdsInv
<1>2. /\ \A b \in Buffer : /\ buff'[b].op = buff[b].op /\ buff'[b].pid = buff[b].pid
                           /\ buff'[b].refcnt = buff[b].refcnt
      /\ buff' \in [Buffer -> [op : {"read", "write", "sync"}, refcnt : {0, 1}, blk : BLK,
                               valid : BOOLEAN, pid : User \cup {"none"}, data : Content0]]
  <2>1. buff \in [Buffer -> [op : {"read", "write", "sync"}, refcnt : {0, 1}, blk : BLK,
                               valid : BOOLEAN, pid : User \cup {"none"}, data : Content0]]
    BY <1>1 DEF RdsShape
  <2>2. CASE buff' = buff
    BY <2>1, <2>2
  <2>3. ASSUME NEW b \in Buffer, NEW v \in Content0, buff' = [buff EXCEPT ![b].data = v]
        PROVE  /\ \A x \in Buffer : /\ buff'[x].op = buff[x].op /\ buff'[x].pid = buff[x].pid
                                     /\ buff'[x].refcnt = buff[x].refcnt
               /\ buff' \in [Buffer -> [op : {"read", "write", "sync"}, refcnt : {0, 1},
                                        blk : BLK, valid : BOOLEAN, pid : User \cup {"none"},
                                        data : Content0]]
    <3>1. buff' = [buff EXCEPT ![b] = [buff[b] EXCEPT !.data = v]]
      BY <2>3
    <3> DEFINE f == [buff[b] EXCEPT !.data = v]
    <3>2. /\ f.op = buff[b].op /\ f.pid = buff[b].pid /\ f.refcnt = buff[b].refcnt
          /\ f \in [op : {"read", "write", "sync"}, refcnt : {0, 1}, blk : BLK,
                    valid : BOOLEAN, pid : User \cup {"none"}, data : Content0]
      BY <2>1
    <3> HIDE DEF f
    <3> QED BY <2>1, <3>1, <3>2 DEF f
  <2> QED BY <2>2, <2>3
<1>3. /\ rd_state' = rd_state /\ req' = req /\ cache' = cache /\ free' = free
      /\ availsem' = availsem /\ reqsem' = reqsem /\ rcall' = rcall /\ inbox' = inbox
      /\ comm' = comm /\ rd_seq' = rd_seq /\ msgblk' = msgblk
      /\ toserver' = toserver /\ toclient' = toclient /\ server' = server /\ gone' = gone
      /\ syncs' = syncs /\ panicked' = panicked /\ broken' = broken
  BY DEF rdnet
<1>4. RdsShape'
  BY <1>1, <1>2, <1>3 DEF RdsShape
<1>5. NoneMissing'
  BY <1>1, <1>3 DEF NoneMissing
<1>6. RdsLists' /\ RdsSemaphore' /\ RdsWoken'
  BY <1>1, <1>3 DEF RdsRunning, RdsLists, RdsSemaphore, Promised, RdsWoken
<1>7. Range(req) \subseteq Buffer /\ Range(cache) \subseteq Buffer
  BY <1>1 DEF RdsRunning, RdsLists
<1>8. RdsRequests'
  BY <1>1, <1>2, <1>3, <1>7 DEF RdsRunning, RdsRequests
<1>9. RdsMail'
  BY <1>1, <1>2, <1>3, <1>7 DEF RdsRunning, RdsMail
<1>10. RdsReading'
  <2>1. comm.at = "recv" => comm.buf \in Buffer
    BY <1>1 DEF RdsShape, RdsComm, Waits
  <2> QED BY <1>1, <1>2, <1>3, <2>1 DEF RdsRunning, RdsReading
<1> QED BY <1>4, <1>5, <1>6, <1>8, <1>9, <1>10 DEF RdsInv, RdsRunning

\* Steps by which a caller goes into a call or out of it.
LEMMA CallKeeps ==
    ASSUME RdsInv, Runs, NEW p \in User, NEW c \in RdsCall, c.op # "receive",
           rcall[p].op # "receive", rcall' = [rcall EXCEPT ![p] = c],
           rd_state' \in {"RD_FREE", "RD_PEND", "RD_OPEN"},
           server' \in [BLK -> Content0], gone' \in BOOLEAN,
           UNCHANGED <<rdlists, reqsem, inbox, comm, rd_seq, msgblk, toserver, toclient,
                       syncs, panicked, broken>>,
           RdsSemaphore'
    PROVE  RdsInv'
<1>1. RdsShape /\ NoneMissing /\ RdsRunning
  BY DEF RdsInv
<1>2. /\ req' = req /\ cache' = cache /\ free' = free /\ buff' = buff
      /\ reqsem' = reqsem /\ inbox' = inbox
      /\ comm' = comm /\ rd_seq' = rd_seq /\ msgblk' = msgblk
      /\ toserver' = toserver /\ toclient' = toclient
      /\ syncs' = syncs /\ panicked' = panicked /\ broken' = broken
  BY DEF rdlists
<1>3. rcall'[p] = c /\ (\A q \in User : q # p => rcall'[q] = rcall[q])
      /\ rcall' \in [User -> RdsCall]
  BY <1>1 DEF RdsShape
<1>4. RdsShape'
  BY <1>1, <1>2, <1>3 DEF RdsShape
<1>5. NoneMissing'
  BY <1>1, <1>2 DEF NoneMissing
<1>6. RdsLists' /\ RdsWoken' /\ RdsReading'
  BY <1>1, <1>2 DEF RdsRunning, RdsLists, RdsWoken, RdsReading
<1>7. RdsRequests'
  <2>1. \A b \in Range(req) : buff[b].op # "write" =>
           buff[b].pid \in User /\ rcall'[buff[b].pid] = rcall[buff[b].pid]
    BY <1>1, <1>3 DEF RdsRunning, RdsRequests
  <2> QED BY <1>1, <1>2, <2>1 DEF RdsRunning, RdsRequests
<1>8. RdsMail'
  <2>1. \A q \in User : inbox[q] # NoMail => rcall'[q] = rcall[q]
    BY <1>1, <1>3 DEF RdsRunning, RdsMail
  <2> QED BY <1>1, <1>2, <2>1 DEF RdsRunning, RdsMail
<1> QED BY <1>4, <1>5, <1>6, <1>7, <1>8 DEF RdsInv, RdsRunning

\* A caller that has a unit of availsem finds a buffer.
LEMMA AllocateKeeps ==
    ASSUME DiskOK, RdsInv, Runs, NEW p \in User, NEW c \in RdsRequest,
           Allocate(p, c), rcall[p].op # "receive",
           SemOK(availsem', User),
           \A q \in InLine(availsem)' : q # p /\ rcall[q].op \in Seeking,
           Units(availsem)' + Cardinality(OthersIn(p)) + 1 = Len(free) + Len(cache),
           UNCHANGED <<rd_state, rdnet, broken>>
    PROVE  RdsInv'
<1>1. RdsShape /\ NoneMissing /\ RdsRunning
  BY DEF RdsInv
<1>2. Units(availsem)' \in Nat /\ Cardinality(OthersIn(p)) \in Nat
  BY UnitsAre, FS_Subset, FS_CardinalityType DEF OthersIn, DiskOK
<1>3. Len(req) \in Nat /\ Len(cache) \in Nat /\ Len(free) \in Nat
  BY <1>1, ListsAre DEF RdsRunning
<1>4. /\ cache \in Queue(Buffer) /\ free \in Queue(Buffer)
      /\ cache \in Seq(Buffer) /\ free \in Seq(Buffer) /\ DOMAIN cache = 1 .. Len(cache)
  BY <1>1 DEF RdsRunning, RdsLists, Queue
<1>5. Unused = DOMAIN cache
  BY DEF Allocate, DiskOK
<1>6. \A q \in User : inbox[q] \notin Range(cache)
  <2> SUFFICES ASSUME NEW q \in User, inbox[q] \in Range(cache)
               PROVE  FALSE
    OBVIOUS
  <2>1. inbox[q] \in Buffer
    BY <1>1 DEF RdsRunning, RdsLists
  <2>2. inbox[q] # NoMail
    BY <2>1, RemoteDiskAssumption DEF Buffer, NoMail
  <2>3. PICK k \in DOMAIN cache : cache[k] = inbox[q]
    BY DEF Range
  <2>4. buff[inbox[q]].refcnt <= 0
    BY <1>5, <2>3 DEF Unused
  <2>5. inbox[q] # OkMail
    BY <2>1, RemoteDiskAssumption DEF Buffer, OkMail
  <2>6. buff[inbox[q]].refcnt = 1
    BY <1>1, <2>2, <2>5 DEF RdsRunning, RdsMail
  <2> QED BY <2>4, <2>6
<1>7. CASE free # <<>>
  <2> DEFINE b == Head(free)
  <2>1. b \in Range(free) /\ b \in Buffer /\ Tail(free) \in Queue(Buffer)
        /\ Len(Tail(free)) = Len(free) - 1 /\ Range(Tail(free)) = Range(free) \ {b}
    BY <1>4, <1>7, DequeueQueue DEF IsEmpty
  <2>2. Put(p, c, b) /\ free' = Tail(free) /\ cache' = cache /\ panicked' = panicked
    BY <1>7 DEF Allocate
  <2>3. b \notin Range(cache) /\ Range(cache) \cap Range(free) = {}
    BY <1>1, <2>1 DEF RdsRunning, RdsLists
  <2>4. \A q \in User : inbox[q] # b
    <3>1. b # NoMail /\ b # OkMail
      BY <2>1, RemoteDiskAssumption DEF Buffer, NoMail, OkMail
    <3> HIDE DEF b
    <3> QED BY <1>1, <2>3, <3>1 DEF RdsRunning, RdsMail
  <2>5. Units(availsem)' + Cardinality(OthersIn(p)) = Len(free)' + Len(cache)'
    BY <1>2, <1>3, <2>1, <2>2
  <2> QED BY <1>4, <2>1, <2>2, <2>3, <2>4, <2>5, PutKeeps
<1>8. CASE free = <<>>
  <2>1. Len(cache) >= 1
    BY <1>2, <1>3, <1>8
  <2>2. Unused # {} /\ Max(Unused) = Len(cache)
    <3>1. Unused = 1 .. Len(cache)
      BY <1>4, <1>5
    <3> QED BY <1>3, <2>1, <3>1 DEF Max
  <2> DEFINE n == Len(cache)
             b == cache[n]
  <2>3. /\ Put(p, c, b) /\ free' = free /\ panicked' = panicked
        /\ cache' = RemoveAt(cache, n)
    BY <1>8, <2>2 DEF Allocate
  <2>4. n \in 1 .. Len(cache) /\ n \in DOMAIN cache
    BY <1>3, <1>4, <2>1
  <2>5. b \in Range(cache) /\ b \in Buffer
    BY <1>4, <2>4, SMTT(60) DEF Range
  <2>6. /\ RemoveAt(cache, n) \in Queue(Buffer) /\ Len(RemoveAt(cache, n)) = Len(cache) - 1
        /\ Range(RemoveAt(cache, n)) = Range(cache) \ {b}
    BY <1>4, <2>4, RemoveAtQueue
  <2>7. b \notin Range(free) /\ Range(cache) \cap Range(free) = {}
    BY <1>1, <2>5 DEF RdsRunning, RdsLists
  <2>8. \A q \in User : inbox[q] # b
    BY <1>6, <2>5
  <2> HIDE DEF n
  <2>9. Units(availsem)' + Cardinality(OthersIn(p)) = Len(free)' + Len(cache)'
    BY <1>2, <1>3, <2>3, <2>6
  <2> HIDE DEF b
  <2> QED BY <1>4, <2>3, <2>5, <2>6, <2>7, <2>8, <2>9, PutKeeps
<1> QED BY <1>7, <1>8

\* A caller at rest asks for a buffer.
LEMMA RequestKeeps ==
    ASSUME DiskOK, RdsInv, NEW p \in User, NEW c \in RdsRequest, Free(p), Request(p, c),
           UNCHANGED <<rd_state, rdnet, broken>>
    PROVE  RdsInv'
<1>1. Runs /\ rcall[p] = AtRest /\ rcall[p].op \notin Seeking /\ rcall[p].op # "receive"
  BY DEF Free, AtRest, Seeking
<1> DEFINE s == SemWait(availsem, p)
<1>2. availsem' = s
  BY DEF Request
<1>3. /\ IsFiniteSet(User) /\ Seekers \subseteq User /\ InLine(availsem) \subseteq Seekers
      /\ Promised = Seekers \ InLine(availsem) /\ SemOK(availsem, User)
      /\ Units(availsem) + Cardinality(Promised) = Len(free) + Len(cache)
      /\ Units(availsem) \in Nat /\ Cardinality(Promised) \in Nat
  BY <1>1, SeekersAre
<1>4. p \notin Seekers
  BY <1>1 DEF Seekers
<1>5. /\ SemOK(s, User)
      /\ p \in InLine(s) =>
            /\ InLine(s) = InLine(availsem) \cup {p}
            /\ Units(s) + Cardinality((Seekers \cup {p}) \ InLine(s))
                  = Units(availsem) + Cardinality(Seekers \ InLine(availsem))
      /\ p \notin InLine(s) =>
            /\ InLine(s) = {} /\ InLine(availsem) = {} /\ availsem.count > 0
            /\ Units(s) + 1 = Units(availsem)
  BY <1>3, <1>4, WaitCounts
<1>6. c \in RdsCall /\ c.op \in Seeking /\ c.op # "receive"
  BY RequestFacts DEF Seeking
<1>7. CASE p \in InLine(s)
  <2>1. rcall' = [rcall EXCEPT ![p] = c] /\ UNCHANGED <<rdlists, reqsem, inbox, panicked, syncs>>
    BY <1>7 DEF Request
  <2>2. /\ rd_state' \in {"RD_FREE", "RD_PEND", "RD_OPEN"}
        /\ server' \in [BLK -> Content0] /\ gone' \in BOOLEAN
        /\ UNCHANGED <<comm, rd_seq, msgblk, toserver, toclient, broken>>
    BY DEF RdsInv, RdsShape, rdnet
  <2>3. rcall'[p] = c /\ \A q \in User : q # p => rcall'[q] = rcall[q]
    BY <2>1 DEF RdsInv, RdsShape
  <2>4. \A q \in InLine(s) : rcall'[q].op \in Seeking
    BY <1>3, <1>5, <1>6, <1>7, <2>3 DEF Seekers
  <2>5. Promised' = (Seekers \cup {p}) \ InLine(s)
    BY <1>2, <1>6, <2>3 DEF Promised, Seekers, Seeking
  <2>6. Units(availsem)' + Cardinality(Promised') = Len(free)' + Len(cache)'
    BY <1>2, <1>3, <1>5, <1>7, <2>1, <2>5 DEF rdlists
  <2>7. RdsSemaphore'
    BY <1>2, <1>5, <2>4, <2>6 DEF RdsSemaphore
  <2> HIDE DEF s
  <2> QED BY <1>1, <1>6, <2>1, <2>2, <2>7, CallKeeps
<1>8. CASE p \notin InLine(s)
  <2>1. Allocate(p, c)
    BY <1>8 DEF Request
  <2>2. OthersIn(p) = Promised
    BY <1>2, <1>3, <1>4, <1>5, <1>8 DEF OthersIn, Seekers
  <2>3. Units(availsem)' + Cardinality(OthersIn(p)) + 1 = Len(free) + Len(cache)
    <3>1. Units(availsem)' = Units(s) /\ Units(s) \in Nat
      BY <1>2, <1>5, UnitsAre
    <3> HIDE DEF s
    <3> QED BY <1>3, <1>5, <1>8, <2>2, <3>1
  <2>4. SemOK(availsem', User) /\ InLine(availsem)' = {}
    BY <1>2, <1>5, <1>8
  <2> HIDE DEF s
  <2> QED BY <1>1, <2>1, <2>3, <2>4, AllocateKeeps
<1> QED BY <1>7, <1>8

LEMMA RequestEndKeeps ==
    ASSUME DiskOK, RdsInv, NEW p \in User, RequestEnd(p)
    PROVE  RdsInv'
<1>1. /\ Runs /\ rcall[p].op \in Seeking /\ p \notin InLine(availsem)
      /\ Allocate(p, rcall[p]) /\ availsem' = availsem
      /\ UNCHANGED <<rd_state, rdnet, broken>>
  BY DEF RequestEnd, Seeking
<1>2. rcall[p] \in RdsRequest
  <2>1. rcall[p] \in RdsCall
    BY DEF RdsInv, RdsShape
  <2> QED BY <1>1, <2>1 DEF RdsCall, RdsRequest, Seeking, AtRest
<1>3. /\ IsFiniteSet(User) /\ Seekers \subseteq User /\ InLine(availsem) \subseteq Seekers
      /\ Promised = Seekers \ InLine(availsem) /\ SemOK(availsem, User)
      /\ IsFiniteSet(Promised) /\ Cardinality(Promised) \in Nat /\ Units(availsem) \in Nat
      /\ Units(availsem) + Cardinality(Promised) = Len(free) + Len(cache)
      /\ Len(free) \in Nat /\ Len(cache) \in Nat
  BY <1>1, SeekersAre
<1>4. p \in Promised /\ OthersIn(p) = Promised \ {p}
  BY <1>1, <1>3 DEF OthersIn, Seekers
<1>5. Cardinality(OthersIn(p)) = Cardinality(Promised) - 1
  <2>1. Cardinality(Promised \ {p}) = Cardinality(Promised) - 1
    BY <1>3, <1>4, FS_RemoveElement
  <2> QED BY <1>4, <2>1
<1>6. Units(availsem)' + Cardinality(OthersIn(p)) + 1 = Len(free) + Len(cache)
  BY <1>1, <1>3, <1>5
<1>7. \A q \in InLine(availsem)' : q # p /\ rcall[q].op \in Seeking
  BY <1>1, <1>3 DEF Seekers
<1>8. rcall[p].op # "receive"
  BY <1>1 DEF Seeking
<1> QED BY <1>1, <1>2, <1>3, <1>6, <1>7, <1>8, AllocateKeeps

LEMMA RdsreadKeeps ==
    ASSUME DiskOK, RdsInv, NEW p \in User, NEW blk \in BLK, Rdsread(p, blk)
    PROVE  RdsInv'
<1>1. Free(p) /\ UNCHANGED <<rd_state, rdnet, broken>>
  BY DEF Rdsread
<1>2. \/ UNCHANGED <<rdlists, availsem, reqsem, rcall, inbox, panicked, syncs>>
      \/ Request(p, [op |-> "read", blk |-> blk])
  BY ZenonT(60) DEF Rdsread
<1>3. CASE UNCHANGED <<rdlists, availsem, reqsem, rcall, inbox, panicked, syncs>>
  BY <1>1, <1>3, QuietKeeps DEF Free, rdlists
<1>4. CASE Request(p, [op |-> "read", blk |-> blk])
  <2>1. [op |-> "read", blk |-> blk] \in RdsRequest
    BY DEF RdsRequest
  <2> QED BY <1>1, <1>4, <2>1, RequestKeeps
<1> QED BY <1>2, <1>3, <1>4, Zenon

\* A cached buffer that nobody refers to is taken for a write.
LEMMA TakenKeeps ==
    ASSUME DiskOK, RdsInv, NEW p \in User, NEW c \in RdsRequest, Free(p),
           NEW n \in 1 .. Len(cache), buff[cache[n]].refcnt <= 0, availsem.count > 0,
           cache' = RemoveAt(cache, n), availsem' = UnitTaken(availsem),
           Put(p, c, cache[n]), UNCHANGED <<free, panicked, rd_state, rdnet, broken>>
    PROVE  RdsInv'
<1> DEFINE b == cache[n]
<1>1. Runs /\ rcall[p] = AtRest /\ rcall[p].op \notin Seeking /\ rcall[p].op # "receive"
  BY DEF Free, AtRest, Seeking
<1>2. RdsShape /\ RdsRunning
  BY <1>1 DEF RdsInv
<1>3. /\ IsFiniteSet(User) /\ Seekers \subseteq User
      /\ Promised = Seekers \ InLine(availsem) /\ SemOK(availsem, User)
      /\ Units(availsem) + Cardinality(Promised) = Len(free) + Len(cache)
      /\ Cardinality(Promised) \in Nat /\ Len(free) \in Nat /\ Len(cache) \in Nat
  BY <1>1, SeekersAre
<1>4. cache \in Queue(Buffer) /\ free \in Queue(Buffer) /\ DOMAIN cache = 1 .. Len(cache)
      /\ Range(cache) \cap Range(free) = {} /\ Range(cache) \subseteq Buffer
  BY <1>2 DEF RdsRunning, RdsLists, Queue
<1>5. b \in Range(cache) /\ b \in Buffer /\ b \notin Range(free)
  BY <1>4, SMTT(60) DEF Range
<1>6. /\ RemoveAt(cache, n) \in Queue(Buffer) /\ Len(RemoveAt(cache, n)) = Len(cache) - 1
      /\ Range(RemoveAt(cache, n)) = Range(cache) \ {b}
  BY <1>4, RemoveAtQueue
<1>7. \A q \in User : inbox[q] # b
  <2>1. b # NoMail /\ b # OkMail
    BY <1>5, RemoteDiskAssumption DEF Buffer, NoMail, OkMail
  <2> QED BY <1>2, <2>1 DEF RdsRunning, RdsMail
<1>8. availsem.count \in Int
  BY <1>3 DEF SemOK
<1>9. availsem' = NewSem(availsem.count - 1) /\ availsem.count - 1 \in Nat
  BY <1>8 DEF UnitTaken
<1>10. /\ SemOK(availsem', User) /\ InLine(availsem)' = {} /\ InLine(availsem) = {}
       /\ availsem'.count = availsem.count - 1
  <2> DEFINE n0 == availsem.count - 1
  <2>1. /\ SemOK(NewSem(n0), User) /\ InLine(NewSem(n0)) = {} /\ NewSem(n0).count = n0
    BY <1>9, NewSemOK
  <2>2. InLine(availsem) = {}
    BY <1>3, <1>8, NobodyInLine
  <2> QED BY <1>9, <2>1, <2>2
<1>11. Units(availsem)' = availsem.count - 1 /\ Units(availsem) = availsem.count
  BY <1>3, <1>8, <1>9, <1>10, UnitsAre
<1>12. OthersIn(p) = Promised
  BY <1>1, <1>3, <1>10 DEF OthersIn, Seekers
<1>13. Units(availsem)' + Cardinality(OthersIn(p)) = Len(free)' + Len(cache)'
  BY <1>3, <1>6, <1>8, <1>11, <1>12
<1> HIDE DEF b
<1>14. Put(p, c, b)
  BY DEF b
<1> QED BY <1>1, <1>4, <1>5, <1>6, <1>7, <1>10, <1>13, <1>14, PutKeeps

LEMMA RdswriteKeeps ==
    ASSUME DiskOK, RdsInv, NEW p \in User, NEW blk \in BLK, NEW v \in Data, Rdswrite(p, blk, v)
    PROVE  RdsInv'
<1> DEFINE asked  == {k \in DOMAIN req : buff[req[k]].op = "write" /\ buff[req[k]].blk = blk}
           cached == CachedAt(blk)
           c == [op |-> "write", blk |-> blk, data |-> v]
<1>1. Free(p) /\ Runs /\ UNCHANGED <<rd_state, ret, rdnet, broken>>
  BY DEF Rdswrite, Free
<1>2. /\ req \in Seq(Buffer) /\ cache \in Seq(Buffer) /\ DOMAIN req = 1 .. Len(req)
      /\ DOMAIN cache = 1 .. Len(cache) /\ Len(req) \in Nat /\ Len(cache) \in Nat
  BY DEF RdsInv, RdsShape
<1>3. c \in RdsRequest
  BY DEF RdsRequest
<1>4. CASE /\ asked # {} /\ buff' = [buff EXCEPT ![req[Min(asked)]].data = v]
           /\ UNCHANGED <<req, cache, free, availsem, reqsem, rcall, inbox, panicked, syncs>>
  <2>1. Min(asked) \in 1 .. Len(req)
    <3>1. asked \subseteq 1 .. Len(req) /\ asked \subseteq Nat
      BY <1>2
    <3>2. Min(asked) \in asked
      BY <1>4, <3>1, MinNat
    <3> QED BY <3>1, <3>2
  <2>2. req[Min(asked)] \in Buffer /\ v \in Content0
    BY <1>2, <2>1 DEF Content0
  <2> QED BY <1>1, <1>4, <2>2, QuietKeeps
<1>5. CASE /\ cached # {} /\ buff[cache[Min(cached)]].refcnt <= 0
           /\ availsem.count > 0 \/ "overtaken" \in RdsCareless
           /\ cache' = RemoveAt(cache, Min(cached)) /\ availsem' = UnitTaken(availsem)
           /\ Put(p, c, cache[Min(cached)]) /\ UNCHANGED <<free, panicked>>
  <2>1. Min(cached) \in 1 .. Len(cache)
    <3>1. cached \subseteq 1 .. Len(cache) /\ cached \subseteq Nat
      BY <1>2 DEF CachedAt
    <3>2. Min(cached) \in cached
      BY <1>5, <3>1, MinNat
    <3> QED BY <3>1, <3>2
  <2>2. availsem.count > 0
    BY <1>5 DEF DiskOK
  <2> HIDE DEF c, cached
  <2> QED BY <1>1, <1>3, <1>5, <2>1, <2>2, TakenKeeps
<1>6. CASE Request(p, c)
  BY <1>1, <1>3, <1>6, RequestKeeps
<1> QED BY <1>4, <1>5, <1>6 DEF Rdswrite

LEMMA RdsSyncKeeps ==
    ASSUME DiskOK, RdsInv, NEW p \in User, RdsSync(p)
    PROVE  RdsInv'
<1>1. [op |-> "sync", blk |-> 0] \in RdsRequest
  BY RemoteDiskAssumption DEF RdsRequest
<1>2. Free(p) /\ Request(p, [op |-> "sync", blk |-> 0]) /\ UNCHANGED <<rd_state, rdnet, broken>>
  BY DEF RdsSync
<1> QED BY <1>1, <1>2, RequestKeeps

\* The disk is opened or deleted, and nothing is closed: a call begins, ends or
\* fails at once.
LEMMA ExchangeKeeps ==
    ASSUME RdsInv, Runs, NEW p \in User, rcall[p].op \in {"none", "open", "delete"},
           NEW c \in {AtRest, [op |-> "open"], [op |-> "delete"], rcall[p]},
           rcall' = [rcall EXCEPT ![p] = c],
           rd_state' \in {"RD_FREE", "RD_PEND", "RD_OPEN"},
           server' \in [BLK -> Content0], gone' \in BOOLEAN,
           UNCHANGED <<rdlists, availsem, reqsem, inbox, comm, rd_seq, msgblk, toserver,
                       toclient, syncs, panicked, broken>>
    PROVE  RdsInv'
<1>1. RdsShape /\ RdsSemaphore
  BY DEF RdsInv, RdsRunning
<1>2. rcall[p].op \notin Seeking /\ rcall[p].op # "receive"
  BY DEF Seeking
<1>3. c \in RdsCall /\ c.op \notin Seeking /\ c.op # "receive"
  BY <1>1, <1>2 DEF RdsShape, RdsCall, AtRest, Seeking
<1>4. rcall'[p] = c /\ \A q \in User : q # p => rcall'[q] = rcall[q]
  BY <1>1 DEF RdsShape
<1>5. Promised' = Promised
  BY <1>2, <1>3, <1>4 DEF Promised, Seeking
<1>6. RdsSemaphore'
  <2>1. InLine(availsem) \subseteq User
    BY <1>1, NobodyInLine DEF RdsSemaphore
  <2>2. \A q \in InLine(availsem) : rcall'[q].op \in Seeking
    BY <1>1, <1>2, <1>4, <2>1 DEF RdsSemaphore
  <2> QED BY <1>1, <1>5, <2>2 DEF RdsSemaphore, rdlists
<1> QED BY <1>2, <1>3, <1>6, CallKeeps

LEMMA RdsopenKeeps ==
    ASSUME RdsInv, NEW p \in User, RdsopenBegin(p) \/ RdsopenBadId(p) \/ RdsopenEnd(p)
    PROVE  RdsInv'
<1>1. RdsShape /\ Runs /\ rcall \in [User -> RdsCall] /\ Blank \in Content0
  BY DEF RdsInv, RdsShape, RdsopenBegin, RdsopenBadId, RdsopenEnd, Free, Content0
<1>2. CASE RdsopenBegin(p)
  <2>1. /\ rcall[p].op = "none"
        /\ UNCHANGED <<rdlists, availsem, reqsem, inbox, comm, rd_seq, msgblk, toserver,
                       toclient, syncs, panicked, broken>>
    BY <1>2 DEF RdsopenBegin, Free, AtRest
  <2>2. CASE SlotTaken
    <3>1. MadeAnew /\ rd_state' = rd_state /\ rcall' = [rcall EXCEPT ![p] = rcall[p]]
      BY <1>1, <1>2, <2>2 DEF RdsopenBegin
    <3>2. rd_state' \in {"RD_FREE", "RD_PEND", "RD_OPEN"}
      BY <1>1, <3>1 DEF RdsShape
    <3>3. server' \in [BLK -> Content0] /\ gone' \in BOOLEAN
      BY <1>1, <3>1 DEF MadeAnew, RdsShape
    <3> QED BY <1>1, <2>1, <3>1, <3>2, <3>3, ExchangeKeeps
  <2>3. CASE ~SlotTaken
    <3>1. /\ rd_state' = "RD_PEND" /\ rcall' = [rcall EXCEPT ![p] = [op |-> "open"]]
          /\ server' = server /\ gone' = gone
      BY <1>2, <2>3 DEF RdsopenBegin
    <3>2. server' \in [BLK -> Content0] /\ gone' \in BOOLEAN
      BY <1>1, <3>1 DEF RdsShape
    <3> QED BY <1>1, <2>1, <3>1, <3>2, ExchangeKeeps
  <2> QED BY <2>2, <2>3
<1>3. CASE RdsopenBadId(p)
  <2>1. /\ rcall[p].op = "none" /\ rcall' = [rcall EXCEPT ![p] = rcall[p]]
        /\ rd_state' = "RD_PEND"
        /\ UNCHANGED <<rdlists, availsem, reqsem, inbox, rdnet, syncs, panicked, broken>>
    BY <1>1, <1>3 DEF RdsopenBadId, Free, AtRest
  <2>2. /\ server' \in [BLK -> Content0] /\ gone' \in BOOLEAN
        /\ UNCHANGED <<comm, rd_seq, msgblk, toserver, toclient>>
    BY <1>1, <2>1 DEF RdsShape, rdnet
  <2> QED BY <1>1, <2>1, <2>2, ExchangeKeeps
<1>4. CASE RdsopenEnd(p)
  <2>1. /\ rcall[p].op = "open" /\ rcall' = [rcall EXCEPT ![p] = AtRest]
        /\ rd_state' \in {"RD_FREE", "RD_PEND", "RD_OPEN"} /\ MadeAnew
        /\ UNCHANGED <<rdlists, availsem, reqsem, inbox, comm, rd_seq, msgblk, toserver,
                       toclient, syncs, panicked, broken>>
    BY <1>4 DEF RdsopenEnd
  <2>2. server' \in [BLK -> Content0] /\ gone' \in BOOLEAN
    BY <1>1, <2>1 DEF MadeAnew, RdsShape
  <2> QED BY <1>1, <2>1, <2>2, ExchangeKeeps
<1> QED BY <1>2, <1>3, <1>4

\* A caller that waits to be sent something goes on: it has had its mail.
LEMMA MailTaken ==
    ASSUME RdsInv, Runs, NEW p \in User, rcall[p].op = "receive", inbox[p] # NoMail,
           inbox' = [inbox EXCEPT ![p] = NoMail], rcall' = [rcall EXCEPT ![p] = AtRest],
           UNCHANGED <<rd_state, req, reqsem, availsem, rdnet, syncs, panicked, broken>>,
           \/ buff' = buff
           \/ ~rcall[p].sync /\ buff' = [buff EXCEPT ![inbox[p]].refcnt = 0],
           \/ UNCHANGED <<cache, free>>
           \/ /\ ~rcall[p].sync
              /\ \E n \in 1 .. Len(cache) :
                    cache[n] = inbox[p] /\ cache' = RemoveAt(cache, n)
              /\ free' = <<inbox[p]>> \o free
    PROVE  RdsInv'
<1> DEFINE b == inbox[p]
           BuffType == [op : {"read", "write", "sync"}, refcnt : {0, 1}, blk : BLK,
                        valid : BOOLEAN, pid : User \cup {"none"}, data : Content0]
<1>1. RdsShape /\ NoneMissing /\ RdsRunning
  BY DEF RdsInv
<1>2. /\ rd_state' = rd_state /\ req' = req /\ reqsem' = reqsem /\ availsem' = availsem
      /\ comm' = comm /\ rd_seq' = rd_seq /\ msgblk' = msgblk
      /\ toserver' = toserver /\ toclient' = toclient /\ server' = server /\ gone' = gone
      /\ syncs' = syncs /\ panicked' = panicked /\ broken' = broken
  BY DEF rdnet
<1>3. /\ rcall'[p] = AtRest /\ inbox'[p] = NoMail
      /\ \A q \in User : q # p => rcall'[q] = rcall[q] /\ inbox'[q] = inbox[q]
      /\ AtRest \in RdsCall /\ AtRest.op = "none"
  BY <1>1 DEF RdsShape, RdsCall, AtRest
<1>4. ~rcall[p].sync => /\ b \in Range(cache) /\ b \in Buffer /\ b \notin Range(req)
                        /\ b \notin Range(free) /\ buff[b].pid = p
  BY <1>1 DEF RdsRunning, RdsMail, RdsLists
<1>5. /\ buff' \in [Buffer -> BuffType]
      /\ \A x \in Buffer : /\ buff'[x].op = buff[x].op /\ buff'[x].pid = buff[x].pid
                           /\ buff'[x].refcnt \in {0, buff[x].refcnt}
                           /\ x # b \/ rcall[p].sync => buff'[x] = buff[x]
  <2>1. buff \in [Buffer -> BuffType]
    BY <1>1 DEF RdsShape
  <2>2. CASE buff' = buff
    BY <2>1, <2>2
  <2>3. CASE ~rcall[p].sync /\ buff' = [buff EXCEPT ![b].refcnt = 0]
    <3> DEFINE f == [buff[b] EXCEPT !.refcnt = 0]
    <3>1. buff' = [buff EXCEPT ![b] = f] /\ b \in Buffer
      BY <1>4, <2>3
    <3>2. f.op = buff[b].op /\ f.pid = buff[b].pid /\ f.refcnt = 0 /\ f \in BuffType
      BY <2>1, <3>1
    <3> HIDE DEF f, b, BuffType
    <3> QED BY <2>1, <2>3, <3>1, <3>2
  <2> QED BY <2>2, <2>3
<1> HIDE DEF BuffType
<1>6. /\ cache' \in Queue(Buffer) /\ free' \in Queue(Buffer)
      /\ Range(cache)' \cap Range(free)' = {}
      /\ Range(cache)' \cup Range(free)' = Range(cache) \cup Range(free)
      /\ Len(free)' + Len(cache)' = Len(free) + Len(cache)
      /\ \A x \in Range(cache) : x \in Range(cache)' \/ (x = b /\ ~rcall[p].sync)
  <2>1. /\ cache \in Queue(Buffer) /\ free \in Queue(Buffer) /\ Range(cache) \cap Range(free) = {}
        /\ Len(cache) \in Nat /\ Len(free) \in Nat
    BY <1>1, ListsAre DEF RdsRunning, RdsLists
  <2>2. CASE UNCHANGED <<cache, free>>
    BY <2>1, <2>2
  <2>3. ASSUME ~rcall[p].sync, NEW n \in 1 .. Len(cache), cache[n] = b,
               cache' = RemoveAt(cache, n), free' = <<b>> \o free
        PROVE  /\ cache' \in Queue(Buffer) /\ free' \in Queue(Buffer)
               /\ Range(cache)' \cap Range(free)' = {}
               /\ Range(cache)' \cup Range(free)' = Range(cache) \cup Range(free)
               /\ Len(free)' + Len(cache)' = Len(free) + Len(cache)
               /\ \A x \in Range(cache) : x \in Range(cache)' \/ (x = b /\ ~rcall[p].sync)
    <3>1. /\ cache' \in Queue(Buffer) /\ Len(cache') = Len(cache) - 1
          /\ Range(cache') = Range(cache) \ {b}
      BY <2>1, <2>3, RemoveAtQueue
    <3>2. /\ free' \in Queue(Buffer) /\ Range(free') = Range(free) \cup {b}
          /\ Len(free') = Len(free) + 1
      BY <1>4, <2>1, <2>3, PrependQueue
    <3> HIDE DEF b
    <3> QED BY <1>4, <2>1, <2>3, <3>1, <3>2
  <2> QED BY <2>2, <2>3
<1> HIDE DEF b
<1>7. RdsShape'
  <2>1. (/\ rd_state \in {"RD_FREE", "RD_PEND", "RD_OPEN"}
         /\ comm \in RdsComm /\ msgblk \in BLK /\ rd_seq \in Nat
         /\ toserver \in Seq(RdsDatagram) /\ toclient \in Seq(RdsDatagram)
         /\ server \in [BLK -> Content0] /\ reqsem \in Nat /\ syncs \in Nat
         /\ panicked \in PanicPlace /\ broken \in BOOLEAN /\ gone \in BOOLEAN)'
    BY <1>1, <1>2 DEF RdsShape
  <2>2. (\A x \in Buffer : buff[x].refcnt = 1 => buff[x].pid \in User)'
    BY <1>1, <1>5 DEF RdsShape
  <2>3. (req \in Seq(Buffer) /\ cache \in Seq(Buffer) /\ free \in Seq(Buffer))'
    BY <1>1, <1>2, <1>6 DEF RdsShape, Queue
  <2>4. (rcall \in [User -> RdsCall])'
    BY <1>1, <1>3 DEF RdsShape
  <2>5. (inbox \in [User -> 0 .. RD_BUFFS+1])'
    <3>1. NoMail \in 0 .. RD_BUFFS+1
      BY RemoteDiskAssumption DEF NoMail
    <3> QED BY <1>1, <3>1 DEF RdsShape
  <2> QED BY <1>5, <2>1, <2>2, <2>3, <2>4, <2>5 DEF RdsShape, BuffType
<1>8. NoneMissing' /\ RdsWoken'
  BY <1>1, <1>2 DEF NoneMissing, RdsRunning, RdsWoken
<1>9. RdsLists'
  BY <1>1, <1>2, <1>6 DEF RdsRunning, RdsLists
<1>10. Range(req) \subseteq Buffer /\ Range(cache) \subseteq Buffer
  BY <1>1 DEF RdsRunning, RdsLists
<1>11. RdsRequests'
  <2>1. \A x \in Range(req) : buff[x].op # "write" => buff[x].pid \in User /\ buff[x].pid # p
    BY <1>1 DEF RdsRunning, RdsRequests
  <2> QED BY <1>1, <1>2, <1>3, <1>5, <1>10, <2>1 DEF RdsRunning, RdsRequests
<1>12. RdsMail'
  <2> SUFFICES ASSUME NEW q \in User, inbox'[q] # NoMail
               PROVE  /\ rcall'[q].op = "receive"
                      /\ rcall'[q].sync => inbox'[q] = OkMail
                      /\ ~rcall'[q].sync => /\ inbox'[q] \in Range(cache)'
                                            /\ buff'[inbox'[q]].refcnt = 1
                                            /\ buff'[inbox'[q]].pid = q
    BY DEF RdsMail, NoMail, OkMail
  <2>1. q # p /\ rcall'[q] = rcall[q] /\ inbox'[q] = inbox[q]
    BY <1>3
  <2>2. /\ rcall[q].op = "receive"
        /\ rcall[q].sync => inbox[q] = OkMail
        /\ ~rcall[q].sync => /\ inbox[q] \in Range(cache)
                             /\ buff[inbox[q]].refcnt = 1 /\ buff[inbox[q]].pid = q
    BY <1>1, <2>1 DEF RdsRunning, RdsMail
  <2>3. ASSUME ~rcall[q].sync
        PROVE  inbox[q] \in Range(cache)' /\ buff'[inbox[q]] = buff[inbox[q]]
    <3>1. inbox[q] \in Buffer
      BY <1>10, <2>2, <2>3
    <3>2. inbox[q] # b \/ rcall[p].sync
      BY <1>4, <2>1, <2>2, <2>3
    <3> QED BY <1>5, <1>6, <2>2, <2>3, <3>1, <3>2
  <2> QED BY <2>1, <2>2, <2>3
<1>13. RdsReading'
  <2>1. comm.at = "recv" => comm.buf \in Buffer
    BY <1>1 DEF RdsShape, RdsComm, Waits
  <2> QED BY <1>1, <1>2, <1>5, <2>1 DEF RdsRunning, RdsReading
<1>14. RdsSemaphore'
  <2>1. Promised' = Promised
    BY <1>2, <1>3 DEF Promised
  <2>2. InLine(availsem) \subseteq User /\ \A q \in InLine(availsem) : rcall'[q].op \in Seeking
    <3>1. InLine(availsem) \subseteq User /\ p \notin InLine(availsem)
      BY <1>1, NobodyInLine DEF RdsRunning, RdsSemaphore, Seeking
    <3> QED BY <1>1, <1>3, <3>1 DEF RdsRunning, RdsSemaphore
  <2> QED BY <1>1, <1>2, <1>6, <2>1, <2>2 DEF RdsRunning, RdsSemaphore
<1> QED BY <1>7, <1>8, <1>9, <1>11, <1>12, <1>13, <1>14 DEF RdsInv, RdsRunning

LEMMA RdsSyncEndKeeps ==
    ASSUME RdsInv, NEW p \in User, RdsSyncEnd(p)
    PROVE  RdsInv'
<1>1. /\ Runs /\ rcall[p].op = "receive" /\ inbox[p] # NoMail
      /\ inbox' = [inbox EXCEPT ![p] = NoMail] /\ rcall' = [rcall EXCEPT ![p] = AtRest]
      /\ UNCHANGED <<rd_state, rdlists, availsem, reqsem, rdnet, panicked, broken, syncs>>
  BY DEF RdsSyncEnd
<1> QED BY <1>1, MailTaken DEF rdlists

LEMMA RdsreadEndKeeps ==
    ASSUME RdsInv, NEW p \in User, RdsreadEnd(p)
    PROVE  RdsInv'
<1> DEFINE b == inbox[p]
           here == {k \in DOMAIN cache : cache[k] = b}
           drop == buff[b].refcnt - 1 <= 0 /\ \E k \in CachedAt(rcall[p].blk) : k < Min(here)
<1>1. /\ Runs /\ rcall[p].op = "receive" /\ ~rcall[p].sync /\ b # NoMail
      /\ buff' = [buff EXCEPT ![b].refcnt = buff[b].refcnt - 1]
      /\ cache' = IF drop THEN RemoveAt(cache, Min(here)) ELSE cache
      /\ free' = IF drop THEN <<b>> \o free ELSE free
      /\ inbox' = [inbox EXCEPT ![p] = NoMail] /\ rcall' = [rcall EXCEPT ![p] = AtRest]
      /\ UNCHANGED <<rd_state, req, availsem, reqsem, rdnet, panicked, broken, syncs>>
  BY DEF RdsreadEnd
<1>2. b \in Range(cache) /\ buff[b].refcnt = 1
  BY <1>1 DEF RdsInv, RdsRunning, RdsMail
<1>3. buff' = [buff EXCEPT ![b].refcnt = 0]
  BY <1>1, <1>2
<1>4. Min(here) \in 1 .. Len(cache) /\ cache[Min(here)] = b
  <2>1. DOMAIN cache = 1 .. Len(cache) /\ Len(cache) \in Nat
    BY DEF RdsInv, RdsShape
  <2>2. here \subseteq Nat /\ here # {}
    BY <1>2, <2>1 DEF Range
  <2>3. Min(here) \in here
    BY <2>2, MinNat
  <2> QED BY <2>1, <2>3
<1> HIDE DEF here
<1>5. CASE drop
  <2>1. cache' = RemoveAt(cache, Min(here)) /\ free' = <<b>> \o free
    BY <1>1, <1>5
  <2> QED BY <1>1, <1>3, <1>4, <2>1, MailTaken
<1>6. CASE ~drop
  <2>1. UNCHANGED <<cache, free>>
    BY <1>1, <1>6
  <2> QED BY <1>1, <1>3, <2>1, MailTaken
<1> QED BY <1>5, <1>6

\* The disk is closed when nobody else is in a call.
LEMMA ClosesKeeps ==
    ASSUME DiskOK, RdsInv, Runs, NEW p \in User, Closes(p), req = <<>>,
           rcall[p].op \in {"none", "delete"}, rcall' = [rcall EXCEPT ![p] = AtRest],
           gone' \in BOOLEAN,
           UNCHANGED <<availsem, reqsem, inbox, comm, rd_seq, msgblk, toserver, toclient,
                       server, panicked, broken, syncs>>
    PROVE  RdsInv'
<1>1. /\ free' = Reverse(cache) \o free
      /\ buff' = [b \in Buffer |-> [buff[b] EXCEPT !.valid = @ /\ b \notin Range(cache)]]
      /\ cache' = <<>> /\ rd_state' = "RD_FREE" /\ req' = req
      /\ \A q \in User \ {p} : rcall[q] = AtRest
  BY DEF Closes, DiskOK
<1>2. RdsShape /\ NoneMissing /\ RdsRunning
  BY DEF RdsInv
<1>3. /\ req' = req /\ reqsem' = reqsem /\ availsem' = availsem /\ inbox' = inbox
      /\ comm' = comm /\ rd_seq' = rd_seq /\ msgblk' = msgblk
      /\ toserver' = toserver /\ toclient' = toclient /\ server' = server
      /\ syncs' = syncs /\ panicked' = panicked /\ broken' = broken
      /\ rcall' \in [User -> RdsCall]
      /\ \A q \in User : rcall[q].op \in {"none", "delete"} /\ rcall'[q] = AtRest
  BY <1>1, <1>2 DEF RdsShape, RdsCall, AtRest
<1>4. /\ \A b \in Buffer : buff'[b].pid = buff[b].pid /\ buff'[b].refcnt = buff[b].refcnt
      /\ buff' \in [Buffer -> [op : {"read", "write", "sync"}, refcnt : {0, 1}, blk : BLK,
                               valid : BOOLEAN, pid : User \cup {"none"}, data : Content0]]
  <2> SUFFICES ASSUME NEW b \in Buffer
               PROVE  /\ buff'[b].pid = buff[b].pid /\ buff'[b].refcnt = buff[b].refcnt
                      /\ buff'[b] \in [op : {"read", "write", "sync"}, refcnt : {0, 1}, blk : BLK,
                                       valid : BOOLEAN, pid : User \cup {"none"}, data : Content0]
    BY <1>1
  <2>1. buff[b] \in [op : {"read", "write", "sync"}, refcnt : {0, 1}, blk : BLK,
                     valid : BOOLEAN, pid : User \cup {"none"}, data : Content0]
    BY <1>2 DEF RdsShape
  <2> DEFINE v == buff[b].valid /\ b \notin Range(cache)
  <2>2. buff'[b] = [buff[b] EXCEPT !.valid = v] /\ v \in BOOLEAN
    BY <1>1
  <2> HIDE DEF v
  <2> QED BY <2>1, <2>2
<1>5. /\ cache \in Queue(Buffer) /\ free \in Queue(Buffer) /\ Range(cache) \cap Range(free) = {}
      /\ Range(req) \cup Range(cache) \cup Range(free) = Buffer
      /\ Range(req) \cap Range(cache) = {} /\ Range(req) \cap Range(free) = {}
      /\ Len(cache) \in Nat /\ Len(free) \in Nat
  BY <1>2, ListsAre DEF RdsRunning, RdsLists
<1>6. /\ free' \in Queue(Buffer) /\ Range(free') = Range(cache) \cup Range(free)
      /\ Len(free') = Len(cache) + Len(free)
  <2>1. /\ Reverse(cache) \in Queue(Buffer) /\ Range(Reverse(cache)) = Range(cache)
        /\ Len(Reverse(cache)) = Len(cache)
    BY <1>5, ReverseQueue
  <2> DEFINE r == Reverse(cache)
  <2> HIDE DEF r
  <2>2. /\ r \o free \in Queue(Buffer) /\ Range(r \o free) = Range(r) \cup Range(free)
        /\ Len(r \o free) = Len(r) + Len(free)
    BY <1>5, <2>1, ConcatQueue DEF r
  <2> QED BY <1>1, <2>1, <2>2 DEF r
<1>7. cache' \in Queue(Buffer) /\ Range(cache') = {} /\ Len(cache') = 0
  BY <1>1, EmptyQueue
<1>8. RdsShape'
  <2>1. (\A b \in Buffer : buff[b].refcnt = 1 => buff[b].pid \in User)'
    BY <1>2, <1>4 DEF RdsShape
  <2>2. (req \in Seq(Buffer) /\ cache \in Seq(Buffer) /\ free \in Seq(Buffer))'
    BY <1>2, <1>3, <1>6, <1>7 DEF RdsShape, Queue
  <2> QED BY <1>1, <1>2, <1>3, <1>4, <2>1, <2>2 DEF RdsShape
<1>9. NoneMissing' /\ RdsWoken'
  BY <1>2, <1>3 DEF NoneMissing, RdsRunning, RdsWoken
<1>10. RdsLists'
  BY <1>2, <1>3, <1>5, <1>6, <1>7 DEF RdsRunning, RdsLists
<1>11. Range(req) = {}
  BY <1>1, EmptyQueue
<1>12. RdsRequests'
  BY <1>3, <1>11 DEF RdsRequests
<1>13. RdsMail'
  <2>1. \A q \in User : inbox[q] = NoMail
    BY <1>2, <1>3 DEF RdsRunning, RdsMail
  <2> QED BY <1>3, <2>1 DEF RdsMail, NoMail
<1>14. RdsReading'
  BY <1>1, <1>2, <1>3 DEF RdsRunning, RdsReading
<1>15. RdsSemaphore'
  <2>1. Promised = {} /\ Promised' = {}
    BY <1>3 DEF Promised, AtRest
  <2>2. InLine(availsem) = {}
    <3>1. InLine(availsem) \subseteq User
      BY <1>2, NobodyInLine DEF RdsRunning, RdsSemaphore
    <3> QED BY <1>2, <1>3, <3>1 DEF RdsRunning, RdsSemaphore, Seeking
  <2> QED BY <1>2, <1>3, <1>5, <1>6, <1>7, <2>1, <2>2 DEF RdsRunning, RdsSemaphore
<1> QED BY <1>8, <1>9, <1>10, <1>12, <1>13, <1>14, <1>15 DEF RdsInv, RdsRunning

LEMMA RdscloseKeeps ==
    ASSUME DiskOK, RdsInv, NEW p \in User, Rdsclose(p)
    PROVE  RdsInv'
<1>1. /\ Runs /\ req = <<>> /\ Closes(p) /\ rcall[p] = AtRest /\ rcall' = rcall
      /\ UNCHANGED <<availsem, reqsem, inbox, rdnet, panicked, broken, syncs>>
  BY DEF Rdsclose, Free
<1>2. /\ rcall[p].op = "none" /\ rcall' = [rcall EXCEPT ![p] = AtRest]
      /\ gone' \in BOOLEAN
      /\ UNCHANGED <<comm, rd_seq, msgblk, toserver, toclient, server>>
  BY <1>1 DEF RdsInv, RdsShape, AtRest, rdnet
<1> QED BY <1>1, <1>2, ClosesKeeps

\* Deleting the disk: with the answer it may be closed.
LEMMA RdsDeleteKeeps ==
    ASSUME DiskOK, RdsInv, NEW p \in User, RdsDelete(p) \/ RdsDeleteEnd(p)
    PROVE  RdsInv'
<1>1. /\ Runs /\ rcall \in [User -> RdsCall] /\ gone \in BOOLEAN
      /\ server \in [BLK -> Content0] /\ rd_state \in {"RD_FREE", "RD_PEND", "RD_OPEN"}
  BY DEF RdsInv, RdsShape, RdsDelete, RdsDeleteEnd, Free
<1>2. CASE RdsDelete(p)
  <2>1. /\ rcall[p] = AtRest
        /\ \/ rcall' = rcall \/ rcall' = [rcall EXCEPT ![p] = [op |-> "delete"]]
        /\ gone' \in {gone, TRUE}
        /\ UNCHANGED <<rd_state, rdlists, availsem, reqsem, inbox, comm, rd_seq, msgblk,
                       toserver, toclient, server, panicked, broken, syncs>>
    BY <1>2 DEF RdsDelete, Free
  <2>2. PICK c \in {[op |-> "delete"], rcall[p]} : rcall' = [rcall EXCEPT ![p] = c]
    <3>1. rcall = [rcall EXCEPT ![p] = rcall[p]]
      BY <1>1
    <3> QED BY <2>1, <3>1
  <2>3. rcall[p].op = "none"
    BY <2>1 DEF AtRest
  <2>4. gone' \in BOOLEAN
    BY <1>1, <2>1, Zenon
  <2> QED BY <1>1, <2>1, <2>2, <2>3, <2>4, ExchangeKeeps
<1>3. CASE RdsDeleteEnd(p)
  <2>1. /\ rcall[p].op = "delete" /\ rcall' = [rcall EXCEPT ![p] = AtRest]
        /\ gone' \in BOOLEAN
        /\ (req = <<>> /\ Closes(p)) \/ UNCHANGED <<rd_state, rdlists>>
        /\ UNCHANGED <<availsem, reqsem, inbox, comm, rd_seq, msgblk, toserver, toclient,
                       server, panicked, broken, syncs>>
    BY <1>1, <1>3 DEF RdsDeleteEnd
  <2>2. CASE req = <<>> /\ Closes(p)
    BY <1>1, <2>1, <2>2, ClosesKeeps
  <2>3. CASE UNCHANGED <<rd_state, rdlists>>
    BY <1>1, <2>1, <2>3, ExchangeKeeps
  <2> QED BY <2>1, <2>2, <2>3
<1> QED BY <1>2, <1>3

-----------------------------------------------------------------------------
\* The communication process and the network.

LEMMA SentOK ==
    ASSUME NEW net \in Seq(RdsDatagram), NEW m \in RdsDatagram
    PROVE  Sent(net, m) \in Seq(RdsDatagram)
  BY DEF Sent

\* Only datagrams move, or the exchange that is under way is tried again.
LEMMA NetKeeps ==
    ASSUME RdsInv, Runs,
           UNCHANGED <<rd_state, rdlists, availsem, reqsem, rcall, inbox, syncs, broken,
                       rd_seq, msgblk>>,
           comm' \in RdsComm, comm'.at = comm.at,
           comm.at = "recv" => comm'.type = comm.type /\ comm'.buf = comm.buf,
           toserver' \in Seq(RdsDatagram), toclient' \in Seq(RdsDatagram),
           server' \in [BLK -> Content0], gone' \in BOOLEAN,
           panicked' \in PanicPlace, NoneMissing'
    PROVE  RdsInv'
<1>1. RdsShape /\ RdsRunning
  BY DEF RdsInv
<1>2. /\ rd_state' = rd_state /\ req' = req /\ cache' = cache /\ free' = free /\ buff' = buff
      /\ availsem' = availsem /\ reqsem' = reqsem /\ rcall' = rcall /\ inbox' = inbox
      /\ syncs' = syncs /\ broken' = broken /\ rd_seq' = rd_seq /\ msgblk' = msgblk
  BY DEF rdlists
<1>3. RdsShape'
  BY <1>1, <1>2 DEF RdsShape
<1>4. RdsLists' /\ RdsRequests' /\ RdsMail'
  BY <1>1, <1>2 DEF RdsRunning, RdsLists, RdsRequests, RdsMail
<1>5. RdsSemaphore'
  BY <1>1, <1>2 DEF RdsRunning, RdsSemaphore, Promised
<1>6. RdsReading' /\ RdsWoken'
  BY <1>1, <1>2 DEF RdsRunning, RdsReading, RdsWoken
<1> QED BY <1>3, <1>4, <1>5, <1>6 DEF RdsInv, RdsRunning

LEMMA ServerKeeps ==
    ASSUME RdsInv, Server \/ Lose
    PROVE  RdsInv'
<1>1. RdsShape /\ NoneMissing /\ Runs
  BY DEF RdsInv, Server, Lose
<1>2. /\ gone' = gone
      /\ UNCHANGED <<rd_state, rdlists, availsem, reqsem, rcall, inbox, syncs, broken,
                     rd_seq, msgblk, comm, panicked>>
  BY DEF Server, Lose
<1>3. /\ toserver' \in Seq(RdsDatagram) /\ toclient' \in Seq(RdsDatagram)
      /\ server' \in [BLK -> Content0]
  <2>1. CASE Lose
    <3>1. /\ \/ toserver # <<>> /\ toserver' = Tail(toserver) /\ toclient' = toclient
             \/ toclient # <<>> /\ toclient' = Tail(toclient) /\ toserver' = toserver
          /\ server' = server
      BY <2>1 DEF Lose
    <3>2. /\ toserver \in Seq(RdsDatagram) /\ toclient \in Seq(RdsDatagram)
          /\ server \in [BLK -> Content0]
      BY <1>1 DEF RdsShape
    <3>3. /\ toserver # <<>> => Tail(toserver) \in Seq(RdsDatagram)
          /\ toclient # <<>> => Tail(toclient) \in Seq(RdsDatagram)
      BY <3>2
    <3> QED BY <3>1, <3>2, <3>3
  <2>2. CASE Server
    <3> DEFINE m == Head(toserver)
    <3>1. m \in RdsDatagram /\ toserver' = Tail(toserver) /\ Tail(toserver) \in Seq(RdsDatagram)
      <4>1. toserver # <<>> /\ toserver' = Tail(toserver)
        BY <2>2, Zenon DEF Server
      <4> QED BY <1>1, <4>1 DEF RdsShape
    <3> DEFINE a(ok) == [m EXCEPT !.ok = ok,
                           !.data = IF ok /\ m.type = "read" THEN server[m.blk] ELSE m.data]
    <3>2. PICK ok \in BOOLEAN :
             /\ server' = IF ok /\ m.type = "write" THEN [server EXCEPT ![m.blk] = m.data]
                          ELSE server
             /\ toclient' = Sent(toclient, a(ok))
      BY <2>2 DEF Server
    <3>3. a(ok) \in RdsDatagram
      <4> HIDE DEF m
      <4>1. server[m.blk] \in Content0
        BY <1>1, <3>1 DEF RdsShape, RdsDatagram
      <4> QED BY <3>1, <4>1 DEF RdsDatagram
    <3> HIDE DEF m, a
    <3>4. server' \in [BLK -> Content0]
      BY <1>1, <3>1, <3>2 DEF RdsShape, RdsDatagram
    <3> QED BY <1>1, <3>1, <3>2, <3>3, <3>4, SentOK DEF RdsShape
  <2> QED BY <2>1, <2>2
<1>4. panicked' \in PanicPlace /\ comm' \in RdsComm /\ gone' \in BOOLEAN
  BY <1>1, <1>2 DEF RdsShape
<1>5. NoneMissing'
  BY <1>1, <1>2 DEF NoneMissing
<1> QED BY <1>1, <1>2, <1>3, <1>4, <1>5, NetKeeps

\* No answer, or not the one that was waited for.
LEMMA AgainKeeps ==
    ASSUME RdsInv, Runs, comm.at = "recv", NEW resend \in BOOLEAN, Again(resend),
           toclient' \in Seq(RdsDatagram),
           UNCHANGED <<rd_state, rdlists, availsem, reqsem, rcall, inbox, rd_seq, msgblk,
                       server, gone, broken, syncs>>
    PROVE  RdsInv'
<1>1. RdsShape /\ NoneMissing /\ comm \in RdsComm /\ comm # Waits
  BY DEF RdsInv, RdsShape, Waits
<1>2. /\ comm \in [at : {"recv"}, buf : Buffer, type : {"read", "write"}, seq : Nat,
                   blk : BLK, data : Content0, tries : Nat]
  BY <1>1 DEF RdsComm
<1>3. /\ panicked' \in {panicked, "rdsprocess"}
      /\ comm' = [comm EXCEPT !.tries = comm.tries + 1]
      /\ toserver' = IF resend /\ comm.tries + 1 < RD_RETRIES
                     THEN Sent(toserver, Datagram(comm)) ELSE toserver
  BY DEF Again
<1>4. /\ comm' \in RdsComm /\ comm'.at = comm.at /\ comm'.type = comm.type
      /\ comm'.buf = comm.buf /\ comm'.tries = comm.tries + 1
  BY <1>2, <1>3 DEF RdsComm
<1>5. toserver' \in Seq(RdsDatagram)
  <2>1. Datagram(comm) \in RdsDatagram
    BY <1>2 DEF Datagram, RdsDatagram
  <2> QED BY <1>1, <1>3, <2>1, SentOK DEF RdsShape
<1>6. NoneMissing' /\ panicked' \in PanicPlace
  BY <1>1, <1>3 DEF NoneMissing, RdsShape, PanicPlace
<1>7. server' \in [BLK -> Content0] /\ gone' \in BOOLEAN
  BY <1>1 DEF RdsShape
<1> QED BY <1>4, <1>5, <1>6, <1>7, NetKeeps

\* The first request leaves the queue for the head of the cache or of the free
\* list, and a unit comes back.
LEMMA HeadMoves ==
    ASSUME DiskOK, RdsInv, Runs, req # <<>>, req' = Tail(req), UNCHANGED rcall,
           \/ cache' = <<Head(req)>> \o cache /\ free' = free
           \/ free' = <<Head(req)>> \o free /\ cache' = cache,
           availsem' = SemSignal(availsem)
    PROVE  /\ RdsLists' /\ RdsSemaphore'
           /\ Head(req) \in Buffer /\ Head(req) \in Range(req)
           /\ Range(req)' = Range(req) \ {Head(req)} /\ Len(req)' = Len(req) - 1
           /\ Range(cache) \subseteq Range(cache)' /\ Range(cache)' \subseteq Buffer
           /\ cache' = <<Head(req)>> \o cache => Head(req) \in Range(cache)'
<1> DEFINE b == Head(req)
<1>1. RdsLists /\ RdsSemaphore
  BY DEF RdsInv, RdsRunning
<1>2. /\ b \in Range(req) /\ b \in Buffer /\ Tail(req) \in Queue(Buffer)
      /\ Len(Tail(req)) = Len(req) - 1 /\ Range(Tail(req)) = Range(req) \ {b}
  <2>1. req \in Queue(Buffer) /\ ~IsEmpty(req)
    BY <1>1 DEF RdsLists, IsEmpty
  <2>2. Range(req) \subseteq Buffer
    BY <2>1, QueueCard
  <2> QED BY <2>1, <2>2, DequeueQueue
<1>3. b \notin Range(cache) /\ b \notin Range(free)
  BY <1>1, <1>2 DEF RdsLists
<1>4. /\ <<b>> \o cache \in Queue(Buffer) /\ Range(<<b>> \o cache) = Range(cache) \cup {b}
      /\ Len(<<b>> \o cache) = Len(cache) + 1
  BY <1>1, <1>2, <1>3, PrependQueue DEF RdsLists
<1>5. /\ <<b>> \o free \in Queue(Buffer) /\ Range(<<b>> \o free) = Range(free) \cup {b}
      /\ Len(<<b>> \o free) = Len(free) + 1
  BY <1>1, <1>2, <1>3, PrependQueue DEF RdsLists
<1> HIDE DEF b
<1>6. /\ \/ cache' = <<b>> \o cache /\ free' = free
         \/ free' = <<b>> \o free /\ cache' = cache
      /\ Len(cache) \in Nat /\ Len(free) \in Nat
  BY SeekersAre DEF b
<1>7. /\ RdsLists' /\ Len(free)' + Len(cache)' = Len(free) + Len(cache) + 1
      /\ Range(cache) \subseteq Range(cache)' /\ Range(cache)' \subseteq Buffer
  <2>1. CASE cache' = <<b>> \o cache /\ free' = free
    BY <1>1, <1>2, <1>3, <1>4, <1>6, <2>1, SMTT(60) DEF RdsLists
  <2>2. CASE free' = <<b>> \o free /\ cache' = cache
    BY <1>1, <1>2, <1>3, <1>5, <1>6, <2>2, SMTT(60) DEF RdsLists
  <2> QED BY <1>6, <2>1, <2>2
<1>8. /\ IsFiniteSet(User) /\ Seekers \subseteq User /\ InLine(availsem) \subseteq Seekers
      /\ Promised = Seekers \ InLine(availsem) /\ SemOK(availsem, User)
      /\ Units(availsem) + Cardinality(Promised) = Len(free) + Len(cache)
      /\ Units(availsem) \in Nat /\ Cardinality(Promised) \in Nat
  BY SeekersAre
<1> DEFINE s == SemSignal(availsem)
<1>9. /\ SemOK(s, User) /\ InLine(s) \subseteq InLine(availsem)
      /\ Units(s) + Cardinality(Seekers \ InLine(s))
            = Units(availsem) + Cardinality(Seekers \ InLine(availsem)) + 1
  BY <1>8, SignalCounts, ZenonT(60)
<1>10. Promised' = Seekers \ InLine(s)
  BY DEF Promised, Seekers, Seeking
<1>11. RdsSemaphore'
  <2>1. \A p \in InLine(s) : rcall[p].op \in Seeking
    BY <1>8, <1>9 DEF Seekers
  <2>2. Units(s) + Cardinality(Promised') = Len(free)' + Len(cache)'
    BY <1>7, <1>8, <1>9, <1>10
  <2> QED BY <1>9, <2>1, <2>2 DEF RdsSemaphore
<1> QED BY <1>2, <1>4, <1>7, <1>11 DEF b

\* An exchange begins, or the kernel panics in rdsprocess, or two wait at a slot.
LEMMA BeginGives ==
    ASSUME RdsShape, NoneMissing, comm = Waits, NEW c \in RdsComm, c.at = "recv", Begin(c)
    PROVE  /\ rd_seq' \in Nat /\ toserver' \in Seq(RdsDatagram)
           /\ panicked' \in PanicPlace /\ broken' \in BOOLEAN /\ NoneMissing'
           /\ comm' = c \/ (comm' = Waits /\ ~Runs')
<1>1. Datagram(c) \in RdsDatagram
  BY DEF RdsComm, Waits, Datagram, RdsDatagram
<1>2. /\ rd_seq \in Nat /\ rd_seq + 1 \in Nat /\ toserver \in Seq(RdsDatagram)
      /\ Sent(toserver, Datagram(c)) \in Seq(RdsDatagram)
      /\ panicked \in PanicPlace /\ broken \in BOOLEAN /\ panicked # "rdsbufalloc"
      /\ "rdsprocess" \in PanicPlace
  BY <1>1, SentOK DEF RdsShape, NoneMissing, PanicPlace
<1>3. CASE comm' = c /\ rd_seq' = rd_seq + 1 /\ toserver' = Sent(toserver, Datagram(c))
           /\ UNCHANGED <<panicked, broken>>
  BY <1>2, <1>3 DEF NoneMissing
<1>4. CASE panicked' = "rdsprocess" /\ UNCHANGED <<comm, rd_seq, toserver, broken>>
  BY <1>2, <1>4 DEF NoneMissing, Runs
<1>5. CASE broken' = TRUE /\ UNCHANGED <<comm, rd_seq, toserver, panicked>>
  BY <1>2, <1>5 DEF NoneMissing, Runs
<1> QED BY <1>3, <1>4, <1>5 DEF Begin

\* A write or a request to synchronise is taken off the queue.
LEMMA TakesKeeps ==
    ASSUME DiskOK, RdsInv, Runs, comm = Waits, reqsem > 0, req # <<>>, reqsem' = reqsem - 1,
           UNCHANGED <<rd_state, rcall, ret, toclient, server, gone, syncs>>,
           TakesWrite \/ TakesSync
    PROVE  RdsInv'
<1> DEFINE b == Head(req)
<1>1. RdsShape /\ RdsRunning /\ NoneMissing
  BY DEF RdsInv
<1>2. /\ req' = Tail(req) /\ availsem' = SemSignal(availsem) /\ buff' = buff
      /\ \/ cache' = <<b>> \o cache /\ free' = free
         \/ free' = <<b>> \o free /\ cache' = cache
  BY DEF TakesWrite, TakesSync
<1>3. /\ RdsLists' /\ RdsSemaphore' /\ b \in Buffer /\ b \in Range(req)
      /\ Range(req)' = Range(req) \ {b} /\ Len(req)' = Len(req) - 1
      /\ Range(cache) \subseteq Range(cache)' /\ Range(cache)' \subseteq Buffer
  BY <1>2, HeadMoves
<1>4. /\ comm' \in RdsComm /\ rd_seq' \in Nat /\ msgblk' \in BLK
      /\ toserver' \in Seq(RdsDatagram)
      /\ panicked' \in PanicPlace /\ broken' \in BOOLEAN /\ NoneMissing'
      /\ ~(comm'.at = "recv" /\ comm'.type = "read")
  <2>1. CASE TakesSync
    <3>1. UNCHANGED <<comm, rd_seq, msgblk, toserver, panicked, broken>>
      BY <2>1 DEF TakesSync
    <3> QED BY <1>1, <3>1 DEF RdsShape, NoneMissing, Waits
  <2>2. CASE TakesWrite
    <3> DEFINE c == Exchange(b, "write", buff[b].blk, buff[b].data)
    <3>1. c \in RdsComm /\ c.type = "write" /\ c.at = "recv"
      BY <1>1, <1>3 DEF RdsShape, RdsComm, Exchange
    <3>2. Begin(c) /\ msgblk' = buff[b].blk
      BY <2>2 DEF TakesWrite
    <3>3. msgblk' \in BLK
      BY <1>1, <1>3, <3>2 DEF RdsShape
    <3> HIDE DEF c
    <3>4. /\ rd_seq' \in Nat /\ toserver' \in Seq(RdsDatagram)
          /\ panicked' \in PanicPlace /\ broken' \in BOOLEAN /\ NoneMissing'
          /\ comm' = c \/ comm' = Waits
      BY <1>1, <3>1, <3>2, BeginGives
    <3>5. Waits \in RdsComm /\ Waits.at = "wait"
      BY DEF RdsComm, Waits
    <3> QED BY <3>1, <3>3, <3>4, <3>5
  <2> QED BY <2>1, <2>2
<1>5. /\ inbox' \in [User -> 0 .. RD_BUFFS+1]
      /\ \A q \in User :
            \/ inbox'[q] = inbox[q]
            \/ /\ buff[b].op = "sync" /\ q = buff[b].pid /\ inbox'[q] = OkMail
               /\ rcall[q].op = "receive" /\ rcall[q].sync
  <2>1. CASE TakesSync
    <3>1. buff[b].op = "sync" /\ inbox' = [inbox EXCEPT ![buff[b].pid] = OkMail]
      BY <2>1 DEF TakesSync
    <3>2. /\ buff[b].pid \in User /\ rcall[buff[b].pid].op = "receive"
          /\ rcall[buff[b].pid].sync
      BY <1>1, <1>3, <3>1 DEF RdsRunning, RdsRequests
    <3>3. OkMail \in 0 .. RD_BUFFS+1
      BY RemoteDiskAssumption DEF OkMail
    <3> HIDE DEF b
    <3> QED BY <1>1, <3>1, <3>2, <3>3 DEF RdsShape
  <2>2. CASE TakesWrite
    BY <1>1, <2>2 DEF TakesWrite, RdsShape
  <2> QED BY <2>1, <2>2
<1>6. RdsShape'
  <2>1. (req \in Seq(Buffer) /\ cache \in Seq(Buffer) /\ free \in Seq(Buffer))'
    BY <1>3 DEF RdsLists, Queue
  <2>2. reqsem' \in Nat
    BY <1>1 DEF RdsShape
  <2> QED BY <1>1, <1>2, <1>4, <1>5, <2>1, <2>2 DEF RdsShape
<1>7. NoneMissing'
  BY <1>4
<1>8. RdsRequests'
  <2> SUFFICES ASSUME NEW x \in Range(req), x # b, buff[x].op # "write"
               PROVE  inbox'[buff[x].pid] = NoMail
    BY <1>1, <1>2, <1>3 DEF RdsRunning, RdsRequests, NoMail
  <2>1. buff[x].pid \in User /\ inbox[buff[x].pid] = NoMail
    BY <1>1 DEF RdsRunning, RdsRequests
  <2>2. ~(buff[b].op = "sync" /\ buff[x].pid = buff[b].pid)
    BY <1>1, <1>3 DEF RdsRunning, RdsRequests
  <2> QED BY <1>5, <2>1, <2>2
<1>9. RdsMail'
  <2> SUFFICES ASSUME NEW q \in User, inbox'[q] # NoMail
               PROVE  /\ rcall[q].op = "receive"
                      /\ rcall[q].sync => inbox'[q] = OkMail
                      /\ ~rcall[q].sync => /\ inbox'[q] \in Range(cache)'
                                           /\ buff[inbox'[q]].refcnt = 1
                                           /\ buff[inbox'[q]].pid = q
    BY <1>2 DEF RdsMail, NoMail, OkMail
  <2>1. CASE inbox'[q] = inbox[q]
    BY <1>1, <1>3, <2>1 DEF RdsRunning, RdsMail
  <2>2. CASE inbox'[q] = OkMail /\ rcall[q].op = "receive" /\ rcall[q].sync
    BY <2>2
  <2> QED BY <1>5, <2>1, <2>2
<1>10. RdsReading'
  BY <1>4 DEF RdsReading
<1>11. RdsWoken'
  <2>1. reqsem + 0 = Len(req) - syncs
    <3>1. comm.at = "wait"
      BY DEF Waits
    <3> QED BY <1>1, <3>1 DEF RdsRunning, RdsWoken
  <2>2. Len(req) \in Nat /\ reqsem \in Nat /\ syncs \in Nat
    BY <1>1, ListsAre DEF RdsRunning, RdsShape
  <2>3. reqsem' + 0 = Len(req)' - syncs'
    BY <1>3, <2>1, <2>2
  <2> QED BY <1>4, <2>3 DEF RdsWoken
<1> QED BY <1>3, <1>6, <1>7, <1>8, <1>9, <1>10, <1>11 DEF RdsInv, RdsRunning

\* An exchange for a read begins, unless the kernel panics; its request stays in
\* the queue.
LEMMA TakesReadKeeps ==
    ASSUME DiskOK, RdsInv, Runs, comm = Waits, reqsem > 0, req # <<>>, reqsem' = reqsem - 1,
           UNCHANGED <<rd_state, rcall, ret, toclient, server, gone, syncs>>,
           TakesRead
    PROVE  RdsInv'
<1> DEFINE b == Head(req)
           c == Exchange(b, "read", msgblk, Blank)
<1>1. RdsShape /\ RdsRunning /\ NoneMissing
  BY DEF RdsInv
<1>2. /\ buff[b].op = "read" /\ Begin(c)
      /\ msgblk' = msgblk /\ buff' = buff /\ req' = req /\ cache' = cache /\ free' = free
      /\ availsem' = availsem /\ inbox' = inbox
  BY DEF TakesRead, rdlists
<1>3. b \in Buffer
  BY <1>1 DEF RdsShape
<1>4. c \in RdsComm /\ c.at = "recv" /\ c.type = "read" /\ c.buf = b
  BY <1>1, <1>3 DEF RdsShape, RdsComm, Exchange, Content0
<1> HIDE DEF c
<1>5. /\ rd_seq' \in Nat /\ toserver' \in Seq(RdsDatagram)
      /\ panicked' \in PanicPlace /\ broken' \in BOOLEAN /\ NoneMissing'
      /\ comm' = c \/ (comm' = Waits /\ ~Runs')
  BY <1>1, <1>2, <1>4, BeginGives
<1>6. RdsShape'
  <2>1. comm' \in RdsComm
    BY <1>4, <1>5 DEF RdsComm
  <2>2. reqsem' \in Nat
    BY <1>1 DEF RdsShape
  <2> QED BY <1>1, <1>2, <1>5, <2>1, <2>2 DEF RdsShape
<1>7. CASE comm' = c
  <2>1. RdsLists' /\ RdsRequests' /\ RdsMail'
    BY <1>1, <1>2 DEF RdsRunning, RdsLists, RdsRequests, RdsMail
  <2>2. RdsSemaphore'
    BY <1>1, <1>2 DEF RdsRunning, RdsSemaphore, Promised
  <2>3. RdsReading'
    BY <1>2, <1>4, <1>7 DEF RdsReading
  <2>4. RdsWoken'
    <3>1. reqsem + 0 = Len(req) - syncs
      <4>1. comm.at = "wait"
        BY DEF Waits
      <4> QED BY <1>1, <4>1 DEF RdsRunning, RdsWoken
    <3>2. Len(req) \in Nat /\ reqsem \in Nat /\ syncs \in Nat
      BY <1>1, ListsAre DEF RdsRunning, RdsShape
    <3>3. reqsem' + 1 = Len(req') - syncs'
      BY <1>2, <3>1, <3>2
    <3> QED BY <1>2, <1>4, <1>7, <3>3 DEF RdsWoken
  <2> QED BY <1>5, <1>6, <2>1, <2>2, <2>3, <2>4 DEF RdsInv, RdsRunning
<1>8. CASE ~Runs'
  BY <1>5, <1>6, <1>8 DEF RdsInv
<1> QED BY <1>5, <1>7, <1>8

\* The answer to a read: its reader is sent the buffer.
LEMMA ReadDoneKeeps ==
    ASSUME DiskOK, RdsInv, Runs, comm.at = "recv", comm.type = "read", comm' = Waits,
           NEW m \in RdsDatagram, ReadDone(m), toclient' \in Seq(RdsDatagram),
           UNCHANGED <<rd_state, reqsem, rcall, ret, rd_seq, msgblk, server, gone, syncs,
                       toserver, panicked>>
    PROVE  RdsInv'
<1> DEFINE b == comm.buf
           BuffType == [op : {"read", "write", "sync"}, refcnt : {0, 1}, blk : BLK,
                        valid : BOOLEAN, pid : User \cup {"none"}, data : Content0]
<1>1. RdsShape /\ RdsRunning /\ NoneMissing
  BY DEF RdsInv
<1>2. req # <<>> /\ b = Head(req) /\ buff[b].op = "read"
  BY <1>1 DEF RdsRunning, RdsReading
<1>3. /\ req' = Tail(req) /\ cache' = <<b>> \o cache /\ free' = free
      /\ availsem' = SemSignal(availsem)
      /\ buff' = [buff EXCEPT ![b].data = m.data, ![b].refcnt = 1]
      /\ inbox' = [inbox EXCEPT ![buff[b].pid] = b]
  BY DEF ReadDone
<1>4. /\ RdsLists' /\ RdsSemaphore' /\ b \in Buffer /\ b \in Range(req)
      /\ Range(req)' = Range(req) \ {b} /\ Len(req)' = Len(req) - 1
      /\ Range(cache) \subseteq Range(cache)' /\ b \in Range(cache)'
  BY <1>2, <1>3, HeadMoves
<1>5. /\ buff[b].pid \in User /\ rcall[buff[b].pid].op = "receive" /\ ~rcall[buff[b].pid].sync
  BY <1>1, <1>2, <1>4 DEF RdsRunning, RdsRequests
<1> DEFINE f == [[buff[b] EXCEPT !.data = m.data] EXCEPT !.refcnt = 1]
<1>6. /\ buff' = [buff EXCEPT ![b] = f]
      /\ f \in BuffType /\ f.op = "read" /\ f.pid = buff[b].pid /\ f.refcnt = 1
  <2>1. m.data \in Content0 /\ buff \in [Buffer -> BuffType]
    BY <1>1 DEF RdsDatagram, RdsShape
  <2>2. buff' = [buff EXCEPT ![b] = f]
    BY <1>3, <1>4, <2>1
  <2> HIDE DEF b
  <2> QED BY <1>2, <1>4, <2>1, <2>2, ZenonT(60)
<1> HIDE DEF f, BuffType
<1>7. buff'[b] = f /\ \A x \in Buffer : x # b => buff'[x] = buff[x]
  BY <1>1, <1>4, <1>6 DEF RdsShape
<1> HIDE DEF b
<1>8. RdsShape'
  <2>1. (req \in Seq(Buffer) /\ cache \in Seq(Buffer) /\ free \in Seq(Buffer))'
    BY <1>4 DEF RdsLists, Queue
  <2>2. (buff \in [Buffer -> BuffType])'
    BY <1>1, <1>6 DEF RdsShape, BuffType
  <2>3. (\A x \in Buffer : buff[x].refcnt = 1 => buff[x].pid \in User)'
    BY <1>1, <1>5, <1>6, <1>7 DEF RdsShape
  <2>4. inbox' \in [User -> 0 .. RD_BUFFS+1]
    <3>1. b \in 0 .. RD_BUFFS+1
      BY <1>4, RemoteDiskAssumption DEF Buffer
    <3> QED BY <1>1, <1>3, <3>1 DEF RdsShape
  <2>5. broken' \in BOOLEAN
    BY DEF ReadDone
  <2>6. comm' \in RdsComm
    BY DEF RdsComm
  <2> QED BY <1>1, <2>1, <2>2, <2>3, <2>4, <2>5, <2>6 DEF RdsShape, BuffType
<1>9. NoneMissing'
  BY <1>1 DEF NoneMissing
<1>10. Range(req) \subseteq Buffer /\ Range(cache) \subseteq Buffer
  BY <1>1 DEF RdsRunning, RdsLists
<1>11. \A q \in User : q # buff[b].pid => inbox'[q] = inbox[q]
  BY <1>1, <1>3 DEF RdsShape
<1>12. inbox'[buff[b].pid] = b
  BY <1>1, <1>3, <1>5 DEF RdsShape
<1>13. RdsRequests'
  <2> SUFFICES ASSUME NEW x \in Range(req), x # b, buff[x].op # "write"
               PROVE  inbox'[buff[x].pid] = NoMail
    BY <1>1, <1>4, <1>7, <1>10 DEF RdsRunning, RdsRequests, NoMail
  <2>1. buff[x].pid \in User /\ inbox[buff[x].pid] = NoMail
    BY <1>1 DEF RdsRunning, RdsRequests
  <2>2. buff[x].pid # buff[b].pid
    BY <1>1, <1>2, <1>4 DEF RdsRunning, RdsRequests
  <2> QED BY <1>11, <2>1, <2>2
<1>14. RdsMail'
  <2> SUFFICES ASSUME NEW q \in User, inbox'[q] # NoMail
               PROVE  /\ rcall[q].op = "receive"
                      /\ rcall[q].sync => inbox'[q] = OkMail
                      /\ ~rcall[q].sync => /\ inbox'[q] \in Range(cache)'
                                           /\ buff'[inbox'[q]].refcnt = 1
                                           /\ buff'[inbox'[q]].pid = q
    BY DEF RdsMail, NoMail, OkMail
  <2>1. CASE q = buff[b].pid
    BY <1>4, <1>5, <1>6, <1>7, <1>12, <2>1
  <2>2. CASE q # buff[b].pid
    <3>1. inbox'[q] = inbox[q] /\ inbox[q] # NoMail
      BY <1>11, <2>2 DEF NoMail
    <3>2. /\ rcall[q].op = "receive"
          /\ rcall[q].sync => inbox[q] = OkMail
          /\ ~rcall[q].sync => /\ inbox[q] \in Range(cache)
                               /\ buff[inbox[q]].refcnt = 1 /\ buff[inbox[q]].pid = q
      BY <1>1, <3>1 DEF RdsRunning, RdsMail
    <3>3. ASSUME ~rcall[q].sync PROVE buff'[inbox[q]] = buff[inbox[q]]
      BY <1>7, <1>10, <2>2, <3>2, <3>3
    <3> QED BY <1>4, <3>1, <3>2, <3>3
  <2> QED BY <2>1, <2>2
<1>15. RdsReading'
  BY DEF RdsReading, Waits
<1>16. RdsWoken'
  <2>1. reqsem + 1 = Len(req) - syncs
    BY <1>1 DEF RdsRunning, RdsWoken
  <2>2. Len(req) \in Nat /\ reqsem \in Nat /\ syncs \in Nat
    BY <1>1, ListsAre DEF RdsRunning, RdsShape
  <2>3. reqsem' + 0 = Len(req)' - syncs'
    BY <1>4, <2>1, <2>2
  <2> QED BY <2>3 DEF RdsWoken, Waits
<1> QED BY <1>4, <1>8, <1>9, <1>13, <1>14, <1>15, <1>16 DEF RdsInv, RdsRunning

LEMMA CommReceivesKeeps ==
    ASSUME DiskOK, RdsInv, CommReceives
    PROVE  RdsInv'
<1> DEFINE m == Head(toclient)
<1>1. /\ Runs /\ comm.at = "recv" /\ toclient # <<>> /\ toclient' = Tail(toclient)
      /\ UNCHANGED <<rd_state, reqsem, rcall, ret, rd_seq, msgblk, server, gone, syncs>>
      /\ \/ /\ comm' = Waits /\ comm.type = "read" /\ ReadDone(m)
            /\ UNCHANGED <<toserver, panicked>>
         \/ /\ comm' = Waits /\ comm.type = "write"
            /\ UNCHANGED <<rdlists, availsem, inbox, broken, toserver, panicked>>
         \/ /\ panicked' = "rdsprocess"
            /\ UNCHANGED <<comm, toserver, rdlists, availsem, inbox, broken>>
         \/ /\ Again(m.seq >= comm.seq)
            /\ UNCHANGED <<rdlists, availsem, inbox, broken>>
  BY DEF CommReceives
<1>2. RdsShape /\ RdsRunning /\ NoneMissing
  BY <1>1 DEF RdsInv
<1>3. m \in RdsDatagram /\ Tail(toclient) \in Seq(RdsDatagram)
  BY <1>1, <1>2 DEF RdsShape
<1> HIDE DEF m
<1>4. CASE comm' = Waits /\ comm.type = "read" /\ ReadDone(m) /\ UNCHANGED <<toserver, panicked>>
  BY <1>1, <1>3, <1>4, ReadDoneKeeps
<1>5. CASE /\ comm' = Waits /\ comm.type = "write"
           /\ UNCHANGED <<rdlists, availsem, inbox, broken, toserver, panicked>>
  <2>1. /\ req' = req /\ cache' = cache /\ free' = free /\ buff' = buff
        /\ availsem' = availsem /\ reqsem' = reqsem /\ rcall' = rcall /\ inbox' = inbox
        /\ syncs' = syncs /\ broken' = broken /\ rd_seq' = rd_seq /\ msgblk' = msgblk
        /\ rd_state' = rd_state /\ server' = server /\ gone' = gone /\ panicked' = panicked
        /\ toserver' = toserver
    BY <1>1, <1>5 DEF rdlists
  <2>2. comm' \in RdsComm /\ comm'.at = "wait"
    BY <1>5 DEF RdsComm, Waits
  <2>3. RdsShape'
    BY <1>1, <1>2, <1>3, <2>1, <2>2 DEF RdsShape
  <2>4. RdsLists' /\ RdsRequests' /\ RdsMail'
    BY <1>2, <2>1 DEF RdsRunning, RdsLists, RdsRequests, RdsMail
  <2>5. RdsSemaphore'
    BY <1>2, <2>1 DEF RdsRunning, RdsSemaphore, Promised
  <2>6. RdsReading' /\ RdsWoken' /\ NoneMissing'
    BY <1>2, <1>5, <2>1, <2>2 DEF RdsRunning, RdsReading, RdsWoken, NoneMissing
  <2> QED BY <2>3, <2>4, <2>5, <2>6 DEF RdsInv, RdsRunning
<1>6. CASE /\ panicked' = "rdsprocess"
           /\ UNCHANGED <<comm, toserver, rdlists, availsem, inbox, broken>>
  <2>1. /\ comm' = comm /\ toserver' = toserver /\ server' = server /\ gone' = gone
        /\ UNCHANGED <<rdlists, availsem, inbox, broken>>
    BY <1>1, <1>6
  <2>2. panicked' \in PanicPlace /\ NoneMissing'
    BY <1>6 DEF NoneMissing, PanicPlace
  <2>3. /\ comm' \in RdsComm /\ toserver' \in Seq(RdsDatagram) /\ gone' \in BOOLEAN
        /\ server' \in [BLK -> Content0]
    BY <1>2, <2>1 DEF RdsShape
  <2> QED BY <1>1, <1>3, <2>1, <2>2, <2>3, NetKeeps
<1>7. CASE Again(m.seq >= comm.seq) /\ UNCHANGED <<rdlists, availsem, inbox, broken>>
  <2> DEFINE resend == (m.seq >= comm.seq)
  <2>1. resend \in BOOLEAN /\ Again(resend)
    BY <1>7
  <2> HIDE DEF resend
  <2> QED BY <1>1, <1>3, <1>7, <2>1, AgainKeeps
<1> QED BY <1>1, <1>4, <1>5, <1>6, <1>7

-----------------------------------------------------------------------------
LEMMA RdsInitInv ==
    ASSUME DiskOK, RdsInit
    PROVE  RdsInv
<1>1. /\ RD_BUFFS \in Nat \ {0} /\ 0 \in BLK
  BY RemoteDiskAssumption
<1>2. /\ free \in Queue(Buffer) /\ Range(free) = Buffer /\ Len(free) = RD_BUFFS
  <2>1. free = [b \in 1 .. RD_BUFFS |-> b]
    BY DEF RdsInit, Buffer
  <2>2. free \in Seq(Buffer) /\ Len(free) = RD_BUFFS
    BY <1>1, <2>1 DEF Buffer
  <2> QED BY <2>1, <2>2 DEF Queue, Range, IsInjective, Buffer
<1>3. <<>> \in Queue(Buffer) /\ Range(<<>>) = {}
  BY EmptyQueue
<1>4. SemOK(availsem, User) /\ InLine(availsem) = {} /\ availsem.count = RD_BUFFS
  BY <1>1, NewSemOK DEF RdsInit
<1>5. RdsShape
  <2>1. 0 \in 0 .. RD_BUFFS+1
    BY <1>1
  <2>2. buff \in [Buffer -> [op : {"read", "write", "sync"}, refcnt : {0, 1}, blk : BLK,
                             valid : BOOLEAN, pid : User \cup {"none"}, data : Content0]]
        /\ \A b \in Buffer : buff[b].refcnt = 0
    BY <1>1 DEF RdsInit, Content0
  <2>3. rcall \in [User -> RdsCall] /\ inbox \in [User -> 0 .. RD_BUFFS+1]
    BY <2>1 DEF RdsInit, RdsCall, NoMail
  <2>4. comm \in RdsComm /\ server \in [BLK -> Content0]
    BY DEF RdsInit, RdsComm, Content0
  <2>5. req \in Seq(Buffer) /\ cache \in Seq(Buffer) /\ free \in Seq(Buffer)
    BY <1>2 DEF RdsInit, Queue
  <2>6. toserver \in Seq(RdsDatagram) /\ toclient \in Seq(RdsDatagram)
    BY DEF RdsInit
  <2>7. /\ rd_state \in {"RD_FREE", "RD_PEND", "RD_OPEN"} /\ msgblk \in BLK
        /\ reqsem \in Nat /\ syncs \in Nat /\ rd_seq \in Nat
        /\ panicked \in PanicPlace /\ broken \in BOOLEAN /\ gone \in BOOLEAN
    BY DEF RdsInit, PanicPlace
  <2>8. \A b \in Buffer : buff[b].refcnt = 1 => buff[b].pid \in User
    BY <2>2
  <2> QED BY <2>2, <2>3, <2>4, <2>5, <2>6, <2>7, <2>8 DEF RdsShape
<1>6. NoneMissing
  BY DEF RdsInit, NoneMissing
<1>7. req = <<>> /\ cache = <<>> /\ Range(req) = {} /\ Range(cache) = {}
  BY <1>3 DEF RdsInit
<1>8. RdsLists
  BY <1>2, <1>3, <1>7 DEF RdsLists
<1>9. RdsRequests
  BY <1>7 DEF RdsRequests
<1>10. RdsMail /\ RdsReading /\ RdsWoken
  BY <1>7 DEF RdsMail, RdsReading, RdsWoken, RdsInit, Waits
<1>11. RdsSemaphore
  <2>1. Promised = {}
    BY DEF RdsInit, Promised, AtRest
  <2>2. Cardinality(Promised) = 0
    BY <2>1, FS_EmptySet
  <2>3. Units(availsem) = RD_BUFFS
    BY <1>1, <1>4, UnitsAre
  <2> QED BY <1>1, <1>2, <1>4, <1>7, <2>2, <2>3 DEF RdsSemaphore
<1> QED BY <1>5, <1>6, <1>8, <1>9, <1>10, <1>11 DEF RdsInv, RdsRunning

LEMMA RdsInvGives ==
    ASSUME DiskOK, RdsInv
    PROVE  BuffersCounted /\ WokenForEachRequest
<1>1. RdsTypeOK
  <2>1. {0, 1} \subseteq Nat /\ \A p \in User : Cardinality(User) >= 1
    <3>1. IsFiniteSet(User) /\ Cardinality(User) \in Nat
      BY FS_CardinalityType DEF DiskOK
    <3>2. User # {} => Cardinality(User) # 0
      BY <3>1, FS_EmptySet
    <3> QED BY <3>1, <3>2
  <2>2. \A b \in Buffer : buff[b].refcnt \in 0 .. Cardinality(User)
    <3>1. Cardinality(User) \in Nat
      BY FS_CardinalityType DEF DiskOK
    <3> QED BY <2>1, <3>1, SMTT(60) DEF RdsInv, RdsShape
  <2>3. buff \in [Buffer -> [op : {"read", "write", "sync"}, refcnt : 0 .. Cardinality(User),
                             blk : BLK, valid : BOOLEAN, pid : User \cup {"none"},
                             data : Data \cup {Blank}]]
    <3>1. buff \in [Buffer -> [op : {"read", "write", "sync"}, refcnt : {0, 1}, blk : BLK,
                               valid : BOOLEAN, pid : User \cup {"none"}, data : Content0]]
      BY DEF RdsInv, RdsShape
    <3>2. ASSUME NEW b \in Buffer
          PROVE  buff[b] \in [op : {"read", "write", "sync"}, refcnt : 0 .. Cardinality(User),
                              blk : BLK, valid : BOOLEAN, pid : User \cup {"none"},
                              data : Data \cup {Blank}]
      BY <2>2, <3>1 DEF Content0
    <3> QED BY <3>1, <3>2
  <2> QED BY <2>3 DEF RdsInv, RdsShape, RdsTypeOK, PanicPlace
<1>2. Runs => /\ Len(req) + Len(cache) + Len(free) = RD_BUFFS
              /\ Range(req) \cup Range(cache) \cup Range(free) = Buffer
              /\ Units(availsem) + Cardinality(Promised) = Len(free) + Len(cache)
  BY ListsAre DEF RdsInv, RdsRunning, RdsLists, RdsSemaphore
<1>3. WokenForEachRequest
  BY DEF RdsInv, RdsRunning, RdsWoken, WokenForEachRequest
<1> QED BY <1>1, <1>2, <1>3 DEF RdsInv, NoneMissing, BuffersCounted

\* The inductive invariant of the remote disk.
THEOREM RemoteDiskInv == DiskOK => (RdsSpec => []RdsInv)
<1> SUFFICES ASSUME DiskOK PROVE RdsSpec => []RdsInv
  OBVIOUS
<1>1. RdsInit => RdsInv
  BY RdsInitInv
<1>2. RdsInv /\ [RdsNext]_rdsvars => RdsInv'
  <2> SUFFICES ASSUME RdsInv, [RdsNext]_rdsvars PROVE RdsInv'
    OBVIOUS
  <2>1. CASE UNCHANGED rdsvars
    BY <2>1, SMTT(60) DEF rdsvars, rdlists, rdnet, RdsInv, RdsShape, NoneMissing, Runs, RdsRunning,
                RdsLists, RdsRequests, RdsMail, RdsReading, RdsSemaphore, RdsWoken, Promised
  <2>2. ASSUME NEW p \in User, RdsopenBegin(p) \/ RdsopenBadId(p) \/ RdsopenEnd(p)
        PROVE  RdsInv'
    BY <2>2, RdsopenKeeps
  <2>3. ASSUME NEW p \in User, Rdsclose(p) PROVE RdsInv'
    BY <2>3, RdscloseKeeps
  <2>4. ASSUME NEW p \in User, NEW blk \in BLK, Rdsread(p, blk) PROVE RdsInv'
    BY <2>4, RdsreadKeeps
  <2>5. ASSUME NEW p \in User, NEW blk \in BLK, NEW v \in Data, Rdswrite(p, blk, v) PROVE RdsInv'
    BY <2>5, RdswriteKeeps
  <2>6. ASSUME NEW p \in User, RequestEnd(p) PROVE RdsInv'
    BY <2>6, RequestEndKeeps
  <2>7. ASSUME NEW p \in User, RdsreadEnd(p) PROVE RdsInv'
    BY <2>7, RdsreadEndKeeps
  <2>8. ASSUME NEW p \in User, RdsSync(p) PROVE RdsInv'
    BY <2>8, RdsSyncKeeps
  <2>9. ASSUME NEW p \in User, RdsSyncEnd(p) PROVE RdsInv'
    BY <2>9, RdsSyncEndKeeps
  <2>10. CASE CommTakes
    <3>1. /\ Runs /\ comm = Waits /\ reqsem > 0 /\ req # <<>> /\ reqsem' = reqsem - 1
          /\ UNCHANGED <<rd_state, rcall, ret, toclient, server, gone, syncs>>
          /\ TakesWrite \/ TakesRead \/ TakesSync
      BY <2>10 DEF CommTakes
    <3> QED BY <3>1, TakesKeeps, TakesReadKeeps
  <2>11. CASE CommReceives
    BY <2>11, CommReceivesKeeps
  <2>12. CASE CommTimeout
    <3>1. toclient' \in Seq(RdsDatagram)
      BY <2>12 DEF CommTimeout, RdsInv, RdsShape
    <3> QED BY <2>12, <3>1, AgainKeeps DEF CommTimeout
  <2>13. CASE Server \/ Lose
    BY <2>13, ServerKeeps
  <2>14. ASSUME NEW p \in User, RdsDelete(p) \/ RdsDeleteEnd(p) PROVE RdsInv'
    BY <2>14, RdsDeleteKeeps
  <2> QED BY <2>1, <2>2, <2>3, <2>4, <2>5, <2>6, <2>7, <2>8, <2>9, <2>10, <2>11, <2>12, <2>13,
             <2>14
          DEF RdsNext
<1> QED BY <1>1, <1>2, PTL DEF RdsSpec

\* Every buffer of the remote disk is in one list, once, and there is one for
\* whoever has a unit of availsem (rdswrite.c:57), so that rdsbufalloc never panics
\* (rdsbufalloc.c:48), whatever becomes of the exchanges and of a deletion.
THEOREM RemoteDiskKept == DiskOK => (RdsSpec => []BuffersCounted)
<1> SUFFICES ASSUME DiskOK PROVE RdsSpec => []BuffersCounted
  OBVIOUS
<1>1. RdsInv => BuffersCounted
  BY RdsInvGives
<1> QED BY <1>1, RemoteDiskInv, PTL

\* The communication process is woken once for each read and write queued, and
\* for no request to synchronise (rdscontrol.c:65).
THEOREM RemoteDiskWakes == DiskOK => (RdsSpec => []WokenForEachRequest)
<1> SUFFICES ASSUME DiskOK PROVE RdsSpec => []WokenForEachRequest
  OBVIOUS
<1>1. RdsInv => WokenForEachRequest
  BY RdsInvGives
<1> QED BY <1>1, RemoteDiskInv, PTL

-----------------------------------------------------------------------------
\* The serial line.

TtyUser == Reader \cup Writer

\* Processes that have asked for a place or a character and not taken it.
Putters == {p \in TtyUser : rest[p].op = "put"}
Getters == {p \in TtyUser : rest[p].op \in {"get", "peek"}}

\* A control block: its fields 
Shaped(t) ==
    DOMAIN t = {"imode", "iecho", "icursor", "ibuff", "ihead", "itail", "isem", "obuff",
                "ohead", "otail", "osem", "oheld", "echo", "thre", "unread", "unsent", "wire"}

\* ... its pointers and its semaphores, and a transmitter that does not sleep
\* with something to send.
Block(t) ==
    /\ Shaped(t)
    /\ t.imode \in {"cooked", "cbreak", "raw"}
    /\ t.iecho \in BOOLEAN /\ t.oheld \in BOOLEAN /\ t.thre \in BOOLEAN
    /\ t.ihead \in InRing /\ t.itail \in InRing /\ t.ohead \in OutRing /\ t.otail \in OutRing
    /\ t.icursor \in Nat /\ t.echo \in 0 .. TY_EBUFLEN-1
    /\ t.unread \in 0 .. TY_IBUFLEN /\ t.unsent \in 0 .. TY_OBUFLEN
    /\ SemOK(t.isem, TtyUser) /\ SemOK(t.osem, TtyUser)
    /\ (t.unsent > 0 \/ t.echo > 0) /\ ~t.oheld => t.thre

\* With g processes that wait for a character or have been let in for one, and
\* w for a place: a place is a unit, a character, or asked for, and there is a
\* character for each unit and each that was let in, beside the line being
\* typed.
Balanced(t, g, w) ==
    /\ t.osem.count + w + t.unsent = TY_OBUFLEN
    /\ t.isem.count + g + t.icursor <= t.unread
    /\ t.isem.count + g >= 0 /\ t.osem.count + w >= 0

TtyInv ==
    /\ Block(tty)
    /\ Balanced(tty, Cardinality(Getters), Cardinality(Putters))
    /\ InLine(tty.isem) \subseteq Getters /\ InLine(tty.osem) \subseteq Putters
    /\ cpu \in TtyUser \cup {Nobody}
    /\ DOMAIN rest = TtyUser
    /\ \A p \in TtyUser : "op" \in DOMAIN rest[p]

\* The smaller of two numbers.
LEMMA MinOfTwo ==
    ASSUME NEW a \in Nat, NEW b \in Nat
    PROVE  Min({a, b}) = IF a <= b THEN a ELSE b
<1>1. Min({a, b}) \in {a, b} /\ \A y \in {a, b} : Min({a, b}) <= y
  <2>1. {a, b} \subseteq Nat /\ {a, b} # {}
    OBVIOUS
  <2> QED BY <2>1, MinNat
<1> QED BY <1>1

LEMMA RingStep ==
    ASSUME NEW n \in Nat \ {0}
    PROVE  \A i \in Int : i % n \in 0 .. n-1
  OBVIOUS

\* The end of a queue is a queue.
LEMMA SubSeqQueue ==
    ASSUME NEW S, NEW q \in Queue(S), NEW k \in 0 .. Len(q)
    PROVE  /\ SubSeq(q, 1 + k, Len(q)) \in Queue(S)
           /\ Len(SubSeq(q, 1 + k, Len(q))) = Len(q) - k
           /\ Range(SubSeq(q, 1 + k, Len(q))) \subseteq Range(q)
<1> DEFINE r == SubSeq(q, 1 + k, Len(q))
<1>1. q \in Seq(S) /\ Len(q) \in Nat /\ DOMAIN q = 1 .. Len(q) /\ IsInjective(q)
  BY DEF Queue
<1>2. 1 + k \in Int /\ \A i \in 1 + k .. Len(q) : q[i] \in S
  BY <1>1
<1>3. /\ r \in Seq(S) /\ Len(r) = Len(q) - k
      /\ \A i \in 1 .. Len(q) - k : r[i] = q[k + i]
  <2>1. /\ r \in Seq(S)
        /\ Len(r) = IF 1 + k <= Len(q) THEN Len(q) - (1 + k) + 1 ELSE 0
        /\ \A i \in 1 .. Len(q) - (1 + k) + 1 : r[i] = q[(1 + k) + i - 1]
    BY <1>1, <1>2, SubSeqProperties
  <2> HIDE DEF r
  <2>2. k \in Nat /\ k <= Len(q)
    BY <1>1
  <2>3. Len(r) = Len(q) - k
    <3>1. Len(r) = IF 1 + k <= Len(q) THEN Len(q) - (1 + k) + 1 ELSE 0
      BY <2>1
    <3> HIDE DEF r
    <3>2. Len(q) \in Int /\ k \in Int
      BY <1>1, <2>2
    <3> QED BY <2>2, <3>1, <3>2
  <2>4. ASSUME NEW i \in 1 .. Len(q) - k PROVE r[i] = q[k + i]
    <3>1. i \in 1 .. Len(q) - (1 + k) + 1 /\ (1 + k) + i - 1 = k + i
      BY <1>1, <2>2
    <3>2. r[i] = q[(1 + k) + i - 1]
      BY <2>1, <3>1
    <3> QED BY <3>1, <3>2
  <2> QED BY <2>1, <2>3, <2>4
<1> HIDE DEF r
<1>4. DOMAIN r = 1 .. Len(q) - k
  BY <1>3
<1>5. IsInjective(r)
  <2> SUFFICES ASSUME NEW i \in DOMAIN r, NEW j \in DOMAIN r, r[i] = r[j] PROVE i = j
    BY DEF IsInjective
  <2>0. i \in 1 .. Len(q) - k /\ j \in 1 .. Len(q) - k
    BY <1>4
  <2>1. k + i \in DOMAIN q /\ k + j \in DOMAIN q /\ q[k + i] = q[k + j]
    BY <1>1, <1>3, <2>0, SMTT(60)
  <2>2. k + i = k + j
    BY <1>1, <2>1 DEF IsInjective
  <2> QED BY <1>1, <1>4, <2>2
<1>6. Range(r) \subseteq Range(q)
  <2> SUFFICES ASSUME NEW i \in DOMAIN r PROVE r[i] \in Range(q)
    BY DEF Range
  <2>1. k + i \in DOMAIN q /\ q[k + i] = r[i]
    BY <1>1, <1>3, <1>4
  <2> QED BY <2>1 DEF Range
<1> QED BY <1>3, <1>5, <1>6 DEF r, Queue

\* n signals at once.
LEMMA SemSignalnOK ==
    ASSUME NEW P, NEW s, SemOK(s, P), NEW n \in Nat
    PROVE  /\ SemOK(SemSignaln(s, n), P)
           /\ SemSignaln(s, n).count = s.count + n
           /\ InLine(SemSignaln(s, n)) \subseteq InLine(s)
<1> DEFINE k == Min({n, Len(s.line)})
           w == SemSignaln(s, n)
<1>1. s.line \in Queue(P) /\ Len(s.line) \in Nat /\ s.count \in Int
  BY DEF SemOK, Queue
<1>2. k = IF n <= Len(s.line) THEN n ELSE Len(s.line)
  BY <1>1, MinOfTwo
<1>3. w = [count |-> s.count + n, line |-> SubSeq(s.line, 1 + k, Len(s.line))]
  BY DEF SemSignaln
<1> HIDE DEF k, w
<1>4. k \in 0 .. Len(s.line)
  BY <1>1, <1>2
<1>5. /\ w.line \in Queue(P) /\ Len(w.line) = Len(s.line) - k
      /\ Range(w.line) \subseteq Range(s.line)
  <2>1. w.line = SubSeq(s.line, 1 + k, Len(s.line))
    BY <1>3
  <2> QED BY <1>1, <1>4, <2>1, SubSeqQueue
<1>6. w.count = s.count + n /\ w = [count |-> w.count, line |-> w.line]
  BY <1>3
<1>7. /\ s.count >= 0 => Len(s.line) = 0
      /\ s.count < 0 => Len(s.line) + s.count = 0
  BY DEF SemOK
<1>8. w.count >= 0 => w.line = <<>>
  <2>1. w.count >= 0 => Len(w.line) = 0
    BY <1>1, <1>2, <1>5, <1>6, <1>7
  <2>2. w.line \in Seq(P)
    BY <1>5 DEF Queue
  <2> QED BY <2>1, <2>2
<1>9. w.count < 0 => Len(w.line) + w.count = 0
  BY <1>1, <1>2, <1>5, <1>6, <1>7
<1> QED BY <1>1, <1>5, <1>6, <1>8, <1>9 DEF SemOK, InLine, w

\* Handling a character keeps the block, and nobody but a reader is let in.
Calm(t, u, g, w) ==
    /\ Block(u) /\ Balanced(u, g, w)
    /\ InLine(u.isem) \subseteq InLine(t.isem) /\ u.osem = t.osem

\* Nothing changes but what is echoed, and n characters more are in the ring.
Alike(t, u, n) ==
    /\ Block(u) /\ u.unread = t.unread + n
    /\ u.isem = t.isem /\ u.osem = t.osem /\ u.unsent = t.unsent /\ u.icursor = t.icursor

LEMMA RingLengths ==
    /\ TY_IBUFLEN \in Nat \ {0} /\ TY_OBUFLEN \in Nat \ {0} /\ TY_EBUFLEN \in Nat \ {0}
    /\ UART_FIFO_SIZE \in Nat \ {0}
  BY TtyAssumption

LEMMA RingPlaces ==
    /\ \A i \in Int : i % TY_IBUFLEN \in InRing
    /\ \A i \in Int : i % TY_OBUFLEN \in OutRing
    /\ \A i \in Int : i % TY_EBUFLEN \in 0 .. TY_EBUFLEN-1
  BY RingStep, RingLengths DEF InRing, OutRing

LEMMA BlockNumbers ==
    ASSUME NEW t, Block(t)
    PROVE  /\ t.isem.count \in Int /\ t.osem.count \in Int /\ t.icursor \in Nat
           /\ t.unread \in Nat /\ t.unsent \in Nat
           /\ t.itail \in Int /\ t.otail \in Int /\ t.ihead \in Int /\ t.ohead \in Int
           /\ t.echo \in Nat
<1>1. SemOK(t.isem, TtyUser) /\ SemOK(t.osem, TtyUser)
  BY DEF Block
<1>2. t.isem.count \in Int /\ t.osem.count \in Int
  BY <1>1 DEF SemOK
<1>3. /\ t.icursor \in Nat /\ t.echo \in 0 .. TY_EBUFLEN-1
      /\ t.unread \in 0 .. TY_IBUFLEN /\ t.unsent \in 0 .. TY_OBUFLEN
      /\ t.itail \in 0 .. TY_IBUFLEN-1 /\ t.ihead \in 0 .. TY_IBUFLEN-1
      /\ t.otail \in 0 .. TY_OBUFLEN-1 /\ t.ohead \in 0 .. TY_OBUFLEN-1
  BY DEF Block, InRing, OutRing
<1> QED BY <1>2, <1>3, RingLengths

LEMMA AlikeCalm ==
    ASSUME NEW t, Block(t), NEW g \in Nat, NEW w \in Nat, Balanced(t, g, w), NEW n \in Nat,
           NEW u, Alike(t, u, n)
    PROVE  Calm(t, u, g, w)
  BY BlockNumbers DEF Alike, Calm, Balanced

LEMMA EputcAlike ==
    ASSUME NEW t, Block(t), NEW n \in Nat
    PROVE  Alike(t, Eputc(t, n), 0) /\ Eputc(t, n).itail = t.itail
<1> DEFINE u == Eputc(t, n)
<1>1. (t.echo + n) % TY_EBUFLEN \in 0 .. TY_EBUFLEN-1
  BY RingPlaces, BlockNumbers
<1>2. u = [t EXCEPT !.echo = (t.echo + n) % TY_EBUFLEN, !.thre = TRUE]
  BY DEF Eputc
<1>3. Block(u)
  BY <1>1, <1>2 DEF Block, Shaped
<1>4. /\ u.isem = t.isem /\ u.osem = t.osem /\ u.unsent = t.unsent /\ u.unread = t.unread
      /\ u.icursor = t.icursor /\ u.itail = t.itail
  BY <1>2 DEF Block, Shaped
<1> HIDE DEF u
<1>5. u.unread = t.unread + 0
  BY <1>4, BlockNumbers
<1> QED BY <1>3, <1>4, <1>5 DEF Alike, u

LEMMA EchochAlike ==
    ASSUME NEW t, Block(t), NEW ch
    PROVE  Alike(t, Echoch(t, ch), 0) /\ Echoch(t, ch).itail = t.itail
<1>1. CASE t.iecho
  BY <1>1, EputcAlike DEF Echoch, EchoLen
<1>2. CASE ~t.iecho
  <2>1. t.unread = t.unread + 0
    BY BlockNumbers
  <2> QED BY <1>2, <2>1 DEF Echoch, Alike
<1> QED BY <1>1, <1>2

LEMMA StoredAlike ==
    ASSUME NEW t, Block(t), NEW ch, t.unread < TY_IBUFLEN, NEW k \in InRing
    PROVE  Alike(t, [Stored(t, ch) EXCEPT !.itail = k], 1)
<1> DEFINE u == [Stored(t, ch) EXCEPT !.itail = k]
<1>1. u = [t EXCEPT !.ibuff = [t.ibuff EXCEPT ![t.itail] = ch], !.unread = t.unread + 1, !.itail = k]
  BY DEF Stored, Block, Shaped
<1>2. t.unread + 1 \in 0 .. TY_IBUFLEN
  BY TtyAssumption DEF Block
<1>3. Block(u)
  BY <1>1, <1>2, ZenonT(60) DEF Block, Shaped
<1> QED BY <1>1, <1>3 DEF Block, Shaped, Alike

LEMMA IntoRingAlike ==
    ASSUME NEW t, Block(t), NEW ch, t.unread < TY_IBUFLEN
    PROVE  /\ Alike(t, IntoRing(t, ch), 1)
           /\ t.itail < TY_IBUFLEN - 1 => Alike(t, IntoRingNoWrap(t, ch), 1)
<1>1. Stored(t, ch).itail = t.itail
  BY DEF Stored, Block, Shaped
<1>2. (t.itail + 1) % TY_IBUFLEN \in InRing
  <2>1. t.itail + 1 \in Int
    BY BlockNumbers
  <2> QED BY <2>1, RingPlaces
<1>3. t.itail < TY_IBUFLEN - 1 => t.itail + 1 \in InRing
  BY TtyAssumption DEF Block, InRing
<1>4. /\ IntoRing(t, ch) = [Stored(t, ch) EXCEPT !.itail = (t.itail + 1) % TY_IBUFLEN]
      /\ IntoRingNoWrap(t, ch) = [Stored(t, ch) EXCEPT !.itail = t.itail + 1]
  BY <1>1 DEF IntoRing, IntoRingNoWrap
<1> QED BY <1>2, <1>3, <1>4, StoredAlike

\* n readers are let in, or units given, for n characters: the last k of the
\* line being typed and the others new.
LEMMA GivenCalm ==
    ASSUME NEW t, Block(t), NEW g \in Nat, NEW w \in Nat, Balanced(t, g, w),
           NEW v, NEW m \in Nat, Alike(t, v, m),
           NEW s, NEW c \in Nat, SemOK(s, TtyUser), InLine(s) \subseteq InLine(t.isem),
           s.count >= t.isem.count, s.count + c <= t.isem.count + t.icursor + m
    PROVE  Calm(t, [v EXCEPT !.isem = s, !.icursor = c], g, w)
<1> DEFINE u == [v EXCEPT !.isem = s, !.icursor = c]
<1>1. Block(v)
  BY DEF Alike
<1>2. /\ Block(u) /\ u.isem = s /\ u.icursor = c /\ u.unread = v.unread
      /\ u.osem = v.osem /\ u.unsent = v.unsent
  BY <1>1 DEF Block, Shaped
<1> HIDE DEF u
<1>3. s.count \in Int
  BY DEF SemOK
<1>4. Balanced(u, g, w)
  BY <1>2, <1>3, BlockNumbers DEF Balanced, Alike
<1> QED BY <1>2, <1>4 DEF Calm, Alike, u

LEMMA HandleRawCalm ==
    ASSUME NEW t, Block(t), NEW g \in Nat, NEW w \in Nat, Balanced(t, g, w), NEW ch,
           t.unread < TY_IBUFLEN, t.itail < TY_IBUFLEN - 1
    PROVE  Calm(t, HandleRaw(t, ch), g, w)
<1>1. CASE Avail(t) >= TY_IBUFLEN
  BY <1>1 DEF HandleRaw, Calm
<1>2. CASE ~(Avail(t) >= TY_IBUFLEN)
  <2> DEFINE v == IntoRingNoWrap(t, ch)
             s == SemSignal(t.isem)
  <2>1. Alike(t, v, 1)
    BY IntoRingAlike
  <2>2. /\ SemOK(s, TtyUser) /\ s.count = t.isem.count + 1 /\ InLine(s) \subseteq InLine(t.isem)
    <3>1. SemOK(t.isem, TtyUser)
      BY DEF Block
    <3> QED BY <3>1, SemSignalOK DEF SemOK
  <2>3. HandleRaw(t, ch) = [v EXCEPT !.isem = SemSignal(v.isem)]
    BY <1>2 DEF HandleRaw
  <2> HIDE DEF v
  <2>4. HandleRaw(t, ch) = [v EXCEPT !.isem = s, !.icursor = t.icursor]
    BY <2>1, <2>3 DEF Alike, Block, Shaped
  <2> HIDE DEF s
  <2>5. s.count >= t.isem.count /\ s.count + t.icursor <= t.isem.count + t.icursor + 1
    BY <2>2, BlockNumbers
  <2>6. t.icursor \in Nat
    BY BlockNumbers
  <2>7. Calm(t, [v EXCEPT !.isem = s, !.icursor = t.icursor], g, w)
    BY <2>1, <2>2, <2>5, <2>6, GivenCalm
  <2> QED BY <2>4, <2>7
<1> QED BY <1>1, <1>2

LEMMA HandleCbreakCalm ==
    ASSUME NEW t, Block(t), NEW g \in Nat, NEW w \in Nat, Balanced(t, g, w), NEW ch,
           t.unread < TY_IBUFLEN
    PROVE  Calm(t, HandleCbreak(t, ch), g, w)
<1>1. CASE Avail(t) >= TY_IBUFLEN
  BY <1>1, EputcAlike, AlikeCalm DEF HandleCbreak
<1>2. CASE ~(Avail(t) >= TY_IBUFLEN)
  <2>1. Alike(t, IntoRing(t, ch), 1)
    BY IntoRingAlike
  <2>2. Alike(IntoRing(t, ch), Echoch(IntoRing(t, ch), ch), 0)
    BY <2>1, EchochAlike DEF Alike
  <2>3. Alike(t, Echoch(IntoRing(t, ch), ch), 1)
    BY <2>1, <2>2, BlockNumbers DEF Alike
  <2> QED BY <1>2, <2>3, AlikeCalm DEF HandleCbreak
<1> QED BY <1>1, <1>2

\* The line that is being typed is in the ring.
LEMMA CursorInRing ==
    ASSUME NEW t, Block(t), NEW g \in Nat, NEW w \in Nat, Balanced(t, g, w)
    PROVE  t.icursor <= t.unread
  BY BlockNumbers DEF Balanced

LEMMA LineKillCalm ==
    ASSUME NEW t, Block(t), NEW g \in Nat, NEW w \in Nat, Balanced(t, g, w),
           t.icursor <= t.itail
    PROVE  Calm(t, LineKill(t), g, w)
<1> DEFINE v == [t EXCEPT !.itail = t.itail - t.icursor, !.unread = t.unread - t.icursor,
                          !.icursor = 0]
<1>1. ~(t.itail - t.icursor < 0) /\ t.itail - t.icursor \in InRing
  BY TtyAssumption DEF Block, InRing
<1>2. t.unread - t.icursor \in 0 .. TY_IBUFLEN
  <2>1. t.icursor <= t.unread
    BY CursorInRing
  <2>2. t.icursor \in Nat /\ t.unread \in 0 .. TY_IBUFLEN
    BY DEF Block
  <2> QED BY <2>1, <2>2, RingLengths
<1>3. LineKill(t) = Eputc(v, 2)
  <2>1. [t EXCEPT !.itail = t.itail - t.icursor, !.ihead = t.ihead,
                  !.unread = t.unread - t.icursor, !.icursor = 0] = v
    BY DEF Block, Shaped
  <2> QED BY <1>1, <2>1 DEF LineKill
<1>4. Block(v) /\ v.unread = t.unread - t.icursor /\ v.icursor = 0
      /\ v.isem = t.isem /\ v.osem = t.osem /\ v.unsent = t.unsent
  BY <1>1, <1>2 DEF Block, Shaped
<1> HIDE DEF v
<1>5. Balanced(v, g, w)
  BY <1>4, BlockNumbers DEF Balanced
<1>6. Calm(v, Eputc(v, 2), g, w)
  BY <1>4, <1>5, EputcAlike, AlikeCalm
<1> QED BY <1>3, <1>4, <1>6 DEF Calm

LEMMA EraseCalm ==
    ASSUME NEW t, Block(t), NEW g \in Nat, NEW w \in Nat, Balanced(t, g, w)
    PROVE  Calm(t, Erase(t), g, w)
<1>1. CASE t.icursor = 0
  BY <1>1 DEF Erase, Calm
<1>2. CASE t.icursor # 0
  <2> DEFINE v == [t EXCEPT !.icursor = t.icursor - 1, !.itail = (t.itail - 1) % TY_IBUFLEN,
                            !.unread = t.unread - 1]
  <2>1. (t.itail - 1) % TY_IBUFLEN \in InRing
    <3>1. t.itail - 1 \in Int
      BY BlockNumbers
    <3> QED BY <3>1, RingPlaces
  <2>2. t.unread - 1 \in 0 .. TY_IBUFLEN /\ t.icursor - 1 \in Nat
    <3>1. t.icursor <= t.unread
      BY CursorInRing
    <3>2. t.icursor \in Nat /\ t.unread \in 0 .. TY_IBUFLEN
      BY DEF Block
    <3> QED BY <1>2, <3>1, <3>2, RingLengths
  <2>3. Erase(t) = IF v.iecho THEN Eputc(v, 3) ELSE v
    BY <1>2 DEF Erase
  <2>4. Block(v) /\ v.unread = t.unread - 1 /\ v.icursor = t.icursor - 1
        /\ v.isem = t.isem /\ v.osem = t.osem /\ v.unsent = t.unsent
    BY <2>1, <2>2 DEF Block, Shaped
  <2> HIDE DEF v
  <2>5. Balanced(v, g, w)
    BY <2>4, BlockNumbers DEF Balanced
  <2>6. Calm(v, Eputc(v, 3), g, w) /\ Calm(v, v, g, w)
    <3>1. Alike(v, Eputc(v, 3), 0)
      BY <2>4, EputcAlike
    <3>2. Calm(v, Eputc(v, 3), g, w)
      BY <2>4, <2>5, <3>1, AlikeCalm
    <3> QED BY <2>4, <2>5, <3>2 DEF Calm
  <2> QED BY <2>3, <2>4, <2>6 DEF Calm
<1> QED BY <1>1, <1>2

LEMMA EndOfLineCalm ==
    ASSUME NEW t, Block(t), NEW g \in Nat, NEW w \in Nat, Balanced(t, g, w),
           t.unread < TY_IBUFLEN
    PROVE  Calm(t, EndOfLine(t), g, w)
<1> DEFINE v == IntoRing(Echoch(t, "nl"), "nl")
           s == SemSignaln(t.isem, t.icursor + 1)
<1>1. Alike(t, Echoch(t, "nl"), 0)
  BY EchochAlike
<1>2. Echoch(t, "nl").unread = t.unread
  BY <1>1, BlockNumbers DEF Alike
<1>3. Alike(Echoch(t, "nl"), v, 1)
  BY <1>1, <1>2, IntoRingAlike DEF Alike
<1>4. Alike(t, v, 1)
  BY <1>1, <1>2, <1>3 DEF Alike
<1>5. EndOfLine(t) = [v EXCEPT !.isem = SemSignaln(v.isem, t.icursor + 1), !.icursor = 0]
  BY DEF EndOfLine
<1>6. /\ SemOK(s, TtyUser) /\ s.count = t.isem.count + (t.icursor + 1)
      /\ InLine(s) \subseteq InLine(t.isem)
  <2>1. SemOK(t.isem, TtyUser) /\ t.icursor + 1 \in Nat
    BY DEF Block
  <2> QED BY <2>1, SemSignalnOK
<1> HIDE DEF v
<1>7. EndOfLine(t) = [v EXCEPT !.isem = s, !.icursor = 0]
  BY <1>4, <1>5 DEF Alike
<1> HIDE DEF s
<1>8. s.count >= t.isem.count /\ s.count + 0 <= t.isem.count + t.icursor + 1
  BY <1>6, BlockNumbers
<1>9. Calm(t, [v EXCEPT !.isem = s, !.icursor = 0], g, w)
  BY <1>4, <1>6, <1>8, GivenCalm
<1> QED BY <1>7, <1>9

LEMMA EofCalm ==
    ASSUME NEW t, Block(t), NEW g \in Nat, NEW w \in Nat, Balanced(t, g, w),
           t.unread < TY_IBUFLEN, t.itail < TY_IBUFLEN - 1
    PROVE  Calm(t, Eof(t), g, w)
<1> DEFINE e == Echoch(t, "eof")
           v == IntoRingNoWrap(e, "eof")
           s == SemSignal(t.isem)
<1>1. Alike(t, e, 0) /\ e.itail = t.itail
  BY EchochAlike
<1>2. CASE t.icursor # 0
  BY <1>1, <1>2, AlikeCalm DEF Eof
<1>3. CASE t.icursor = 0
  <2>1. e.unread = t.unread
    BY <1>1, BlockNumbers DEF Alike
  <2>2. Alike(e, v, 1)
    BY <1>1, <2>1, IntoRingAlike DEF Alike
  <2>3. Alike(t, v, 1)
    BY <1>1, <2>1, <2>2 DEF Alike
  <2>4. Eof(t) = [v EXCEPT !.isem = SemSignal(v.isem)]
    BY <1>3 DEF Eof
  <2>5. /\ SemOK(s, TtyUser) /\ s.count = t.isem.count + 1
        /\ InLine(s) \subseteq InLine(t.isem)
    <3>1. SemOK(t.isem, TtyUser)
      BY DEF Block
    <3> QED BY <3>1, SemSignalOK DEF SemOK
  <2> HIDE DEF v
  <2>6. Eof(t) = [v EXCEPT !.isem = s, !.icursor = 0]
    BY <1>3, <2>3, <2>4 DEF Alike, Block, Shaped
  <2> HIDE DEF s
  <2>7. s.count >= t.isem.count /\ s.count + 0 <= t.isem.count + t.icursor + 1
    BY <1>3, <2>5, BlockNumbers
  <2>8. Calm(t, [v EXCEPT !.isem = s, !.icursor = 0], g, w)
    BY <2>3, <2>5, <2>7, GivenCalm
  <2> QED BY <2>6, <2>8
<1> QED BY <1>2, <1>3

LEMMA PlainCalm ==
    ASSUME NEW t, Block(t), NEW g \in Nat, NEW w \in Nat, Balanced(t, g, w), NEW ch,
           t.unread < TY_IBUFLEN
    PROVE  Calm(t, [IntoRing(Echoch(t, ch), ch) EXCEPT !.icursor = @ + 1], g, w)
<1> DEFINE v == IntoRing(Echoch(t, ch), ch)
           u == [v EXCEPT !.icursor = @ + 1]
<1>1. Alike(t, Echoch(t, ch), 0)
  BY EchochAlike
<1>2. Echoch(t, ch).unread = t.unread
  BY <1>1, BlockNumbers DEF Alike
<1>3. Alike(Echoch(t, ch), v, 1)
  BY <1>1, <1>2, IntoRingAlike DEF Alike
<1>4. Alike(t, v, 1)
  BY <1>1, <1>2, <1>3 DEF Alike
<1> HIDE DEF v
<1>5. u = [v EXCEPT !.isem = t.isem, !.icursor = t.icursor + 1]
  BY <1>4 DEF Alike, Block, Shaped
<1>6. /\ t.icursor + 1 \in Nat /\ t.isem.count >= t.isem.count
      /\ t.isem.count + (t.icursor + 1) <= t.isem.count + t.icursor + 1
      /\ SemOK(t.isem, TtyUser)
  BY BlockNumbers DEF Block
<1>7. Calm(t, [v EXCEPT !.isem = t.isem, !.icursor = t.icursor + 1], g, w)
  BY <1>4, <1>6, GivenCalm
<1> QED BY <1>5, <1>7 DEF v

LEMMA HandleCookedCalm ==
    ASSUME NEW t, Block(t), NEW g \in Nat, NEW w \in Nat, Balanced(t, g, w), NEW ch \in Keys,
           ch \notin {"start", "stop"},
           t.unread < TY_IBUFLEN, ch = "kill" => t.icursor <= t.itail,
           ch = "eof" => t.itail < TY_IBUFLEN - 1
    PROVE  Calm(t, HandleCooked(t, ch), g, w)
<1>1. CASE ch = "kill"
  BY <1>1, LineKillCalm, TtyAssumption DEF HandleCooked
<1>2. CASE ch = "erase"
  BY <1>2, EraseCalm, TtyAssumption DEF HandleCooked
<1>3. CASE ch = "nl"
  BY <1>3, EndOfLineCalm, TtyAssumption DEF HandleCooked
<1>4. CASE ch \notin {"kill", "erase", "nl"} /\ Full(t)
  <2>1. HandleCooked(t, ch) = Eputc(t, 1)
    BY <1>4 DEF HandleCooked
  <2>2. Alike(t, Eputc(t, 1), 0)
    BY EputcAlike
  <2> QED BY <2>1, <2>2, AlikeCalm
<1>5. CASE ch = "eof" /\ ~Full(t)
  <2>1. HandleCooked(t, ch) = Eof(t)
    BY <1>5, TtyAssumption DEF HandleCooked
  <2> QED BY <1>5, <2>1, EofCalm
<1>6. CASE ch \in Plain /\ ~Full(t)
  <2>1. ch \notin {"kill", "erase", "nl", "eof"}
    BY <1>6, TtyAssumption
  <2>2. HandleCooked(t, ch) = [IntoRing(Echoch(t, ch), ch) EXCEPT !.icursor = @ + 1]
    BY <1>6, <2>1 DEF HandleCooked
  <2> QED BY <2>2, PlainCalm
<1> QED BY <1>1, <1>2, <1>3, <1>4, <1>5, <1>6, TtyAssumption

LEMMA HandleInCalm ==
    ASSUME TtyCareless = {}, TtyInv, NEW g \in Nat, NEW w \in Nat, Balanced(tty, g, w),
           NEW ch \in Keys, Pressed(ch)
    PROVE  Calm(tty, HandleIn(tty, ch), g, w)
<1> DEFINE t == tty
<1>1. Block(t) /\ t.unread < TY_IBUFLEN
  BY DEF TtyInv, Pressed
<1>2. /\ t.imode = "raw" \/ ch = "eof" => t.itail < TY_IBUFLEN - 1
      /\ t.imode = "cooked" /\ ch = "kill" => t.icursor <= t.itail
      /\ t.oheld => ch \in {"start", "stop"}
  BY DEF Pressed
<1>3. CASE t.imode = "raw"
  BY <1>1, <1>2, <1>3, HandleRawCalm DEF HandleIn
<1>4. CASE t.imode # "raw" /\ ch \in {"start", "stop"}
  <2> DEFINE v == HandleIn(t, ch)
  <2>1. v = [t EXCEPT !.oheld = FALSE, !.thre = TRUE] \/ v = [t EXCEPT !.oheld = TRUE]
    BY <1>4 DEF HandleIn
  <2> HIDE DEF v
  <2>2. CASE v = [t EXCEPT !.oheld = FALSE, !.thre = TRUE]
    <3>1. Block(v) /\ v.isem = t.isem /\ v.osem = t.osem /\ v.unsent = t.unsent
          /\ v.unread = t.unread /\ v.icursor = t.icursor
      BY <1>1, <2>2 DEF Block, Shaped
    <3> QED BY <3>1 DEF Calm, Balanced, v
  <2>3. CASE v = [t EXCEPT !.oheld = TRUE]
    <3>1. Block(v) /\ v.isem = t.isem /\ v.osem = t.osem /\ v.unsent = t.unsent
          /\ v.unread = t.unread /\ v.icursor = t.icursor
      BY <1>1, <2>3 DEF Block, Shaped
    <3> QED BY <3>1 DEF Calm, Balanced, v
  <2> QED BY <2>1, <2>2, <2>3
<1>5. CASE t.imode # "raw" /\ ch \notin {"start", "stop"}
  <2> DEFINE u == [t EXCEPT !.oheld = FALSE]
  <2>1. HandleIn(t, ch) = IF t.imode = "cbreak" THEN HandleCbreak(u, ch) ELSE HandleCooked(u, ch)
    BY <1>5 DEF HandleIn
  <2>2. Block(u) /\ u.isem = t.isem /\ u.osem = t.osem /\ u.unsent = t.unsent
        /\ u.unread = t.unread /\ u.icursor = t.icursor /\ u.itail = t.itail
    BY <1>1, <1>2, <1>5 DEF Block, Shaped
  <2> HIDE DEF u
  <2>3. Balanced(u, g, w)
    BY <2>2 DEF Balanced
  <2>4. t.imode \in {"cbreak", "cooked"}
    BY <1>1, <1>5 DEF Block
  <2>5. CASE t.imode = "cbreak"
    <3>1. Calm(u, HandleCbreak(u, ch), g, w)
      BY <1>1, <2>2, <2>3, HandleCbreakCalm
    <3> QED BY <2>1, <2>2, <2>5, <3>1 DEF Calm
  <2>6. CASE t.imode = "cooked"
    <3>1. Calm(u, HandleCooked(u, ch), g, w)
      BY <1>1, <1>2, <1>5, <2>2, <2>3, <2>6, HandleCookedCalm
    <3> QED BY <2>1, <2>2, <2>6, <3>1 DEF Calm
  <2> QED BY <2>4, <2>5, <2>6
<1> QED BY <1>3, <1>4, <1>5

\* The handler sends no more than there is, and gives as many places back.
LEMMA HandleOutKeeps ==
    ASSUME NEW t, Block(t), NEW g \in Nat, NEW w \in Nat, Balanced(t, g, w),
           Ochars(t) <= t.unsent
    PROVE  LET u == HandleOut(t)
           IN  /\ Block(u) /\ Balanced(u, g, w)
               /\ InLine(u.osem) \subseteq InLine(t.osem) /\ u.isem = t.isem
<1> DEFINE u == HandleOut(t)
<1>1. CASE t.oheld \/ (t.echo = 0 /\ t.osem.count >= TY_OBUFLEN)
  <2>1. u = [t EXCEPT !.thre = FALSE, !.wire = <<>>]
    BY <1>1 DEF HandleOut
  <2>2. t.oheld \/ (t.echo = 0 /\ t.unsent = 0)
    BY <1>1, BlockNumbers, RingLengths DEF Balanced
  <2>3. Block(u)
    BY <2>1, <2>2 DEF Block, Shaped
  <2>4. u.isem = t.isem /\ u.osem = t.osem /\ u.unsent = t.unsent
        /\ u.unread = t.unread /\ u.icursor = t.icursor
    BY <2>1 DEF Block, Shaped
  <2> QED BY <2>3, <2>4 DEF Balanced
<1>2. CASE ~(t.oheld \/ (t.echo = 0 /\ t.osem.count >= TY_OBUFLEN))
  <2> DEFINE n == Ochars(t)
             e == Min({UART_FIFO_SIZE, t.echo})
             s == SemSignaln(t.osem, n)
             o == [k \in 1 .. n |-> t.obuff[(t.ohead + k - 1) % TY_OBUFLEN]]
  <2>1. e \in Nat /\ e <= t.echo /\ UART_FIFO_SIZE - e \in Nat
    BY MinOfTwo, RingLengths, BlockNumbers, SMTT(60)
  <2>2. n \in Nat /\ n <= t.unsent
    <3>1. TY_OBUFLEN - t.osem.count \in Nat
      BY BlockNumbers, RingLengths DEF Balanced
    <3>2. Min({UART_FIFO_SIZE - e, TY_OBUFLEN - t.osem.count}) \in Nat
      BY <2>1, <3>1, MinOfTwo, ZenonT(60)
    <3> QED BY <3>2 DEF Ochars
  <2>3. u = [t EXCEPT !.echo = t.echo - e, !.wire = o, !.ohead = (t.ohead + n) % TY_OBUFLEN,
                      !.osem = s, !.unsent = t.unsent - n, !.thre = TRUE]
    BY <1>2 DEF HandleOut
  <2>4. /\ SemOK(s, TtyUser) /\ s.count = t.osem.count + n /\ InLine(s) \subseteq InLine(t.osem)
    <3>1. SemOK(t.osem, TtyUser)
      BY DEF Block
    <3> HIDE DEF n
    <3> QED BY <2>2, <3>1, SemSignalnOK
  <2> HIDE DEF n, e, s, o
  <2>5. t.echo - e \in 0 .. TY_EBUFLEN-1
    BY <2>1, RingLengths DEF Block
  <2>6. (t.ohead + n) % TY_OBUFLEN \in OutRing
    <3>1. t.ohead + n \in Int
      BY <2>2, BlockNumbers
    <3> QED BY <3>1, RingPlaces
  <2>7. t.unsent - n \in 0 .. TY_OBUFLEN
    BY <2>2, RingLengths DEF Block
  <2>8. Block(u)
    BY <2>3, <2>4, <2>5, <2>6, <2>7 DEF Block, Shaped
  <2>9. u.isem = t.isem /\ u.osem = s /\ u.unsent = t.unsent - n
        /\ u.unread = t.unread /\ u.icursor = t.icursor
    BY <2>3 DEF Block, Shaped
  <2> HIDE DEF u
  <2>10. Balanced(u, g, w)
    BY <2>2, <2>4, <2>9, BlockNumbers DEF Balanced
  <2> QED BY <2>4, <2>8, <2>9, <2>10 DEF u
<1> QED BY <1>1, <1>2

LEMMA UsersCounted ==
    ASSUME NEW S, S \subseteq TtyUser
    PROVE  /\ IsFiniteSet(S) /\ Cardinality(S) \in Nat
           /\ \A p \in TtyUser \ S : Cardinality(S \cup {p}) = Cardinality(S) + 1
           /\ \A p \in S : Cardinality(S \ {p}) = Cardinality(S) - 1
<1>1. IsFiniteSet(S)
  BY TtyAssumption, FS_Subset DEF TtyUser
<1> QED BY <1>1, FS_CardinalityType, FS_AddElement, FS_RemoveElement

\* Of the processes that have asked, those that are not in line have been let
\* in: there is something for each of them.
LEMMA LetInCounted ==
    ASSUME NEW s, SemOK(s, TtyUser), NEW S, S \subseteq TtyUser, InLine(s) \subseteq S
    PROVE  /\ Units(s) + Cardinality(S \ InLine(s)) = s.count + Cardinality(S)
           /\ s.count + Cardinality(S) >= 0
           /\ S # InLine(s) => s.count + Cardinality(S) >= 1
<1> DEFINE L == InLine(s)
<1>1. /\ IsFiniteSet(L) /\ Cardinality(L) = Len(s.line) /\ Len(s.line) \in Nat
  BY QueueCard DEF SemOK, InLine
<1>2. IsFiniteSet(S) /\ Cardinality(S) \in Nat /\ Cardinality(S \ L) \in Nat
      /\ IsFiniteSet(S \ L)
  BY UsersCounted
<1>0. L \subseteq S
  OBVIOUS
<1> HIDE DEF L
<1>3. Cardinality(S) = Cardinality(L) + Cardinality(S \ L)
  <2>1. Cardinality(L \cup (S \ L)) = Cardinality(L) + Cardinality(S \ L)
                                        - Cardinality(L \cap (S \ L))
    BY <1>1, <1>2, FS_Union
  <2>2. L \cup (S \ L) = S /\ L \cap (S \ L) = {}
    BY <1>0
  <2>3. Cardinality(L \cap (S \ L)) = 0
    BY <2>2, FS_EmptySet
  <2>4. Cardinality(S) = Cardinality(L) + Cardinality(S \ L) - 0
    BY <2>1, <2>2, <2>3
  <2>5. Cardinality(L) \in Nat
    BY <1>1
  <2> QED BY <1>2, <2>4, <2>5
<1>4. S # L => Cardinality(S \ L) >= 1
  <2> SUFFICES ASSUME S # L PROVE Cardinality(S \ L) # 0
    BY <1>2
  <2>1. S \ L # {}
    BY <1>0
  <2> QED BY <1>2, <2>1, FS_EmptySet
<1>5. /\ s.count \in Int
      /\ s.count >= 0 => Len(s.line) = 0
      /\ s.count < 0 => Len(s.line) + s.count = 0
  BY DEF SemOK
<1>6. Units(s) - Len(s.line) = s.count /\ Units(s) \in Nat
  BY <1>1, <1>5 DEF Units
<1> QED BY <1>1, <1>2, <1>3, <1>4, <1>5, <1>6, SMTT(60) DEF L

\* What the invariant says of a process that has been let in.
LEMMA LetInFacts ==
    ASSUME TtyInv
    PROVE  /\ Putters \subseteq TtyUser /\ Getters \subseteq TtyUser
           /\ Putters \cap Getters = {}
           /\ Cardinality(Putters) \in Nat /\ Cardinality(Getters) \in Nat
           /\ \A p \in Putters : LetIn(p) <=> p \notin InLine(tty.osem)
           /\ \A p \in Getters : LetIn(p) <=> p \notin InLine(tty.isem)
<1>1. /\ Putters \subseteq TtyUser /\ Getters \subseteq TtyUser
      /\ Putters \cap Getters = {}
  BY DEF Putters, Getters
<1> QED BY <1>1, UsersCounted DEF LetIn, TtyInv, Putters, Getters

\* Only the block changes, nobody asks or takes anything.
LEMMA BlockStep ==
    ASSUME TtyInv, UNCHANGED rest, cpu' \in TtyUser \cup {Nobody},
           Block(tty'), Balanced(tty', Cardinality(Getters), Cardinality(Putters)),
           InLine(tty'.isem) \subseteq InLine(tty.isem),
           InLine(tty'.osem) \subseteq InLine(tty.osem)
    PROVE  TtyInv'
<1>1. Getters' = Getters /\ Putters' = Putters
  BY DEF Getters, Putters
<1>2. /\ DOMAIN rest' = TtyUser
      /\ \A p \in TtyUser : "op" \in DOMAIN rest'[p]
  BY DEF TtyInv
<1> QED BY <1>1, <1>2 DEF TtyInv

\* Forgetting what went over the wire.
LEMMA WireKeeps ==
    ASSUME NEW t, Block(t), NEW x
    PROVE  LET u == [t EXCEPT !.wire = x]
           IN  /\ Block(u) /\ u.isem = t.isem /\ u.osem = t.osem /\ u.unsent = t.unsent
               /\ u.unread = t.unread /\ u.icursor = t.icursor
  BY DEF Block, Shaped

LEMMA ReceiveKeeps ==
    ASSUME TtyCareless = {}, TtyInv, NEW ch \in Keys, Receive(ch)
    PROVE  TtyInv'
<1> DEFINE u == HandleIn(tty, ch)
           g == Cardinality(Getters)
           w == Cardinality(Putters)
<1>1. g \in Nat /\ w \in Nat /\ Balanced(tty, g, w) /\ Pressed(ch)
  BY LetInFacts DEF TtyInv, Receive
<1> HIDE DEF g, w
<1>2. Calm(tty, u, g, w)
  BY <1>1, HandleInCalm
<1>3. tty' = [u EXCEPT !.wire = <<>>] /\ UNCHANGED <<cpu, rest>>
  BY DEF Receive
<1> HIDE DEF u
<1>4. Block(tty') /\ Balanced(tty', g, w)
      /\ InLine(tty'.isem) \subseteq InLine(tty.isem)
      /\ InLine(tty'.osem) \subseteq InLine(tty.osem)
  BY <1>2, <1>3, WireKeeps DEF Calm, Balanced
<1> QED BY <1>3, <1>4, BlockStep DEF g, w, TtyInv

LEMMA TransmitKeeps ==
    ASSUME TtyCareless = {}, TtyInv, Transmit
    PROVE  TtyInv'
<1> DEFINE g == Cardinality(Getters)
           w == Cardinality(Putters)
<1>1. g \in Nat /\ w \in Nat /\ Balanced(tty, g, w) /\ Block(tty)
  BY LetInFacts DEF TtyInv
<1>2. Ochars(tty) <= tty.unsent /\ tty' = HandleOut(tty) /\ UNCHANGED <<cpu, rest>>
  BY DEF Transmit
<1> HIDE DEF g, w
<1>3. Block(tty') /\ Balanced(tty', g, w)
      /\ InLine(tty'.isem) \subseteq InLine(tty.isem)
      /\ InLine(tty'.osem) \subseteq InLine(tty.osem)
  BY <1>1, <1>2, HandleOutKeeps
<1> QED BY <1>2, <1>3, BlockStep DEF g, w, TtyInv

LEMMA ControlKeeps ==
    ASSUME TtyInv, NEW mode \in Modes, NEW echo \in BOOLEAN, Ttycontrol(mode, echo)
    PROVE  TtyInv'
<1>1. Block(tty) /\ mode \in {"cooked", "cbreak", "raw"}
  BY TtyAssumption DEF TtyInv
<1>2. tty' = [tty EXCEPT !.imode = mode, !.iecho = echo, !.wire = <<>>] /\ UNCHANGED <<cpu, rest>>
  BY DEF Ttycontrol
<1>3. /\ Block(tty') /\ tty'.isem = tty.isem /\ tty'.osem = tty.osem
      /\ tty'.unsent = tty.unsent /\ tty'.unread = tty.unread /\ tty'.icursor = tty.icursor
  BY <1>1, <1>2 DEF Block, Shaped
<1>4. Balanced(tty', Cardinality(Getters), Cardinality(Putters))
  BY <1>3 DEF Balanced, TtyInv
<1> QED BY <1>2, <1>3, <1>4, BlockStep DEF TtyInv

\* A step of one process in its call: those that have asked are others by it
\* only.
LEMMA CallStep ==
    ASSUME TtyInv, NEW p \in TtyUser, NEW r, "op" \in DOMAIN r, rest' = [rest EXCEPT ![p] = r]
    PROVE  /\ Putters' = IF r.op = "put" THEN Putters \cup {p} ELSE Putters \ {p}
           /\ Getters' = IF r.op \in {"get", "peek"} THEN Getters \cup {p} ELSE Getters \ {p}
           /\ DOMAIN rest' = TtyUser
           /\ \A q \in TtyUser : "op" \in DOMAIN rest'[q]
<1>1. DOMAIN rest = TtyUser /\ \A q \in TtyUser : "op" \in DOMAIN rest[q]
  BY DEF TtyInv
<1>2. /\ DOMAIN rest' = TtyUser /\ rest'[p] = r
      /\ \A q \in TtyUser : q # p => rest'[q] = rest[q]
  BY <1>1
<1>3. \A q \in TtyUser : "op" \in DOMAIN rest'[q]
  BY <1>1, <1>2
<1> QED BY <1>2, <1>3 DEF Putters, Getters

\* The call of a process that has asked for nothing goes on to a place where
\* it still has not.
LEMMA IdleStep ==
    ASSUME TtyInv, NEW p \in TtyUser, rest[p].op \notin {"put", "get", "peek"},
           NEW r, "op" \in DOMAIN r, r.op \notin {"put", "get", "peek"},
           rest' = [rest EXCEPT ![p] = r], cpu' \in TtyUser \cup {Nobody}, UNCHANGED tty
    PROVE  TtyInv'
<1>1. p \notin Putters /\ p \notin Getters
  BY DEF Putters, Getters
<1>2. Putters' = Putters /\ Getters' = Getters
  <2>1. Putters' = Putters \ {p} /\ Getters' = Getters \ {p}
    BY CallStep
  <2> QED BY <1>1, <2>1
<1>3. /\ DOMAIN rest' = TtyUser
      /\ \A q \in TtyUser : "op" \in DOMAIN rest'[q]
  BY CallStep
<1> QED BY <1>2, <1>3 DEF TtyInv

\* A process asks for a place ...
LEMMA TtyputcWaitKeeps ==
    ASSUME TtyInv, NEW p \in TtyUser, TtyputcWait(p)
    PROVE  TtyInv'
<1> DEFINE s == SemWait(tty.osem, p)
           r == [rest[p] EXCEPT !.op = "put"]
           u == [tty EXCEPT !.osem = s, !.wire = <<>>]
<1>1. /\ "op" \in DOMAIN rest[p] /\ rest[p].op = "write" /\ DOMAIN rest = TtyUser
      /\ Block(tty)
  BY DEF TtyInv, TtyputcWait
<1>2. p \notin Putters /\ p \notin Getters
  BY <1>1 DEF Putters, Getters
<1>3. "op" \in DOMAIN r /\ r.op = "put"
  BY <1>1
<1>4. rest' = [rest EXCEPT ![p] = r]
  BY <1>1 DEF TtyputcWait
<1> HIDE DEF r
<1>5. /\ Putters' = Putters \cup {p} /\ Getters' = Getters
      /\ DOMAIN rest' = TtyUser /\ \A q \in TtyUser : "op" \in DOMAIN rest'[q]
  <2>1. /\ Putters' = Putters \cup {p} /\ Getters' = Getters \ {p}
        /\ DOMAIN rest' = TtyUser /\ \A q \in TtyUser : "op" \in DOMAIN rest'[q]
    BY <1>3, <1>4, CallStep
  <2> QED BY <1>2, <2>1
<1>6. /\ SemOK(s, TtyUser) /\ s.count = tty.osem.count - 1
      /\ InLine(s) \subseteq InLine(tty.osem) \cup {p}
  <2>1. SemOK(tty.osem, TtyUser) /\ p \notin InLine(tty.osem)
    BY <1>1, <1>2 DEF Block, TtyInv
  <2> QED BY <2>1, SemWaitOK
<1>7. tty' = u /\ cpu' \in TtyUser \cup {Nobody}
  BY DEF TtyputcWait
<1> HIDE DEF s
<1>8. /\ Block(u) /\ u.isem = tty.isem /\ u.osem = s /\ u.unsent = tty.unsent
      /\ u.unread = tty.unread /\ u.icursor = tty.icursor
  BY <1>1, <1>6 DEF Block, Shaped
<1> HIDE DEF u
<1>9. Cardinality(Putters') = Cardinality(Putters) + 1 /\ Cardinality(Putters) \in Nat
      /\ Cardinality(Getters) \in Nat
  BY <1>2, <1>5, LetInFacts, UsersCounted
<1>10. Balanced(tty', Cardinality(Getters'), Cardinality(Putters'))
  BY <1>1, <1>5, <1>6, <1>7, <1>8, <1>9, BlockNumbers DEF TtyInv, Balanced
<1>11. InLine(tty'.isem) \subseteq Getters' /\ InLine(tty'.osem) \subseteq Putters'
  BY <1>5, <1>6, <1>7, <1>8 DEF TtyInv
<1> QED BY <1>5, <1>7, <1>8, <1>10, <1>11 DEF TtyInv

\* ... and a character goes into it.
LEMMA TtyputcPlaceKeeps ==
    ASSUME TtyInv, NEW p \in TtyUser, TtyputcPlace(p)
    PROVE  TtyInv'
<1> DEFINE r == IF Len(rest[p].text) = 1 THEN Done
                ELSE [op |-> "write", text |-> Tail(rest[p].text)]
           u == Placed(Head(rest[p].text))
<1>1. /\ rest[p].op = "put" /\ LetIn(p) /\ Block(tty)
      /\ tty' = u
      /\ rest' = [rest EXCEPT ![p] = r]
      /\ cpu' \in TtyUser \cup {Nobody}
  BY DEF TtyInv, TtyputcPlace, Returns
<1>2. p \in Putters /\ p \notin Getters /\ p \notin InLine(tty.osem)
  BY <1>1 DEF Putters, Getters, LetIn
<1>3. "op" \in DOMAIN r /\ r.op \notin {"put", "get", "peek"}
  BY DEF Done
<1> HIDE DEF r
<1>4. /\ Putters' = Putters \ {p} /\ Getters' = Getters
      /\ DOMAIN rest' = TtyUser /\ \A q \in TtyUser : "op" \in DOMAIN rest'[q]
  <2>1. /\ Putters' = Putters \ {p} /\ Getters' = Getters \ {p}
        /\ DOMAIN rest' = TtyUser /\ \A q \in TtyUser : "op" \in DOMAIN rest'[q]
    BY <1>1, <1>3, CallStep
  <2> QED BY <1>2, <2>1
<1>5. /\ Cardinality(Putters') = Cardinality(Putters) - 1 /\ Cardinality(Putters) \in Nat
      /\ Cardinality(Getters) \in Nat
  BY <1>2, <1>4, LetInFacts, UsersCounted
<1>6. tty.osem.count + Cardinality(Putters) >= 1
  BY <1>1, <1>2, LetInCounted, LetInFacts DEF TtyInv, Block
<1>7. Balanced(tty, Cardinality(Getters), Cardinality(Putters))
  BY DEF TtyInv
<1>8. tty.unsent + 1 \in 0 .. TY_OBUFLEN
  BY <1>1, <1>5, <1>6, <1>7, BlockNumbers, RingLengths DEF Balanced
<1>9. (tty.otail + 1) % TY_OBUFLEN \in OutRing
  <2>1. tty.otail + 1 \in Int
    BY <1>1, BlockNumbers
  <2> QED BY <2>1, RingPlaces
<1>10. /\ Block(u) /\ u.isem = tty.isem /\ u.osem = tty.osem /\ u.unsent = tty.unsent + 1
       /\ u.unread = tty.unread /\ u.icursor = tty.icursor
  <2>1. u = [tty EXCEPT !.obuff = [tty.obuff EXCEPT ![tty.otail] = Head(rest[p].text)],
                        !.otail = (tty.otail + 1) % TY_OBUFLEN,
                        !.unsent = tty.unsent + 1, !.thre = TRUE, !.wire = <<>>]
    BY <1>1 DEF Placed, Block, Shaped
  <2> QED BY <1>1, <1>8, <1>9, <2>1, ZenonT(60) DEF Block, Shaped
<1> HIDE DEF u
<1>11. Balanced(tty', Cardinality(Getters'), Cardinality(Putters'))
  BY <1>1, <1>4, <1>5, <1>6, <1>7, <1>10, BlockNumbers DEF Balanced
<1>12. InLine(tty'.isem) \subseteq Getters' /\ InLine(tty'.osem) \subseteq Putters'
  BY <1>1, <1>2, <1>4, <1>10 DEF TtyInv
<1> QED BY <1>1, <1>4, <1>10, <1>11, <1>12 DEF TtyInv

\* A process asks for a character, to take it or to look at it ...
LEMMA TtygetcWaitKeeps ==
    ASSUME TtyInv, NEW p \in TtyUser, TtygetcWait(p) \/ TtyNextcWait(p)
    PROVE  TtyInv'
<1> DEFINE s == SemWait(tty.isem, p)
           u == [tty EXCEPT !.isem = s, !.wire = <<>>]
<1>1. /\ "op" \in DOMAIN rest[p] /\ rest[p].op \in {"read", "next"} /\ DOMAIN rest = TtyUser
      /\ Block(tty)
  BY DEF TtyInv, TtygetcWait, TtyNextcWait
<1>2. p \notin Putters /\ p \notin Getters
  BY <1>1 DEF Putters, Getters
<1>3. PICK op \in {"get", "peek"} : rest' = [rest EXCEPT ![p] = [rest[p] EXCEPT !.op = op]]
  BY <1>1 DEF TtygetcWait, TtyNextcWait
<1> DEFINE r == [rest[p] EXCEPT !.op = op]
<1>4. "op" \in DOMAIN r /\ r.op \in {"get", "peek"} /\ rest' = [rest EXCEPT ![p] = r]
  BY <1>1, <1>3
<1> HIDE DEF r
<1>5. /\ Getters' = Getters \cup {p} /\ Putters' = Putters
      /\ DOMAIN rest' = TtyUser /\ \A q \in TtyUser : "op" \in DOMAIN rest'[q]
  <2>1. /\ Getters' = Getters \cup {p} /\ Putters' = Putters \ {p}
        /\ DOMAIN rest' = TtyUser /\ \A q \in TtyUser : "op" \in DOMAIN rest'[q]
    BY <1>4, CallStep
  <2> QED BY <1>2, <2>1
<1>6. /\ SemOK(s, TtyUser) /\ s.count = tty.isem.count - 1
      /\ InLine(s) \subseteq InLine(tty.isem) \cup {p}
  <2>1. SemOK(tty.isem, TtyUser) /\ p \notin InLine(tty.isem)
    BY <1>1, <1>2 DEF Block, TtyInv
  <2> QED BY <2>1, SemWaitOK
<1>7. tty' = u /\ cpu' \in TtyUser \cup {Nobody}
  BY DEF TtygetcWait, TtyNextcWait
<1> HIDE DEF s
<1>8. /\ Block(u) /\ u.isem = s /\ u.osem = tty.osem /\ u.unsent = tty.unsent
      /\ u.unread = tty.unread /\ u.icursor = tty.icursor
  BY <1>1, <1>6 DEF Block, Shaped
<1> HIDE DEF u
<1>9. Cardinality(Getters') = Cardinality(Getters) + 1 /\ Cardinality(Getters) \in Nat
      /\ Cardinality(Putters) \in Nat
  BY <1>2, <1>5, LetInFacts, UsersCounted
<1>10. Balanced(tty', Cardinality(Getters'), Cardinality(Putters'))
  BY <1>1, <1>5, <1>6, <1>7, <1>8, <1>9, BlockNumbers DEF TtyInv, Balanced
<1>11. InLine(tty'.isem) \subseteq Getters' /\ InLine(tty'.osem) \subseteq Putters'
  BY <1>5, <1>6, <1>7, <1>8 DEF TtyInv
<1> QED BY <1>5, <1>7, <1>8, <1>10, <1>11 DEF TtyInv

\* ... takes it ...
LEMMA TtygetcTakeKeeps ==
    ASSUME TtyInv, NEW p \in TtyUser, TtygetcTake(p)
    PROVE  TtyInv'
<1>1. /\ rest[p].op = "get" /\ LetIn(p) /\ Block(tty) /\ tty' = Taken
      /\ "op" \in DOMAIN rest[p] /\ DOMAIN rest = TtyUser
  BY DEF TtyInv, TtygetcTake
<1>2. PICK r : /\ "op" \in DOMAIN r /\ r.op \notin {"put", "get", "peek"}
               /\ rest' = [rest EXCEPT ![p] = r] /\ cpu' \in TtyUser \cup {Nobody}
  <2>1. /\ rest' = [rest EXCEPT ![p] = Done] \/ rest' = [rest EXCEPT ![p] = [rest[p] EXCEPT !.op = "read"]]
        /\ cpu' \in TtyUser \cup {Nobody}
    BY <1>1 DEF TtygetcTake, Returns
  <2>2. "op" \in DOMAIN Done /\ Done.op = "none"
    BY DEF Done
  <2>3. "op" \in DOMAIN [rest[p] EXCEPT !.op = "read"] /\ [rest[p] EXCEPT !.op = "read"].op = "read"
    BY <1>1
  <2> QED BY <2>1, <2>2, <2>3
<1>3. p \in Getters /\ p \notin Putters /\ p \notin InLine(tty.isem)
  BY <1>1 DEF Putters, Getters, LetIn
<1>4. /\ Getters' = Getters \ {p} /\ Putters' = Putters
      /\ DOMAIN rest' = TtyUser /\ \A q \in TtyUser : "op" \in DOMAIN rest'[q]
  <2>1. /\ Getters' = Getters \ {p} /\ Putters' = Putters \ {p}
        /\ DOMAIN rest' = TtyUser /\ \A q \in TtyUser : "op" \in DOMAIN rest'[q]
    BY <1>2, CallStep
  <2> QED BY <1>3, <2>1
<1>5. /\ Cardinality(Getters') = Cardinality(Getters) - 1 /\ Cardinality(Getters) \in Nat
      /\ Cardinality(Putters) \in Nat
  BY <1>3, <1>4, LetInFacts, UsersCounted
<1>6. tty.isem.count + Cardinality(Getters) >= 1
  BY <1>1, <1>3, LetInCounted, LetInFacts DEF TtyInv, Block
<1>7. Balanced(tty, Cardinality(Getters), Cardinality(Putters))
  BY DEF TtyInv
<1>8. tty.unread - 1 \in 0 .. TY_IBUFLEN
  <2>1. tty.unread \in 0 .. TY_IBUFLEN
    BY <1>1 DEF Block
  <2>2. tty.unread >= 1
    BY <1>1, <1>5, <1>6, <1>7, BlockNumbers DEF Balanced
  <2> QED BY <2>1, <2>2, RingLengths
<1>9. (tty.ihead + 1) % TY_IBUFLEN \in InRing
  <2>1. tty.ihead + 1 \in Int
    BY <1>1, BlockNumbers
  <2> QED BY <2>1, RingPlaces
<1> DEFINE u == Taken
<1>10. /\ Block(u) /\ u.isem = tty.isem /\ u.osem = tty.osem /\ u.unsent = tty.unsent
       /\ u.unread = tty.unread - 1 /\ u.icursor = tty.icursor
  <2>1. u = [tty EXCEPT !.ihead = (tty.ihead + 1) % TY_IBUFLEN, !.unread = tty.unread - 1,
                        !.wire = <<>>]
    BY DEF Taken
  <2> QED BY <1>1, <1>8, <1>9, <2>1 DEF Block, Shaped
<1> HIDE DEF u
<1>11. tty' = u
  BY <1>1 DEF u
<1>12. Balanced(tty', Cardinality(Getters'), Cardinality(Putters'))
  BY <1>1, <1>4, <1>5, <1>6, <1>7, <1>10, <1>11, BlockNumbers DEF Balanced
<1>13. InLine(tty'.isem) \subseteq Getters' /\ InLine(tty'.osem) \subseteq Putters'
  BY <1>3, <1>4, <1>10, <1>11 DEF TtyInv
<1> QED BY <1>2, <1>4, <1>10, <1>11, <1>12, <1>13 DEF TtyInv

\* ... or gives its unit back.
LEMMA TtyNextcEndKeeps ==
    ASSUME TtyInv, NEW p \in TtyUser, TtyNextcEnd(p)
    PROVE  TtyInv'
<1> DEFINE s == SemSignal(tty.isem)
           u == [tty EXCEPT !.isem = s, !.wire = <<>>]
<1>1. /\ rest[p].op = "peek" /\ LetIn(p) /\ Block(tty)
      /\ tty' = u
      /\ rest' = [rest EXCEPT ![p] = Done] /\ cpu' \in TtyUser \cup {Nobody}
  BY DEF TtyInv, TtyNextcEnd, Returns
<1>2. p \in Getters /\ p \notin Putters /\ p \notin InLine(tty.isem)
  BY <1>1 DEF Putters, Getters, LetIn
<1>3. /\ Getters' = Getters \ {p} /\ Putters' = Putters
      /\ DOMAIN rest' = TtyUser /\ \A q \in TtyUser : "op" \in DOMAIN rest'[q]
  <2>1. "op" \in DOMAIN Done /\ Done.op = "none"
    BY DEF Done
  <2>2. /\ Getters' = Getters \ {p} /\ Putters' = Putters \ {p}
        /\ DOMAIN rest' = TtyUser /\ \A q \in TtyUser : "op" \in DOMAIN rest'[q]
    BY <1>1, <2>1, CallStep
  <2> QED BY <1>2, <2>2
<1>4. /\ SemOK(s, TtyUser) /\ s.count = tty.isem.count + 1
      /\ InLine(s) \subseteq InLine(tty.isem)
  <2>1. SemOK(tty.isem, TtyUser)
    BY <1>1 DEF Block
  <2> QED BY <2>1, SemSignalOK DEF SemOK
<1> HIDE DEF s
<1>5. /\ Block(u) /\ u.isem = s /\ u.osem = tty.osem /\ u.unsent = tty.unsent
      /\ u.unread = tty.unread /\ u.icursor = tty.icursor
  BY <1>1, <1>4 DEF Block, Shaped
<1> HIDE DEF u
<1>6. Cardinality(Getters') = Cardinality(Getters) - 1 /\ Cardinality(Getters) \in Nat
      /\ Cardinality(Putters) \in Nat
  BY <1>2, <1>3, LetInFacts, UsersCounted
<1>7. Balanced(tty', Cardinality(Getters'), Cardinality(Putters'))
  BY <1>1, <1>3, <1>4, <1>5, <1>6, BlockNumbers DEF TtyInv, Balanced
<1>8. InLine(tty'.isem) \subseteq Getters' /\ InLine(tty'.osem) \subseteq Putters'
  BY <1>1, <1>2, <1>3, <1>4, <1>5 DEF TtyInv
<1> QED BY <1>1, <1>3, <1>5, <1>7, <1>8 DEF TtyInv

LEMMA TtyInvInit == TtyInit => TtyInv
<1> SUFFICES ASSUME TtyInit PROVE TtyInv
  OBVIOUS
<1>1. /\ DOMAIN rest = TtyUser /\ \A p \in TtyUser : rest[p] = Done
      /\ cpu \in TtyUser \cup {Nobody}
  BY DEF TtyInit, TtyUser
<1>2. "op" \in DOMAIN Done /\ Done.op = "none"
  BY DEF Done
<1>3. Getters = {} /\ Putters = {}
  BY <1>1, <1>2 DEF Getters, Putters
<1>4. Cardinality({}) = 0
  BY FS_EmptySet
<1>5. SemOK(NewSem(0), TtyUser) /\ InLine(NewSem(0)) = {} /\ NewSem(0).count = 0
      /\ SemOK(NewSem(TY_OBUFLEN), TtyUser) /\ InLine(NewSem(TY_OBUFLEN)) = {}
      /\ NewSem(TY_OBUFLEN).count = TY_OBUFLEN
  BY NewSemOK, RingLengths
<1>6. /\ tty.isem = NewSem(0) /\ tty.osem = NewSem(TY_OBUFLEN)
      /\ tty.unread = 0 /\ tty.unsent = 0 /\ tty.icursor = 0
  BY DEF TtyInit
<1>7. Block(tty)
  <2>1. Shaped(tty)
    BY DEF TtyInit, Shaped
  <2> QED BY <1>5, <1>6, <2>1, RingLengths DEF TtyInit, Block, InRing, OutRing
<1>8. Balanced(tty, 0, 0)
  BY <1>5, <1>6, RingLengths DEF Balanced
<1> QED BY <1>1, <1>2, <1>3, <1>4, <1>5, <1>6, <1>7, <1>8 DEF TtyInv

LEMMA TtyInvNext ==
    ASSUME TtyCareless = {}, TtyInv, [TtyNext]_ttyvars
    PROVE  TtyInv'
<1>1. Reader \subseteq TtyUser /\ Writer \subseteq TtyUser
  BY DEF TtyUser
<1>2. ASSUME NEW p \in TtyUser, NEW r, "op" \in DOMAIN r, r.op \notin {"put", "get", "peek"},
             Begins(p, r)
      PROVE  TtyInv'
  <2>1. /\ rest[p] = Done /\ cpu' = p /\ rest' = [rest EXCEPT ![p] = r] /\ UNCHANGED tty
    BY <1>2 DEF Begins
  <2>2. rest[p].op \notin {"put", "get", "peek"}
    BY <2>1 DEF Done
  <2> QED BY <1>2, <2>1, <2>2, IdleStep
<1>3. CASE Typing
  BY <1>3, ReceiveKeeps DEF Typing
<1>4. CASE Transmit
  BY <1>4, TransmitKeeps
<1>5. CASE Settings
  BY <1>5, ControlKeeps DEF Settings
<1>6. CASE Writing
  <2>1. PICK p \in TtyUser : \/ \E text \in Texts : Ttywrite(p, text)
                             \/ TtyputcWait(p) \/ TtyputcPlace(p)
    BY <1>1, <1>6 DEF Writing
  <2>2. CASE \E text \in Texts : Ttywrite(p, text)
    <3>1. PICK text \in Texts : Begins(p, [op |-> "write", text |-> Expanded(text)])
      BY <2>2 DEF Ttywrite
    <3> QED BY <1>2, <3>1
  <2> QED BY <2>1, <2>2, TtyputcWaitKeeps, TtyputcPlaceKeeps
<1>7. CASE \E p \in Reader : ReadingBy(p, Counts) \/ LookingAhead(p)
  <2>1. PICK p \in TtyUser :
            \/ \E count \in Counts : Ttyread(p, count)
            \/ TtygetcWait(p) \/ TtygetcTake(p)
            \/ TtyNextc(p) \/ TtyNextcWait(p) \/ TtyNextcEnd(p)
    BY <1>1, <1>7 DEF ReadingBy, LookingAhead
  <2>2. CASE \E count \in Counts : Ttyread(p, count)
    <3>1. PICK n : Begins(p, [op |-> "read", n |-> n, cooked |-> tty.imode = "cooked"])
      BY <2>2 DEF Ttyread
    <3> QED BY <1>2, <3>1
  <2>3. CASE TtyNextc(p)
    BY <1>2, <2>3 DEF TtyNextc
  <2> QED BY <2>1, <2>2, <2>3, TtygetcWaitKeeps, TtygetcTakeKeeps, TtyNextcEndKeeps
<1>8. CASE UNCHANGED ttyvars
  <2>1. UNCHANGED <<tty, cpu, rest>>
    BY <1>8 DEF ttyvars
  <2>2. Getters' = Getters /\ Putters' = Putters
    BY <2>1 DEF Getters, Putters
  <2> QED BY <2>1, <2>2 DEF TtyInv
<1> QED BY <1>3, <1>4, <1>5, <1>6, <1>7, <1>8 DEF TtyNext

LEMMA TtyInvMeans ==
    ASSUME TtyInv
    PROVE  UnitsHaveChars /\ OutputGoesOn
<1>1. Block(tty)
  BY DEF TtyInv
<1>2. TtyTypeOK
  BY <1>1 DEF TtyInv, TtyTypeOK, Block, TtyUser
<1>3. Admitted({"put"}) = Putters \ InLine(tty.osem)
      /\ Admitted({"get", "peek"}) = Getters \ InLine(tty.isem)
  BY LetInFacts DEF Admitted, Putters, Getters, TtyUser
<1>4. Units(tty.osem) + Cardinality(Putters \ InLine(tty.osem))
         = tty.osem.count + Cardinality(Putters)
  BY <1>1, LetInCounted, LetInFacts DEF TtyInv, Block
<1>5. Units(tty.isem) + Cardinality(Getters \ InLine(tty.isem))
         = tty.isem.count + Cardinality(Getters)
  BY <1>1, LetInCounted, LetInFacts DEF TtyInv, Block
<1>6. Balanced(tty, Cardinality(Getters), Cardinality(Putters))
  BY DEF TtyInv
<1>7. UnitsHaveChars
  BY <1>2, <1>3, <1>4, <1>5, <1>6 DEF UnitsHaveChars, Balanced
<1>8. OutputGoesOn
  BY <1>1 DEF Block, OutputGoesOn
<1> QED BY <1>7, <1>8

\* Every place of the output ring is a unit, a character or promised, and
\* nobody is let in for a character that is not there (ttyhandle_in,
\* ttyhandle_out, ttyputc, ttygetc), for rings of any size.
THEOREM TtyUnits == TtyCareless = {} => (TtySpec => []UnitsHaveChars)
<1> SUFFICES ASSUME TtyCareless = {} PROVE TtySpec => []UnitsHaveChars
  OBVIOUS
<1>1. TtyInit => TtyInv
  BY TtyInvInit
<1>2. TtyInv /\ [TtyNext]_ttyvars => TtyInv'
  BY TtyInvNext
<1>3. TtyInv => UnitsHaveChars
  BY TtyInvMeans
<1> QED BY <1>1, <1>2, <1>3, PTL DEF TtySpec

\* The transmitter does not sleep with something to send, but on the stop key.
THEOREM TtyGoesOn == TtyCareless = {} => (TtySpec => []OutputGoesOn)
<1> SUFFICES ASSUME TtyCareless = {} PROVE TtySpec => []OutputGoesOn
  OBVIOUS
<1>1. TtyInit => TtyInv
  BY TtyInvInit
<1>2. TtyInv /\ [TtyNext]_ttyvars => TtyInv'
  BY TtyInvNext
<1>3. TtyInv => OutputGoesOn
  BY TtyInvMeans
<1> QED BY <1>1, <1>2, <1>3, PTL DEF TtySpec

-----------------------------------------------------------------------------
\* The buffers of the stack.

\* What is assumed of the surroundings: nobody who has a buffer is killed, no
\* packet overtakes ipout, and no reply comes for a full ring of icmp_in or is
\* taken from behind the end of one.  And the pool is not used up by netin and
\* senders that keep a buffer for the packet and wait for another for the answer.
StackOK ==
    /\ StackCareless = {}
    /\ IsFiniteSet(NetSender) /\ Cardinality(NetSender) + 1 < nbufs

StackTask ==
    {Resting} \cup [at : {"read", "take", "resolve"}]
    \cup [at : {"reply"}, to : {"remote", "local"}]
    \cup [at : {"getbuf"}, to : {"nowhere", "udp", "self", "station"}]

\* Whoever has a buffer or has asked for one, for those with another the one
\* they keep; and those with another.
Asked == {h \in Holder : task[h].at \in {"read", "getbuf", "reply"}}
First == {h \in Holder : task[h].at \in {"read", "getbuf", "reply", "resolve"}}
Second == {h \in Holder : task[h].at = "reply"}

StackShape ==
    /\ udpq \in Nat /\ icmpq \in Nat
    /\ task \in [Holder -> StackTask]
    /\ task["ipout"].at \in {"idle", "take", "resolve"}
    /\ \A p \in NetSender : task[p].at # "take" /\ task[p].at # "read"
    /\ task["netin"].at # "take"
    /\ SemOK(netbufpool, Holder) /\ InLine(netbufpool) \subseteq Asked
    /\ SemOK(iqsem, {"ipout"})
    /\ "ipout" \in InLine(iqsem) => task["ipout"].at = "take"

BuffersAdd ==
    netbufpool.count + Cardinality(First) + Cardinality(Second) + udpq + icmpq
        + Cardinality(Waiting) = nbufs

\* The i-th place of the output queue after the one at h.
RingAt(h, i) == IF h + i < IP_OQSIZ THEN h + i ELSE h + i - IP_OQSIZ

\* The n packets in the output queue are those from its head on, and iqsem
\* counts them but for the one that ipout was released for.
QueueOK ==
    /\ ipoqueue = [iqhead |-> ipoqueue.iqhead, iqtail |-> ipoqueue.iqtail, iqbuf |-> ipoqueue.iqbuf]
    /\ ipoqueue.iqhead \in 0 .. IP_OQSIZ-1
    /\ ipoqueue.iqbuf \in [0 .. IP_OQSIZ-1 -> {"none", "remote", "local"}]
    /\ \E n \in 0 .. IP_OQSIZ :
          /\ Waiting = {RingAt(ipoqueue.iqhead, k) : k \in 0 .. n-1}
          /\ ipoqueue.iqtail = RingAt(ipoqueue.iqhead, n)
          /\ n = Units(iqsem)
                   + (IF task["ipout"].at = "take" /\ "ipout" \notin InLine(iqsem) THEN 1 ELSE 0)

StackInv == StackShape /\ BuffersAdd /\ QueueOK

\* A sum taken to the modulus.
LEMMA RingAtIs ==
    ASSUME NEW h \in 0 .. IP_OQSIZ-1, NEW i \in 0 .. IP_OQSIZ
    PROVE  /\ (h + i) % IP_OQSIZ = RingAt(h, i)
           /\ RingAt(h, i) \in 0 .. IP_OQSIZ-1
<1>1. IP_OQSIZ \in Nat \ {0}
  BY StackAssumption
<1>2. CASE h + i < IP_OQSIZ
  BY <1>1, <1>2 DEF RingAt
<1>3. CASE h + i >= IP_OQSIZ
  <2> DEFINE q == IP_OQSIZ
             y == h + i - q
  <2>1. y \in 0 .. q-1 /\ h + i = q * 1 + y
    BY <1>1, <1>3
  <2>2. (h + i) % q = y
    BY <1>1, <2>1
  <2> QED BY <1>1, <1>3, <2>1, <2>2 DEF RingAt
<1> QED BY <1>1, <1>2, <1>3

\* n places of the ring are n.
LEMMA RingCard ==
    ASSUME NEW h \in 0 .. IP_OQSIZ-1, NEW n \in 0 .. IP_OQSIZ
    PROVE  /\ IsFiniteSet({RingAt(h, k) : k \in 0 .. n-1})
           /\ Cardinality({RingAt(h, k) : k \in 0 .. n-1}) = n
<1> DEFINE R == {RingAt(h, k) : k \in 0 .. n-1}
           f == [k \in 0 .. n-1 |-> RingAt(h, k)]
<1>1. IP_OQSIZ \in Nat \ {0}
  BY StackAssumption
<1>2. f \in [0 .. n-1 -> R] /\ \A r \in R : \E k \in 0 .. n-1 : f[k] = r
  OBVIOUS
<1>3. \A i, j \in 0 .. n-1 : f[i] = f[j] => i = j
  BY <1>1 DEF RingAt
<1>4. f \in Bijection(0 .. n-1, R)
  BY <1>2, <1>3 DEF Bijection, Injection, Surjection, IsInjective
<1>5. IsFiniteSet(0 .. n-1) /\ Cardinality(0 .. n-1) = n
  BY FS_Interval
<1> HIDE DEF R, f
<1>6. ExistsBijection(0 .. n-1, R)
  BY <1>4 DEF ExistsBijection
<1>7. IsFiniteSet(R) /\ Cardinality(R) = n
  BY <1>5, <1>6, FS_Bijection
<1> QED BY <1>7 DEF R

LEMMA HoldersCounted ==
    ASSUME StackOK, NEW S, S \subseteq Holder
    PROVE  /\ IsFiniteSet(S) /\ Cardinality(S) \in Nat
           /\ \A p \in Holder \ S : Cardinality(S \cup {p}) = Cardinality(S) + 1
           /\ \A p \in S : Cardinality(S \ {p}) = Cardinality(S) - 1
<1>1. IsFiniteSet(Holder)
  <2>1. IsFiniteSet({"netin", "ipout"})
    <3>1. IsFiniteSet({}) /\ IsFiniteSet({} \cup {"netin"})
      BY FS_EmptySet, FS_AddElement
    <3>2. IsFiniteSet(({} \cup {"netin"}) \cup {"ipout"})
      BY <3>1, FS_AddElement
    <3>3. ({} \cup {"netin"}) \cup {"ipout"} = {"netin", "ipout"}
      OBVIOUS
    <3> QED BY <3>2, <3>3
  <2> QED BY <2>1, FS_Union DEF StackOK, Holder
<1>2. IsFiniteSet(S)
  BY <1>1, FS_Subset
<1> QED BY <1>2, FS_CardinalityType, FS_AddElement, FS_RemoveElement

\* Giving back n buffers.
LEMMA FreedOK ==
    ASSUME NEW P, NEW s, SemOK(s, P), NEW n \in {0, 1, 2}
    PROVE  /\ SemOK(Freed(s, n), P) /\ Freed(s, n).count = s.count + n
           /\ InLine(Freed(s, n)) \subseteq InLine(s)
<1>0. s.count \in Int
  BY DEF SemOK
<1>1. /\ SemOK(SemSignal(s), P) /\ SemSignal(s).count = s.count + 1
      /\ InLine(SemSignal(s)) \subseteq InLine(s)
  BY <1>0, SemSignalOK
<1>2. /\ SemOK(SemSignal(SemSignal(s)), P)
      /\ SemSignal(SemSignal(s)).count = s.count + 2
      /\ InLine(SemSignal(SemSignal(s))) \subseteq InLine(s)
  <2>1. SemSignal(s).count \in Int
    BY <1>0, <1>1
  <2>2. /\ SemOK(SemSignal(SemSignal(s)), P)
        /\ SemSignal(SemSignal(s)).count = SemSignal(s).count + 1
        /\ InLine(SemSignal(SemSignal(s))) \subseteq InLine(SemSignal(s))
    BY <1>1, <2>1, SemSignalOK
  <2> QED BY <1>0, <1>1, <2>2
<1> QED BY <1>0, <1>1, <1>2 DEF Freed

\* Buffers that go with what a process is at.
Weight(at) == IF at = "reply" THEN 2 ELSE IF at \in {"read", "getbuf", "resolve"} THEN 1 ELSE 0
Total == netbufpool.count + Cardinality(First) + Cardinality(Second)

LEMMA TaskCounts ==
    ASSUME StackOK, StackShape, NEW h \in Holder, NEW t, task' = [task EXCEPT ![h] = t]
    PROVE  /\ Cardinality(First') + Cardinality(Second')
                 = Cardinality(First) + Cardinality(Second) + Weight(t.at) - Weight(task[h].at)
           /\ Asked' = IF t.at \in {"read", "getbuf", "reply"} THEN Asked \cup {h} ELSE Asked \ {h}
           /\ Cardinality(First) \in Nat /\ Cardinality(Second) \in Nat
           /\ Cardinality(First') \in Nat /\ Cardinality(Second') \in Nat
<1>1. /\ DOMAIN task = Holder /\ task'[h] = t
      /\ \A g \in Holder : g # h => task'[g] = task[g]
  BY DEF StackShape
<1>2. /\ First' = IF t.at \in {"read", "getbuf", "reply", "resolve"} THEN First \cup {h} ELSE First \ {h}
      /\ Second' = IF t.at = "reply" THEN Second \cup {h} ELSE Second \ {h}
      /\ Asked' = IF t.at \in {"read", "getbuf", "reply"} THEN Asked \cup {h} ELSE Asked \ {h}
  BY <1>1 DEF First, Second, Asked
<1>3. First \subseteq Holder /\ Second \subseteq Holder
  BY DEF First, Second
<1>4. /\ h \in First <=> task[h].at \in {"read", "getbuf", "reply", "resolve"}
      /\ h \in Second <=> task[h].at = "reply"
  BY DEF First, Second
<1>5. ASSUME NEW S, S \subseteq Holder
      PROVE  /\ Cardinality(S) \in Nat
             /\ Cardinality(S \cup {h}) = Cardinality(S) + (IF h \in S THEN 0 ELSE 1)
             /\ Cardinality(S \ {h}) = Cardinality(S) - (IF h \in S THEN 1 ELSE 0)
  <2>1. h \in S => S \cup {h} = S
    OBVIOUS
  <2>2. h \notin S => S \ {h} = S
    OBVIOUS
  <2>3. /\ Cardinality(S) \in Nat
        /\ h \notin S => Cardinality(S \cup {h}) = Cardinality(S) + 1
        /\ h \in S => Cardinality(S \ {h}) = Cardinality(S) - 1
    BY <1>5, HoldersCounted
  <2>4. Cardinality(S) + 0 = Cardinality(S) /\ Cardinality(S) - 0 = Cardinality(S)
    BY <2>3
  <2>5. CASE h \in S
    BY <2>1, <2>3, <2>4, <2>5
  <2>6. CASE h \notin S
    BY <2>2, <2>3, <2>4, <2>6
  <2> QED BY <2>5, <2>6
<1>6. /\ Cardinality(First) \in Nat
      /\ Cardinality(First') = Cardinality(First)
            + (IF t.at \in {"read", "getbuf", "reply", "resolve"} THEN 1 ELSE 0)
            - (IF task[h].at \in {"read", "getbuf", "reply", "resolve"} THEN 1 ELSE 0)
  <2>1. /\ Cardinality(First) \in Nat
        /\ Cardinality(First \cup {h}) = Cardinality(First) + (IF h \in First THEN 0 ELSE 1)
        /\ Cardinality(First \ {h}) = Cardinality(First) - (IF h \in First THEN 1 ELSE 0)
    BY <1>3, <1>5
  <2> QED BY <1>2, <1>4, <2>1
<1>7. /\ Cardinality(Second) \in Nat
      /\ Cardinality(Second') = Cardinality(Second)
            + (IF t.at = "reply" THEN 1 ELSE 0) - (IF task[h].at = "reply" THEN 1 ELSE 0)
  <2>1. /\ Cardinality(Second) \in Nat
        /\ Cardinality(Second \cup {h}) = Cardinality(Second) + (IF h \in Second THEN 0 ELSE 1)
        /\ Cardinality(Second \ {h}) = Cardinality(Second) - (IF h \in Second THEN 1 ELSE 0)
    BY <1>3, <1>5
  <2> QED BY <1>2, <1>4, <2>1
<1>8. First' \subseteq Holder /\ Second' \subseteq Holder
  BY <1>2, <1>3
<1>9. Cardinality(First') \in Nat /\ Cardinality(Second') \in Nat
  BY <1>5, <1>8
<1> QED BY <1>2, <1>6, <1>7, <1>9 DEF Weight

\* A process asks the pool for a buffer, or another.
LEMMA GetbufSum ==
    ASSUME StackOK, StackShape, NEW h \in Holder, h \notin InLine(netbufpool), NEW t,
           t.at \in {"read", "getbuf", "reply"}, Getbuf(h, t)
    PROVE  /\ SemOK(netbufpool', Holder) /\ InLine(netbufpool') \subseteq Asked'
           /\ Total' = Total - 1 + Weight(t.at) - Weight(task[h].at)
           /\ Total \in Int
<1>1. netbufpool' = SemWait(netbufpool, h) /\ task' = [task EXCEPT ![h] = t]
  BY DEF Getbuf
<1>2. /\ SemOK(netbufpool', Holder) /\ netbufpool'.count = netbufpool.count - 1
      /\ InLine(netbufpool') \subseteq InLine(netbufpool) \cup {h}
  BY <1>1, SemWaitOK DEF StackShape
<1>3. /\ Cardinality(First') + Cardinality(Second')
            = Cardinality(First) + Cardinality(Second) + Weight(t.at) - Weight(task[h].at)
      /\ Asked' = Asked \cup {h}
      /\ Cardinality(First) \in Nat /\ Cardinality(Second) \in Nat
      /\ Cardinality(First') \in Nat /\ Cardinality(Second') \in Nat
  BY <1>1, TaskCounts
<1>4. netbufpool.count \in Int /\ InLine(netbufpool) \subseteq Asked
  BY DEF StackShape, SemOK
<1>5. Weight(t.at) \in Int /\ Weight(task[h].at) \in Int
  BY DEF Weight
<1>6. Total' = netbufpool'.count + Cardinality(First') + Cardinality(Second')
  BY DEF Total
<1> QED BY <1>2, <1>3, <1>4, <1>5, <1>6 DEF Total

\* A process that is not in line goes on to something else.
LEMMA TaskSum ==
    ASSUME StackOK, StackShape, NEW h \in Holder, h \notin InLine(netbufpool'), NEW t,
           task' = [task EXCEPT ![h] = t],
           SemOK(netbufpool', Holder), InLine(netbufpool') \subseteq InLine(netbufpool)
    PROVE  /\ InLine(netbufpool') \subseteq Asked'
           /\ Total' = Total + (netbufpool'.count - netbufpool.count)
                             + Weight(t.at) - Weight(task[h].at)
           /\ Total \in Int
<1>1. netbufpool.count \in Int /\ netbufpool'.count \in Int /\ InLine(netbufpool) \subseteq Asked
  BY DEF StackShape, SemOK
<1>2. /\ Cardinality(First') + Cardinality(Second')
            = Cardinality(First) + Cardinality(Second) + Weight(t.at) - Weight(task[h].at)
      /\ Asked \ {h} \subseteq Asked'
      /\ Cardinality(First) \in Nat /\ Cardinality(Second) \in Nat
      /\ Cardinality(First') \in Nat /\ Cardinality(Second') \in Nat
  BY TaskCounts
<1>3. Weight(t.at) \in Int /\ Weight(task[h].at) \in Int
  BY DEF Weight
<1>4. Total' = netbufpool'.count + Cardinality(First') + Cardinality(Second')
  BY DEF Total
<1> QED BY <1>1, <1>2, <1>3, <1>4 DEF Total

\* Giving back n buffers and being done.
LEMMA FinishSum ==
    ASSUME StackOK, StackShape, NEW h \in Holder, h \notin InLine(netbufpool), NEW n \in {0, 1, 2},
           Finishes(h, n)
    PROVE  /\ SemOK(netbufpool', Holder) /\ InLine(netbufpool') \subseteq Asked'
           /\ Total' = Total + n - Weight(task[h].at) /\ Total \in Int
           /\ task' = [task EXCEPT ![h] = Resting]
<1>1. netbufpool' = Freed(netbufpool, n) /\ task' = [task EXCEPT ![h] = Resting]
  BY DEF Finishes
<1>2. /\ SemOK(netbufpool', Holder) /\ netbufpool'.count = netbufpool.count + n
      /\ InLine(netbufpool') \subseteq InLine(netbufpool)
  BY <1>1, FreedOK DEF StackShape
<1>3. Weight(Resting.at) = 0
  BY DEF Weight, Resting
<1>4. netbufpool.count \in Int
  BY DEF StackShape, SemOK
<1>5. /\ InLine(netbufpool') \subseteq Asked'
      /\ Total' = Total + (netbufpool'.count - netbufpool.count) + 0 - Weight(task[h].at)
      /\ Total \in Int
  BY <1>1, <1>2, <1>3, TaskSum
<1>6. Weight(task[h].at) \in Int
  BY DEF Weight
<1> QED BY <1>1, <1>2, <1>4, <1>5, <1>6

\* A packet for an endpoint of this machine.
LEMMA DeliverSum ==
    ASSUME StackOK, StackShape, NEW h \in Holder, h \notin InLine(netbufpool), NEW proto,
           Deliver(h, proto)
    PROVE  /\ SemOK(netbufpool', Holder) /\ InLine(netbufpool') \subseteq Asked'
           /\ udpq' \in Nat /\ icmpq' \in Nat
           /\ Total' + udpq' + icmpq' = Total + udpq + icmpq + 1 - Weight(task[h].at)
           /\ Total \in Int
           /\ task' = [task EXCEPT ![h] = Resting]
<1>1. udpq \in Nat /\ icmpq \in Nat /\ Weight(task[h].at) \in Int
  BY DEF StackShape, Weight
<1>2. CASE Finishes(h, 1) /\ UNCHANGED <<udpq, icmpq>>
  BY <1>1, <1>2, FinishSum
<1>3. CASE udpq' = udpq + 1 /\ Finishes(h, 0) /\ UNCHANGED icmpq
  BY <1>1, <1>3, FinishSum
<1>4. CASE icmpq' = icmpq + 1 /\ Finishes(h, 0) /\ UNCHANGED udpq
  BY <1>1, <1>4, FinishSum
<1> QED BY <1>2, <1>3, <1>4 DEF Deliver, StackOK

\* The output queue is left alone.
LEMMA QueueFrame ==
    ASSUME QueueOK, UNCHANGED <<ipoqueue, iqsem>>,
           task'["ipout"].at = "take" <=> task["ipout"].at = "take"
    PROVE  QueueOK' /\ Waiting' = Waiting
<1>1. Waiting' = Waiting
  BY DEF Waiting
<1> QED BY <1>1 DEF QueueOK, Units, InLine

LEMMA WaitingCounted ==
    ASSUME QueueOK
    PROVE  /\ Cardinality(Waiting) \in Nat /\ IsFiniteSet(Waiting)
           /\ Cardinality(Waiting) = Units(iqsem)
                   + (IF task["ipout"].at = "take" /\ "ipout" \notin InLine(iqsem) THEN 1 ELSE 0)
           /\ Waiting = {RingAt(ipoqueue.iqhead, k) : k \in 0 .. Cardinality(Waiting)-1}
           /\ ipoqueue.iqtail = RingAt(ipoqueue.iqhead, Cardinality(Waiting))
           /\ Cardinality(Waiting) \in 0 .. IP_OQSIZ
<1>1. PICK n \in 0 .. IP_OQSIZ :
          /\ Waiting = {RingAt(ipoqueue.iqhead, k) : k \in 0 .. n-1}
          /\ ipoqueue.iqtail = RingAt(ipoqueue.iqhead, n)
          /\ n = Units(iqsem)
                   + (IF task["ipout"].at = "take" /\ "ipout" \notin InLine(iqsem) THEN 1 ELSE 0)
  BY DEF QueueOK
<1>2. ipoqueue.iqhead \in 0 .. IP_OQSIZ-1
  BY DEF QueueOK
<1>3. IsFiniteSet(Waiting) /\ Cardinality(Waiting) = n
  BY <1>1, <1>2, RingCard
<1>4. n \in Nat
  BY StackAssumption
<1> QED BY <1>1, <1>3, <1>4

\* What is left to show of a step: the task, the sum, and the output queue.
LEMMA StackStep ==
    ASSUME StackShape, NEW h \in Holder, NEW t \in StackTask, task' = [task EXCEPT ![h] = t],
           SemOK(netbufpool', Holder), InLine(netbufpool') \subseteq Asked',
           udpq' \in Nat, icmpq' \in Nat,
           h = "ipout" => t.at \in {"idle", "take", "resolve"},
           h = "netin" => t.at # "take",
           h \in NetSender => t.at # "take" /\ t.at # "read",
           SemOK(iqsem', {"ipout"}),
           "ipout" \in InLine(iqsem') => task'["ipout"].at = "take",
           Total' + udpq' + icmpq' + Cardinality(Waiting') = nbufs,
           QueueOK'
    PROVE  StackInv'
<1>1. /\ DOMAIN task = Holder /\ task'[h] = t
      /\ \A g \in Holder : g # h => task'[g] = task[g]
      /\ task' \in [Holder -> StackTask]
  BY DEF StackShape
<1>2. "ipout" \in Holder /\ "netin" \in Holder /\ NetSender \subseteq Holder
      /\ "ipout" \notin NetSender /\ "netin" \notin NetSender
  BY StackAssumption DEF Holder
<1>3. /\ task'["ipout"].at \in {"idle", "take", "resolve"}
      /\ \A p \in NetSender : task'[p].at # "take" /\ task'[p].at # "read"
      /\ task'["netin"].at # "take"
  BY <1>1, <1>2 DEF StackShape
<1>4. StackShape'
  BY <1>1, <1>3 DEF StackShape
<1>5. BuffersAdd'
  BY DEF BuffersAdd, Total
<1> QED BY <1>4, <1>5 DEF StackInv

\* The same for one that leaves the output queue alone.
LEMMA QuietStep ==
    ASSUME StackInv, NEW h \in Holder, NEW t \in StackTask, task' = [task EXCEPT ![h] = t],
           SemOK(netbufpool', Holder), InLine(netbufpool') \subseteq Asked',
           udpq' \in Nat, icmpq' \in Nat,
           h = "ipout" => task[h].at # "take" /\ t.at \in {"idle", "resolve"},
           h = "netin" => t.at # "take",
           h \in NetSender => t.at # "take" /\ t.at # "read",
           Total' + udpq' + icmpq' = Total + udpq + icmpq,
           UNCHANGED <<ipoqueue, iqsem>>
    PROVE  StackInv'
<1>1. StackShape /\ QueueOK /\ DOMAIN task = Holder /\ "ipout" \in Holder
  BY DEF StackInv, StackShape, Holder
<1>2. task'["ipout"].at = "take" <=> task["ipout"].at = "take"
  BY <1>1
<1>3. QueueOK' /\ Waiting' = Waiting
  BY <1>1, <1>2, QueueFrame
<1>4. SemOK(iqsem', {"ipout"}) /\ ("ipout" \in InLine(iqsem') => task'["ipout"].at = "take")
  BY <1>1, <1>2 DEF StackShape
<1>5. Total' + udpq' + icmpq' + Cardinality(Waiting') = nbufs
  BY <1>3 DEF StackInv, BuffersAdd, Total
<1> QED BY <1>1, <1>3, <1>4, <1>5, StackStep

LEMMA RestingIs == Resting \in StackTask /\ Resting.at = "idle" /\ Weight("idle") = 0
                   /\ Weight("take") = 0 /\ Weight("read") = 1 /\ Weight("getbuf") = 1
                   /\ Weight("resolve") = 1 /\ Weight("reply") = 2
  BY DEF Resting, StackTask, Weight

LEMMA HolderIs ==
    /\ "ipout" \in Holder /\ "netin" \in Holder /\ NetSender \subseteq Holder
    /\ "ipout" \notin NetSender /\ "netin" \notin NetSender
    /\ Holder = NetSender \cup {"netin", "ipout"}
  BY StackAssumption DEF Holder

\* An idle process is in no line.
LEMMA IdleNotInLine ==
    ASSUME StackShape, NEW h \in Holder, h \in InLine(netbufpool)
    PROVE  task[h].at \in {"read", "getbuf", "reply"}
  BY DEF StackShape, Asked

LEMMA AsksKeeps ==
    ASSUME StackOK, StackInv, NEW h \in Holder, h # "ipout", h \notin InLine(netbufpool),
           NEW t \in StackTask, t.at \in {"read", "getbuf", "reply"}, h \in NetSender => t.at # "read",
           Weight(t.at) = Weight(task[h].at) + 1,
           Getbuf(h, t), UNCHANGED <<udpq, icmpq, ipoqueue, iqsem>>
    PROVE  StackInv'
<1>1. StackShape /\ udpq \in Nat /\ icmpq \in Nat
  BY DEF StackInv, StackShape
<1>2. /\ SemOK(netbufpool', Holder) /\ InLine(netbufpool') \subseteq Asked'
      /\ Total' = Total - 1 + Weight(t.at) - Weight(task[h].at) /\ Total \in Int
  BY <1>1, GetbufSum
<1>3. Weight(task[h].at) \in Int
  BY DEF Weight
<1>4. Total' = Total
  BY <1>2, <1>3
<1>5. task' = [task EXCEPT ![h] = t]
  BY DEF Getbuf
<1> QED BY <1>1, <1>2, <1>4, <1>5, QuietStep, HolderIs

LEMMA FinishKeeps ==
    ASSUME StackOK, StackInv, NEW h \in Holder, h \notin InLine(netbufpool),
           task[h].at # "take", NEW n \in {0, 1, 2}, n = Weight(task[h].at),
           Finishes(h, n), UNCHANGED <<udpq, icmpq, ipoqueue, iqsem>>
    PROVE  StackInv'
<1>1. StackShape /\ udpq \in Nat /\ icmpq \in Nat
  BY DEF StackInv, StackShape
<1>2. /\ SemOK(netbufpool', Holder) /\ InLine(netbufpool') \subseteq Asked'
      /\ Total' = Total + n - Weight(task[h].at) /\ Total \in Int
      /\ task' = [task EXCEPT ![h] = Resting]
  BY <1>1, FinishSum
<1>3. Total' = Total
  BY <1>2
<1> QED BY <1>1, <1>2, <1>3, QuietStep, RestingIs

LEMMA DeliverKeeps ==
    ASSUME StackOK, StackInv, NEW h \in Holder, h \notin InLine(netbufpool),
           task[h].at # "take", Weight(task[h].at) = 1, NEW proto,
           Deliver(h, proto), UNCHANGED <<ipoqueue, iqsem>>
    PROVE  StackInv'
<1>1. StackShape /\ udpq \in Nat /\ icmpq \in Nat
  BY DEF StackInv, StackShape
<1>2. /\ SemOK(netbufpool', Holder) /\ InLine(netbufpool') \subseteq Asked'
      /\ udpq' \in Nat /\ icmpq' \in Nat
      /\ Total' + udpq' + icmpq' = Total + udpq + icmpq + 1 - Weight(task[h].at) /\ Total \in Int
      /\ task' = [task EXCEPT ![h] = Resting]
  BY <1>1, DeliverSum
<1>3. Total' + udpq' + icmpq' = Total + udpq + icmpq
  BY <1>1, <1>2
<1> QED BY <1>1, <1>2, <1>3, QuietStep, RestingIs

\* A sender or ipout keeps its buffer and waits for the address.
LEMMA ResolveKeeps ==
    ASSUME StackOK, StackInv, NEW h \in Holder, h \notin InLine(netbufpool),
           task[h].at # "take", Weight(task[h].at) = 1,
           task' = [task EXCEPT ![h] = [at |-> "resolve"]],
           UNCHANGED <<netbufpool, udpq, icmpq, ipoqueue, iqsem>>
    PROVE  StackInv'
<1> DEFINE t == [at |-> "resolve"]
<1>1. StackShape /\ udpq \in Nat /\ icmpq \in Nat
  BY DEF StackInv, StackShape
<1>2. t \in StackTask /\ t.at = "resolve" /\ Weight(t.at) = 1
  BY DEF StackTask, Weight
<1> HIDE DEF t
<1>3. SemOK(netbufpool', Holder) /\ netbufpool'.count - netbufpool.count = 0
  BY <1>1 DEF StackShape, SemOK
<1>4. /\ InLine(netbufpool') \subseteq Asked'
      /\ Total' = Total + (netbufpool'.count - netbufpool.count) + Weight(t.at) - Weight(task[h].at)
      /\ Total \in Int
  BY <1>1, <1>3, TaskSum DEF t
<1>5. Total' = Total
  BY <1>2, <1>3, <1>4
<1>6. task' = [task EXCEPT ![h] = t]
  BY DEF t
<1> QED BY <1>1, <1>2, <1>3, <1>4, <1>5, <1>6, QuietStep

LEMMA NetinKeeps ==
    ASSUME StackOK, StackInv,
           NetinGetbuf \/ \E proto \in {"other", "udp", "reply", "request"} : NetinReads(proto)
    PROVE  StackInv'
<1>0. StackShape
  BY DEF StackInv
<1>1. CASE NetinGetbuf
  <2> DEFINE t == [at |-> "read"]
  <2>1. t \in StackTask /\ t.at = "read" /\ Weight(t.at) = Weight(task["netin"].at) + 1
    BY <1>1, RestingIs DEF StackTask, NetinGetbuf
  <2>2. "netin" \notin InLine(netbufpool)
    BY <1>0, <1>1, IdleNotInLine, HolderIs, RestingIs DEF NetinGetbuf
  <2>3. Getbuf("netin", t) /\ UNCHANGED <<udpq, icmpq, ipoqueue, iqsem>>
    BY <1>1 DEF NetinGetbuf
  <2> HIDE DEF t
  <2> QED BY <2>1, <2>2, <2>3, AsksKeeps, HolderIs
<1>2. CASE \E proto \in {"other", "udp", "reply", "request"} : NetinReads(proto)
  <2>1. PICK proto : NetinReads(proto)
    BY <1>2
  <2>2. task["netin"].at = "read" /\ "netin" \notin InLine(netbufpool)
    BY <2>1 DEF NetinReads, GotBuf
  <2>3. CASE proto = "request"
    <3> DEFINE t == [at |-> "reply", to |-> "remote"]
    <3>1. t \in StackTask /\ t.at = "reply" /\ Weight(t.at) = Weight(task["netin"].at) + 1
      BY <2>2, RestingIs DEF StackTask
    <3>2. Getbuf("netin", t) /\ UNCHANGED <<udpq, icmpq, ipoqueue, iqsem>>
      BY <2>1, <2>3 DEF NetinReads, Answer
    <3> HIDE DEF t
    <3> QED BY <2>2, <3>1, <3>2, AsksKeeps, HolderIs
  <2>4. CASE proto # "request"
    <3>1. Deliver("netin", proto) /\ UNCHANGED <<ipoqueue, iqsem>>
      BY <2>1, <2>4 DEF NetinReads
    <3> QED BY <2>2, <3>1, DeliverKeeps, HolderIs, RestingIs
  <2> QED BY <2>3, <2>4
<1> QED BY <1>1, <1>2

LEMMA SenderKeeps ==
    ASSUME StackOK, StackInv, NEW p \in NetSender,
           \/ \E dest \in {"nowhere", "udp", "self", "station"} : Send(p, dest)
           \/ IpSend(p) \/ KillSender(p)
    PROVE  StackInv'
<1>0. StackShape /\ p \in Holder /\ p # "ipout"
  BY HolderIs DEF StackInv
<1>1. CASE \E dest \in {"nowhere", "udp", "self", "station"} : Send(p, dest)
  <2>1. PICK dest \in {"nowhere", "udp", "self", "station"} : Send(p, dest)
    BY <1>1
  <2> DEFINE t == [at |-> "getbuf", to |-> dest]
  <2>2. t \in StackTask /\ t.at = "getbuf" /\ Weight(t.at) = Weight(task[p].at) + 1
    BY <2>1, RestingIs DEF StackTask, Send
  <2>3. p \notin InLine(netbufpool)
    BY <1>0, <2>1, IdleNotInLine, RestingIs DEF Send
  <2>4. Getbuf(p, t) /\ UNCHANGED <<udpq, icmpq, ipoqueue, iqsem>>
    BY <2>1 DEF Send
  <2> HIDE DEF t
  <2> QED BY <1>0, <2>2, <2>3, <2>4, AsksKeeps
<1>2. CASE IpSend(p)
  <2>1. task[p].at = "getbuf" /\ p \notin InLine(netbufpool) /\ Weight(task[p].at) = 1
        /\ UNCHANGED <<ipoqueue, iqsem>>
    BY <1>2, RestingIs DEF IpSend, GotBuf
  <2>2. CASE Finishes(p, 1) /\ UNCHANGED <<udpq, icmpq>>
    BY <1>0, <2>1, <2>2, FinishKeeps
  <2>3. CASE Deliver(p, "udp")
    BY <1>0, <2>1, <2>3, DeliverKeeps
  <2>4. CASE Answer(p, "local")
    <3> DEFINE t == [at |-> "reply", to |-> "local"]
    <3>1. t \in StackTask /\ t.at = "reply" /\ Weight(t.at) = Weight(task[p].at) + 1
      BY <2>1, RestingIs DEF StackTask
    <3>2. Getbuf(p, t) /\ UNCHANGED <<udpq, icmpq, ipoqueue, iqsem>>
      BY <2>1, <2>4 DEF Answer
    <3> HIDE DEF t
    <3> QED BY <1>0, <2>1, <3>1, <3>2, AsksKeeps
  <2>5. CASE task' = [task EXCEPT ![p] = [at |-> "resolve"]] /\ UNCHANGED <<netbufpool, udpq, icmpq>>
    BY <1>0, <2>1, <2>5, ResolveKeeps
  <2> QED BY <1>2, <2>2, <2>3, <2>4, <2>5 DEF IpSend
<1>3. CASE KillSender(p)
  <2>1. /\ task[p].at = "getbuf" /\ p \in InLine(netbufpool)
        /\ netbufpool' = SemKill(netbufpool, p) /\ task' = [task EXCEPT ![p] = Resting]
        /\ UNCHANGED <<udpq, icmpq, ipoqueue, iqsem>>
    BY <1>3 DEF KillSender, StackOK
  <2>2. /\ SemOK(netbufpool', Holder) /\ InLine(netbufpool') = InLine(netbufpool) \ {p}
        /\ netbufpool'.count = netbufpool.count + 1
    BY <1>0, <2>1, SemKillOK DEF StackShape
  <2>3. netbufpool.count \in Int /\ udpq \in Nat /\ icmpq \in Nat
    BY <1>0 DEF StackShape, SemOK
  <2>4. /\ InLine(netbufpool') \subseteq Asked'
        /\ Total' = Total + (netbufpool'.count - netbufpool.count)
                          + Weight(Resting.at) - Weight(task[p].at)
        /\ Total \in Int
    BY <1>0, <2>1, <2>2, TaskSum
  <2>5. Total' = Total
    BY <2>1, <2>2, <2>3, <2>4, RestingIs
  <2> QED BY <1>0, <2>1, <2>2, <2>3, <2>4, <2>5, QuietStep, RestingIs
<1> QED BY <1>1, <1>2, <1>3

LEMMA ReceiverKeeps ==
    ASSUME StackOK, StackInv, NetReceive
    PROVE  StackInv'
<1>1. StackShape /\ QueueOK /\ BuffersAdd
  BY DEF StackInv
<1>2. UNCHANGED <<ipoqueue, iqsem, task>> /\ netbufpool' = SemSignal(netbufpool)
  BY DEF NetReceive, StackOK
<1>3. udpq \in Nat /\ icmpq \in Nat
  BY <1>1 DEF StackShape
<1>4. SemOK(netbufpool, Holder) /\ netbufpool.count \in Int
  BY <1>1 DEF StackShape, SemOK
<1>5. /\ SemOK(netbufpool', Holder) /\ netbufpool'.count = netbufpool.count + 1
      /\ InLine(netbufpool') \subseteq InLine(netbufpool)
  BY <1>2, <1>4, SemSignalOK
<1>6. Asked' = Asked /\ First' = First /\ Second' = Second
  BY <1>2 DEF Asked, First, Second
<1>7. QueueOK' /\ Waiting' = Waiting
  BY <1>1, <1>2, QueueFrame
<1>8. Cardinality(First) \in Nat /\ Cardinality(Second) \in Nat /\ Cardinality(Waiting) \in Nat
  BY <1>1, HoldersCounted, WaitingCounted DEF First, Second
<1>9. /\ udpq' \in Nat /\ icmpq' \in Nat
      /\ netbufpool'.count + udpq' + icmpq' = netbufpool.count + udpq + icmpq
  <2>1. CASE udpq > 0 /\ udpq' = udpq - 1 /\ UNCHANGED icmpq
    <3>1. udpq' \in Nat /\ icmpq' = icmpq
      BY <1>3, <2>1
    <3> QED BY <1>3, <1>4, <1>5, <2>1, <3>1
  <2>2. CASE icmpq > 0 /\ icmpq' = icmpq - 1 /\ UNCHANGED udpq
    <3>1. icmpq' \in Nat /\ udpq' = udpq
      BY <1>3, <2>2
    <3> QED BY <1>3, <1>4, <1>5, <2>2, <3>1
  <2> QED BY <2>1, <2>2 DEF NetReceive
<1>10. BuffersAdd'
  <2>1. netbufpool'.count \in Int
    BY <1>4, <1>5
  <2>2. netbufpool'.count + Cardinality(First) + Cardinality(Second) + udpq' + icmpq'
           + Cardinality(Waiting)
        = netbufpool.count + Cardinality(First) + Cardinality(Second) + udpq + icmpq
           + Cardinality(Waiting)
    BY <1>3, <1>4, <1>8, <1>9, <2>1
  <2> QED BY <1>1, <1>6, <1>7, <2>2 DEF BuffersAdd
<1>11. StackShape'
  BY <1>1, <1>2, <1>5, <1>6, <1>9 DEF StackShape
<1> QED BY <1>7, <1>10, <1>11 DEF StackInv

\* The semaphore of the output queue has at most ipout in its line.
LEMMA IqsemFacts ==
    ASSUME StackShape
    PROVE  /\ InLine(iqsem) \subseteq {"ipout"} /\ iqsem.count \in Int
           /\ iqsem.count >= 0 => InLine(iqsem) = {}
           /\ iqsem.count < 0 => InLine(iqsem) = {"ipout"}
  BY NobodyInLine DEF StackShape, SemOK

LEMMA IpoutWaitsKeeps ==
    ASSUME StackOK, StackInv, IpoutWaits
    PROVE  StackInv'
<1> DEFINE t == [at |-> "take"]
<1>1. StackShape /\ QueueOK /\ BuffersAdd /\ udpq \in Nat /\ icmpq \in Nat
  BY DEF StackInv, StackShape
<1>2. /\ task["ipout"].at = "idle" /\ iqsem' = SemWait(iqsem, "ipout")
      /\ task' = [task EXCEPT !["ipout"] = t]
      /\ UNCHANGED <<netbufpool, udpq, icmpq, ipoqueue>>
  BY RestingIs DEF IpoutWaits
<1>3. t \in StackTask /\ t.at = "take" /\ Weight(t.at) = 0
  BY DEF StackTask, Weight
<1> HIDE DEF t
<1>4. InLine(iqsem) = {} /\ iqsem.count >= 0 /\ iqsem.count \in Int /\ SemOK(iqsem, {"ipout"})
  BY <1>1, <1>2, IqsemFacts DEF StackShape
<1>5. /\ SemOK(iqsem', {"ipout"}) /\ iqsem'.count = iqsem.count - 1
      /\ InLine(iqsem') = IF iqsem.count <= 0 THEN {"ipout"} ELSE {}
  <2>1. "ipout" \in {"ipout"} /\ "ipout" \notin InLine(iqsem)
    BY <1>4
  <2> QED BY <1>2, <1>4, <2>1, SemWaitOK
<1>6. task'["ipout"].at = "take"
  BY <1>1, <1>2, <1>3, HolderIs DEF StackShape
<1>7. Waiting' = Waiting
  BY <1>2 DEF Waiting
<1>8. Units(iqsem) = Units(iqsem') + (IF "ipout" \notin InLine(iqsem') THEN 1 ELSE 0)
  BY <1>4, <1>5 DEF Units
<1>9. Units(iqsem) \in Nat
  BY <1>4 DEF Units
<1>10. QueueOK'
  BY <1>1, <1>2, <1>6, <1>7, <1>8, <1>9 DEF QueueOK
<1>11. SemOK(netbufpool', Holder) /\ netbufpool'.count - netbufpool.count = 0
       /\ "ipout" \notin InLine(netbufpool')
  BY <1>1, <1>2, IdleNotInLine, HolderIs DEF StackShape, SemOK
<1>12. /\ InLine(netbufpool') \subseteq Asked'
       /\ Total' = Total + (netbufpool'.count - netbufpool.count)
                         + Weight(t.at) - Weight(task["ipout"].at)
       /\ Total \in Int
  BY <1>1, <1>2, <1>11, TaskSum, HolderIs
<1>13. Total' = Total
  BY <1>2, <1>3, <1>11, <1>12, RestingIs
<1>14. Total' + udpq' + icmpq' + Cardinality(Waiting') = nbufs
  BY <1>1, <1>2, <1>7, <1>13 DEF BuffersAdd, Total
<1> QED BY <1>1, <1>2, <1>3, <1>5, <1>6, <1>10, <1>11, <1>12, <1>14, StackStep, HolderIs

\* The packet at the head leaves the output queue.
LEMMA QueueTakes ==
    ASSUME StackShape, QueueOK, task["ipout"].at = "take", "ipout" \notin InLine(iqsem),
           ipoqueue' = [ipoqueue EXCEPT !.iqbuf[ipoqueue.iqhead] = "none",
                                        !.iqhead = (@ + 1) % IP_OQSIZ],
           UNCHANGED iqsem, task'["ipout"].at # "take"
    PROVE  QueueOK' /\ Cardinality(Waiting') = Cardinality(Waiting) - 1
<1> DEFINE q == IP_OQSIZ
           h == ipoqueue.iqhead
           g == ipoqueue'.iqhead
           n == Cardinality(Waiting)
<1>0. q \in Nat \ {0}
  BY StackAssumption
<1>1. /\ h \in 0 .. q-1 /\ n \in Nat /\ IsFiniteSet(Waiting) /\ n \in 0 .. q /\ n = Units(iqsem) + 1
      /\ Waiting = {RingAt(h, k) : k \in 0 .. n-1} /\ ipoqueue.iqtail = RingAt(h, n)
  BY WaitingCounted DEF QueueOK
<1>2. Units(iqsem) \in Nat
  BY DEF StackShape, SemOK, Units
<1>3. n >= 1
  BY <1>1, <1>2
<1>4. g = RingAt(h, 1) /\ g \in 0 .. q-1
  <2>1. g = (h + 1) % q
    BY DEF QueueOK
  <2> QED BY <1>0, <1>1, <2>1, RingAtIs, SMTT(60)
<1>5. /\ ipoqueue'.iqbuf = [ipoqueue.iqbuf EXCEPT ![h] = "none"]
      /\ ipoqueue'.iqtail = ipoqueue.iqtail
      /\ ipoqueue' = [iqhead |-> ipoqueue'.iqhead, iqtail |-> ipoqueue'.iqtail,
                      iqbuf |-> ipoqueue'.iqbuf]
  BY DEF QueueOK
<1>6. Waiting' = Waiting \ {h}
  BY <1>1, <1>5 DEF Waiting, QueueOK
<1> HIDE DEF q, h, g, n
<1>7. \A k \in 0 .. n-1 : RingAt(g, k) = RingAt(h, k + 1)
  BY <1>0, <1>1, <1>4 DEF RingAt, q
<1>8. RingAt(h, 0) = h
  BY <1>0, <1>1 DEF RingAt, q
<1>9. \A k \in 1 .. n-1 : RingAt(h, k) # h
  BY <1>0, <1>1 DEF RingAt, q
<1>10. Waiting \ {h} = {RingAt(h, k) : k \in 1 .. n-1}
  <2>1. ASSUME NEW x \in Waiting, x # h PROVE x \in {RingAt(h, k) : k \in 1 .. n-1}
    <3>1. PICK k \in 0 .. n-1 : x = RingAt(h, k)
      BY <1>1, <2>1
    <3>2. k \in 1 .. n-1
      BY <1>1, <1>8, <2>1, <3>1
    <3> QED BY <3>1, <3>2
  <2>2. ASSUME NEW k \in 1 .. n-1 PROVE RingAt(h, k) \in Waiting \ {h}
    <3>1. k \in 0 .. n-1
      BY <1>1
    <3> QED BY <1>1, <1>9, <3>1
  <2> QED BY <2>1, <2>2
<1>11. {RingAt(h, k) : k \in 1 .. n-1} = {RingAt(g, k) : k \in 0 .. (n-1)-1}
  <2>1. ASSUME NEW k \in 1 .. n-1 PROVE RingAt(h, k) \in {RingAt(g, j) : j \in 0 .. (n-1)-1}
    <3>1. k - 1 \in 0 .. (n-1)-1 /\ k - 1 \in 0 .. n-1 /\ (k - 1) + 1 = k
      BY <1>1
    <3>2. RingAt(g, k - 1) = RingAt(h, k)
      BY <1>7, <3>1
    <3> QED BY <3>1, <3>2
  <2>2. ASSUME NEW k \in 0 .. (n-1)-1 PROVE RingAt(g, k) \in {RingAt(h, j) : j \in 1 .. n-1}
    <3>1. k + 1 \in 1 .. n-1 /\ k \in 0 .. n-1
      BY <1>1
    <3> QED BY <1>7, <3>1
  <2> QED BY <2>1, <2>2
<1>12. n - 1 \in 0 .. q /\ RingAt(g, n - 1) = RingAt(h, n)
  <2>1. n - 1 \in 0 .. n-1 /\ (n - 1) + 1 = n
    BY <1>1, <1>3
  <2> QED BY <1>0, <1>1, <1>3, <1>7, <2>1
<1>13. /\ Waiting' = {RingAt(g, k) : k \in 0 .. (n-1)-1}
       /\ ipoqueue'.iqtail = RingAt(g, n - 1)
       /\ n - 1 = Units(iqsem') + (IF task'["ipout"].at = "take" /\ "ipout" \notin InLine(iqsem') THEN 1 ELSE 0)
  <2>1. Waiting' = {RingAt(g, k) : k \in 0 .. (n-1)-1}
    BY <1>6, <1>10, <1>11
  <2>2. ipoqueue'.iqtail = RingAt(g, n - 1)
    BY <1>1, <1>5, <1>12
  <2>3. n - 1 = Units(iqsem')
    BY <1>1, <1>2
  <2> QED BY <1>1, <2>1, <2>2, <2>3
<1>14. ipoqueue'.iqbuf \in [0 .. IP_OQSIZ-1 -> {"none", "remote", "local"}]
  BY <1>1, <1>5 DEF QueueOK, q
<1>15. QueueOK'
  BY <1>4, <1>5, <1>12, <1>13, <1>14 DEF QueueOK, q, g
<1>16. Cardinality(Waiting') = n - 1
  BY <1>4, <1>12, <1>13, RingCard DEF q
<1> QED BY <1>15, <1>16 DEF n

\* A packet is put behind the last.
LEMMA QueuePuts ==
    ASSUME StackShape, QueueOK, ~QueueFull,
           task["ipout"].at # "take" \/ "ipout" \in InLine(iqsem),
           NEW to \in {"remote", "local"},
           ipoqueue' = [ipoqueue EXCEPT !.iqbuf[ipoqueue.iqtail] = to,
                                        !.iqtail = (@ + 1) % IP_OQSIZ],
           iqsem' = SemSignal(iqsem), task'["ipout"] = task["ipout"]
    PROVE  /\ QueueOK' /\ Cardinality(Waiting') = Cardinality(Waiting) + 1
           /\ SemOK(iqsem', {"ipout"})
           /\ "ipout" \in InLine(iqsem') => task'["ipout"].at = "take"
<1> DEFINE q == IP_OQSIZ
           h == ipoqueue.iqhead
           e == ipoqueue.iqtail
           n == Cardinality(Waiting)
<1>0. q \in Nat \ {0}
  BY StackAssumption
<1>1. /\ h \in 0 .. q-1 /\ n \in Nat /\ n = Units(iqsem)
      /\ Waiting = {RingAt(h, k) : k \in 0 .. n-1} /\ e = RingAt(h, n)
      /\ n \in 0 .. q
  <2>1. n \in Nat
    BY WaitingCounted
  <2>2. n = Units(iqsem) + 0
    BY WaitingCounted
  <2>3. Units(iqsem) \in Nat
    BY DEF Units, StackShape, SemOK
  <2>4. h \in 0 .. q-1
    BY DEF QueueOK
  <2>5. Waiting = {RingAt(h, k) : k \in 0 .. n-1} /\ e = RingAt(h, n) /\ n \in 0 .. q
    BY WaitingCounted
  <2> HIDE DEF q, h, e, n
  <2> QED BY <2>1, <2>2, <2>3, <2>4, <2>5
<1>2. iqsem.count \in Int /\ SemOK(iqsem, {"ipout"})
  BY DEF StackShape, SemOK
<1>3. n < q
  BY <1>0, <1>1, <1>2 DEF Units, QueueFull
<1>4. e \in 0 .. q-1 /\ ipoqueue'.iqtail = RingAt(h, n + 1)
  <2>1. e \in 0 .. q-1
    BY <1>1, RingAtIs
  <2>2. ipoqueue'.iqtail = (e + 1) % q
    BY DEF QueueOK
  <2>3. (e + 1) % q = RingAt(e, 1)
    BY <1>0, <2>1, RingAtIs
  <2>4. RingAt(e, 1) = RingAt(h, n + 1)
    BY <1>0, <1>1, <1>3 DEF RingAt
  <2> QED BY <2>1, <2>2, <2>3, <2>4
<1>5. /\ ipoqueue'.iqbuf = [ipoqueue.iqbuf EXCEPT ![e] = to]
      /\ ipoqueue'.iqhead = h
      /\ ipoqueue' = [iqhead |-> ipoqueue'.iqhead, iqtail |-> ipoqueue'.iqtail,
                      iqbuf |-> ipoqueue'.iqbuf]
  BY DEF QueueOK
<1>6. Waiting' = Waiting \cup {e}
  BY <1>4, <1>5 DEF Waiting, QueueOK
<1>7. /\ SemOK(iqsem', {"ipout"}) /\ iqsem'.count = iqsem.count + 1
      /\ iqsem.count >= 0 => InLine(iqsem') = InLine(iqsem)
      /\ iqsem.count < 0 => \E p \in InLine(iqsem) : InLine(iqsem') = InLine(iqsem) \ {p}
  BY <1>2, SemSignalOK
<1>8. /\ iqsem.count >= 0 => InLine(iqsem') = {} /\ InLine(iqsem) = {}
      /\ iqsem.count < 0 => InLine(iqsem') = {} /\ InLine(iqsem) = {"ipout"}
  BY <1>7, IqsemFacts
<1>9. "ipout" \in InLine(iqsem) => task["ipout"].at = "take"
  BY DEF StackShape
<1>10. n + 1 = Units(iqsem') + (IF task'["ipout"].at = "take" /\ "ipout" \notin InLine(iqsem') THEN 1 ELSE 0)
  <2>1. CASE iqsem.count >= 0
    <3>1. Units(iqsem') = n + 1 /\ task["ipout"].at # "take"
      BY <1>1, <1>2, <1>7, <1>8, <2>1 DEF Units
    <3> QED BY <1>1, <3>1
  <2>2. CASE iqsem.count < 0
    <3>1. Units(iqsem') = 0 /\ n = 0
      BY <1>1, <1>2, <1>7, <2>2 DEF Units
    <3>2. task'["ipout"].at = "take" /\ "ipout" \notin InLine(iqsem')
      BY <1>8, <1>9, <2>2
    <3> QED BY <3>1, <3>2
  <2> QED BY <1>2, <2>1, <2>2
<1> HIDE DEF q, h, e, n
<1>11. Waiting \cup {e} = {RingAt(h, k) : k \in 0 .. (n+1)-1}
  <2>1. ASSUME NEW k \in 0 .. n-1 PROVE k \in 0 .. (n+1)-1
    BY <1>1
  <2>2. n \in 0 .. (n+1)-1
    BY <1>1
  <2>3. ASSUME NEW k \in 0 .. (n+1)-1, k # n PROVE k \in 0 .. n-1
    BY <1>1, <2>3
  <2> QED BY <1>1, <2>1, <2>2, <2>3
<1>12. n + 1 \in 0 .. q
  BY <1>0, <1>1, <1>3
<1>13. ipoqueue'.iqbuf \in [0 .. IP_OQSIZ-1 -> {"none", "remote", "local"}]
  BY <1>5 DEF QueueOK
<1>14. QueueOK'
  BY <1>1, <1>4, <1>5, <1>6, <1>10, <1>11, <1>12, <1>13 DEF QueueOK, q
<1>15. Cardinality(Waiting') = n + 1
  BY <1>1, <1>6, <1>11, <1>12, RingCard DEF q
<1>16. "ipout" \in InLine(iqsem') => task'["ipout"].at = "take"
  BY <1>2, <1>8
<1> QED BY <1>7, <1>14, <1>15, <1>16 DEF n

\* The answer to an echo request is put into the output queue, or dropped.
LEMMA ReplyKeeps ==
    ASSUME StackOK, StackInv, NEW h \in Holder, Reply(h)
    PROVE  StackInv'
<1>1. StackShape /\ QueueOK /\ BuffersAdd /\ udpq \in Nat /\ icmpq \in Nat
  BY DEF StackInv, StackShape
<1>2. task[h].at = "reply" /\ h \notin InLine(netbufpool) /\ Weight(task[h].at) = 2
  BY RestingIs DEF Reply, GotBuf
<1>3. h # "ipout" /\ UNCHANGED <<udpq, icmpq>>
  BY <1>1, <1>2 DEF StackShape, Reply
<1>4. CASE Finishes(h, 2) /\ UNCHANGED <<ipoqueue, iqsem>>
  BY <1>2, <1>3, <1>4, FinishKeeps
<1>5. CASE /\ ~QueueFull
           /\ ipoqueue' = [ipoqueue EXCEPT !.iqbuf[ipoqueue.iqtail] = task[h].to,
                                           !.iqtail = (@ + 1) % IP_OQSIZ]
           /\ iqsem' = SemSignal(iqsem)
           /\ Finishes(h, 1)
  <2>1. task["ipout"].at # "take" \/ "ipout" \in InLine(iqsem)
    BY DEF Reply, StackOK
  <2>2. task[h].to \in {"remote", "local"}
    <3>1. task[h] \in StackTask
      BY <1>1 DEF StackShape
    <3> QED BY <1>2, <3>1 DEF StackTask, Resting
  <2>3. /\ SemOK(netbufpool', Holder) /\ InLine(netbufpool') \subseteq Asked'
        /\ Total' = Total + 1 - Weight(task[h].at) /\ Total \in Int
        /\ task' = [task EXCEPT ![h] = Resting]
    BY <1>1, <1>2, <1>5, FinishSum
  <2>4. task'["ipout"] = task["ipout"]
    BY <1>1, <1>3, <2>3, HolderIs DEF StackShape
  <2> DEFINE to == task[h].to
  <2>5. ipoqueue' = [ipoqueue EXCEPT !.iqbuf[ipoqueue.iqtail] = to,
                                     !.iqtail = (@ + 1) % IP_OQSIZ]
    BY <1>5
  <2>6. to \in {"remote", "local"}
    BY <2>2
  <2> HIDE DEF to
  <2>7. /\ QueueOK' /\ Cardinality(Waiting') = Cardinality(Waiting) + 1
        /\ SemOK(iqsem', {"ipout"})
        /\ "ipout" \in InLine(iqsem') => task'["ipout"].at = "take"
    BY <1>1, <1>5, <2>1, <2>4, <2>5, <2>6, QueuePuts
  <2>8. Cardinality(Waiting) \in Nat
    BY <1>1, WaitingCounted
  <2>9. Total' + 1 = Total
    BY <1>2, <2>3
  <2>10. Total' \in Int
    BY <1>2, <2>3
  <2>11. Total' + udpq' + icmpq' + Cardinality(Waiting') = nbufs
    <3>1. Total + udpq + icmpq + Cardinality(Waiting) = nbufs
      BY <1>1 DEF BuffersAdd, Total
    <3>2. Total' + udpq + icmpq + (Cardinality(Waiting) + 1)
             = (Total' + 1) + udpq + icmpq + Cardinality(Waiting)
      BY <1>1, <2>8, <2>10
    <3> QED BY <1>3, <2>7, <2>9, <3>1, <3>2
  <2> QED BY <1>1, <1>3, <2>3, <2>7, <2>11, StackStep, RestingIs
<1> QED BY <1>4, <1>5 DEF Reply

\* ipout takes the packet at the head, and has its buffer from there on.
LEMMA IpoutTakesKeeps ==
    ASSUME StackOK, StackInv, IpoutTakes
    PROVE  StackInv'
<1>1. StackShape /\ QueueOK /\ BuffersAdd /\ udpq \in Nat /\ icmpq \in Nat
  BY DEF StackInv, StackShape
<1>2. /\ task["ipout"].at = "take" /\ "ipout" \notin InLine(iqsem) /\ UNCHANGED iqsem
      /\ ipoqueue' = [ipoqueue EXCEPT !.iqbuf[ipoqueue.iqhead] = "none",
                                      !.iqhead = (@ + 1) % IP_OQSIZ]
  BY DEF IpoutTakes
<1>3. "ipout" \notin InLine(netbufpool) /\ "ipout" \in Holder /\ Weight(task["ipout"].at) = 0
  BY <1>1, <1>2, IdleNotInLine, HolderIs, RestingIs
<1>4. \E t \in StackTask :
         /\ task' = [task EXCEPT !["ipout"] = t] /\ t.at \in {"idle", "resolve"}
         /\ SemOK(netbufpool', Holder) /\ InLine(netbufpool') \subseteq Asked'
         /\ udpq' \in Nat /\ icmpq' \in Nat
         /\ Total' + udpq' + icmpq' = Total + udpq + icmpq + 1 /\ Total \in Int
  <2>1. CASE Finishes("ipout", 1) /\ UNCHANGED <<udpq, icmpq>>
    <3>1. /\ SemOK(netbufpool', Holder) /\ InLine(netbufpool') \subseteq Asked'
          /\ Total' = Total + 1 - Weight(task["ipout"].at) /\ Total \in Int
          /\ task' = [task EXCEPT !["ipout"] = Resting]
      BY <1>1, <1>3, <2>1, FinishSum
    <3>2. Total' = Total + 1
      BY <1>3, <3>1
    <3>3. Total' + udpq' + icmpq' = Total + udpq + icmpq + 1
      BY <1>1, <2>1, <3>1, <3>2
    <3> QED BY <1>1, <2>1, <3>1, <3>3, RestingIs
  <2>2. CASE /\ task' = [task EXCEPT !["ipout"] = [at |-> "resolve"]]
             /\ UNCHANGED <<netbufpool, udpq, icmpq>>
    <3> DEFINE t == [at |-> "resolve"]
    <3>1. t \in StackTask /\ t.at = "resolve" /\ Weight(t.at) = 1
      BY DEF StackTask, Weight
    <3>2. task' = [task EXCEPT !["ipout"] = t]
      BY <2>2
    <3> HIDE DEF t
    <3>3. SemOK(netbufpool', Holder) /\ netbufpool'.count - netbufpool.count = 0
          /\ "ipout" \notin InLine(netbufpool')
      BY <1>1, <1>3, <2>2 DEF StackShape, SemOK
    <3>4. /\ InLine(netbufpool') \subseteq Asked'
          /\ Total' = Total + (netbufpool'.count - netbufpool.count)
                            + Weight(t.at) - Weight(task["ipout"].at)
          /\ Total \in Int
      BY <1>1, <1>3, <2>2, <3>2, <3>3, TaskSum
    <3>5. Total' = Total + 1
      BY <1>3, <3>1, <3>3, <3>4
    <3>6. Total' + udpq' + icmpq' = Total + udpq + icmpq + 1
      BY <1>1, <2>2, <3>4, <3>5
    <3> QED BY <1>1, <2>2, <3>1, <3>2, <3>3, <3>4, <3>6
  <2>3. CASE Deliver("ipout", "reply")
    <3>1. /\ SemOK(netbufpool', Holder) /\ InLine(netbufpool') \subseteq Asked'
          /\ udpq' \in Nat /\ icmpq' \in Nat
          /\ Total' + udpq' + icmpq' = Total + udpq + icmpq + 1 - Weight(task["ipout"].at)
          /\ Total \in Int
          /\ task' = [task EXCEPT !["ipout"] = Resting]
      BY <1>1, <1>3, <2>3, DeliverSum
    <3>2. Total' + udpq' + icmpq' = Total + udpq + icmpq + 1
      BY <1>1, <1>3, <3>1
    <3> QED BY <3>1, <3>2, RestingIs
  <2> QED BY <2>1, <2>2, <2>3 DEF IpoutTakes
<1>5. PICK t \in StackTask :
         /\ task' = [task EXCEPT !["ipout"] = t] /\ t.at \in {"idle", "resolve"}
         /\ SemOK(netbufpool', Holder) /\ InLine(netbufpool') \subseteq Asked'
         /\ udpq' \in Nat /\ icmpq' \in Nat
         /\ Total' + udpq' + icmpq' = Total + udpq + icmpq + 1 /\ Total \in Int
  BY <1>4
<1>6. task'["ipout"].at # "take"
  BY <1>1, <1>3, <1>5 DEF StackShape
<1>7. QueueOK' /\ Cardinality(Waiting') = Cardinality(Waiting) - 1
  BY <1>1, <1>2, <1>6, QueueTakes
<1>8. Cardinality(Waiting) \in Nat
  BY <1>1, WaitingCounted
<1>9. Total' + udpq' + icmpq' + Cardinality(Waiting') = nbufs
  <2>1. Total + udpq + icmpq + Cardinality(Waiting) = nbufs
    BY <1>1 DEF BuffersAdd, Total
  <2> QED BY <1>1, <1>5, <1>7, <1>8, <2>1
<1>10. SemOK(iqsem', {"ipout"}) /\ "ipout" \notin InLine(iqsem')
  BY <1>1, <1>2 DEF StackShape
<1> QED BY <1>1, <1>3, <1>5, <1>7, <1>9, <1>10, StackStep, HolderIs

LEMMA ResolvedKeeps ==
    ASSUME StackOK, StackInv, NEW h \in Holder, Resolved(h)
    PROVE  StackInv'
<1>1. task[h].at = "resolve" /\ Finishes(h, 1) /\ UNCHANGED <<udpq, icmpq, ipoqueue, iqsem>>
  BY DEF Resolved
<1>2. h \notin InLine(netbufpool)
  BY <1>1, IdleNotInLine DEF StackInv
<1> QED BY <1>1, <1>2, FinishKeeps, RestingIs

LEMMA StackBegins ==
    ASSUME StackOK, StackInit
    PROVE  StackInv
<1>0. IP_OQSIZ \in Nat \ {0} /\ nbufs \in Nat
  BY StackAssumption DEF nbufs
<1>1. /\ SemOK(netbufpool, Holder) /\ netbufpool.count = nbufs /\ InLine(netbufpool) = {}
      /\ SemOK(iqsem, {"ipout"}) /\ iqsem.count = 0 /\ InLine(iqsem) = {}
  BY <1>0, NewSemOK DEF StackInit
<1>2. \A h \in Holder : task[h] = Resting
  BY DEF StackInit
<1>3. StackShape
  BY <1>1, <1>2, RestingIs, HolderIs DEF StackInit, StackShape
<1>4. First = {} /\ Second = {}
  BY <1>2, RestingIs DEF First, Second
<1>5. Waiting = {}
  BY DEF Waiting, StackInit
<1>6. BuffersAdd
  BY <1>0, <1>1, <1>4, <1>5, FS_EmptySet DEF BuffersAdd, StackInit
<1>7. QueueOK
  <2>1. ipoqueue.iqhead = 0 /\ ipoqueue.iqtail = 0
    BY DEF StackInit
  <2>2. 0 = Units(iqsem) + (IF task["ipout"].at = "take" /\ "ipout" \notin InLine(iqsem) THEN 1 ELSE 0)
    BY <1>1, <1>2, RestingIs, HolderIs DEF Units
  <2>3. Waiting = {RingAt(0, k) : k \in 0 .. 0-1} /\ RingAt(0, 0) = 0
    BY <1>0, <1>5 DEF RingAt
  <2>4. /\ ipoqueue = [iqhead |-> ipoqueue.iqhead, iqtail |-> ipoqueue.iqtail, iqbuf |-> ipoqueue.iqbuf]
        /\ ipoqueue.iqhead \in 0 .. IP_OQSIZ-1
        /\ ipoqueue.iqbuf \in [0 .. IP_OQSIZ-1 -> {"none", "remote", "local"}]
    BY <1>0 DEF StackInit
  <2>5. 0 \in 0 .. IP_OQSIZ
    BY <1>0
  <2> QED BY <2>1, <2>2, <2>3, <2>4, <2>5 DEF QueueOK
<1> QED BY <1>3, <1>6, <1>7 DEF StackInv

LEMMA StackStays ==
    ASSUME StackInv, UNCHANGED stackvars
    PROVE  StackInv'
  BY DEF StackInv, StackShape, BuffersAdd, QueueOK, stackvars, First, Second, Asked, Waiting

\* Who has one buffer, and who has two.
LEMMA HavingIs ==
    ASSUME StackShape
    PROVE  /\ Having(1) = (First \ InLine(netbufpool)) \cup (Second \cap InLine(netbufpool))
           /\ Having(2) = Second \ InLine(netbufpool)
           /\ \A h \in Holder : Has(h) > 0 <=> h \in Having(1)
<1>1. \A h \in Holder :
         Has(h) = IF h \in First
                  THEN (IF h \in Second THEN 2 ELSE 1) - (IF h \in InLine(netbufpool) THEN 1 ELSE 0)
                  ELSE 0
  <2> SUFFICES ASSUME NEW h \in Holder
               PROVE  Has(h) = IF h \in First
                       THEN (IF h \in Second THEN 2 ELSE 1) - (IF h \in InLine(netbufpool) THEN 1 ELSE 0)
                       ELSE 0
    OBVIOUS
  <2>1. h \in InLine(netbufpool) => task[h].at # "resolve"
    BY IdleNotInLine
  <2>2. h \in First <=> task[h].at \in {"read", "getbuf", "reply", "resolve"}
    BY DEF First
  <2>3. h \in Second <=> task[h].at = "reply"
    BY DEF Second
  <2> QED BY <2>1, <2>2, <2>3 DEF Has
<1>2. First \subseteq Holder /\ Second \subseteq First /\ InLine(netbufpool) \subseteq First
  BY DEF First, Second, StackShape, Asked
<1>3. \A h \in Holder : /\ Has(h) >= 1 <=> (h \in First /\ (h \in Second \/ h \notin InLine(netbufpool)))
                        /\ Has(h) >= 2 <=> (h \in Second /\ h \notin InLine(netbufpool))
                        /\ Has(h) > 0 <=> Has(h) >= 1
  BY <1>1, <1>2
<1>4. Having(1) = (First \ InLine(netbufpool)) \cup (Second \cap InLine(netbufpool))
  BY <1>2, <1>3 DEF Having
<1>5. Having(2) = Second \ InLine(netbufpool)
  BY <1>2, <1>3 DEF Having
<1> QED BY <1>3, <1>4, <1>5 DEF Having

\* Those in line have been promised a buffer by the count.
LEMMA HavingAdds ==
    ASSUME StackOK, StackShape
    PROVE  /\ Units(netbufpool) + Cardinality(Having(1)) + Cardinality(Having(2))
                = netbufpool.count + Cardinality(First) + Cardinality(Second)
           /\ netbufpool.count < 0 => Cardinality(InLine(netbufpool)) + netbufpool.count = 0
<1> DEFINE L == InLine(netbufpool)
           A == First \ L
           B == Second \cap L
<1>1. First \subseteq Holder /\ Second \subseteq First /\ L \subseteq First
  BY DEF First, Second, StackShape, Asked
<1>2. /\ IsFiniteSet(First) /\ Cardinality(First) \in Nat
      /\ IsFiniteSet(Second) /\ Cardinality(Second) \in Nat
      /\ IsFiniteSet(B) /\ Cardinality(B) \in Nat
      /\ IsFiniteSet(A) /\ Cardinality(A) \in Nat
      /\ Cardinality(L) \in Nat
  BY <1>1, HoldersCounted
<1>3. Cardinality(A) = Cardinality(First) - Cardinality(L)
  <2>1. First \cap L = L
    BY <1>1
  <2> QED BY <1>2, <2>1, FS_Difference, ZenonT(60)
<1>4. Cardinality(Second \ L) = Cardinality(Second) - Cardinality(B)
  BY <1>2, FS_Difference
<1>5. Cardinality(A \cup B) = Cardinality(A) + Cardinality(B)
  <2>1. A \cap B = {}
    OBVIOUS
  <2>2. Cardinality(A \cup B) = Cardinality(A) + Cardinality(B) - Cardinality(A \cap B)
    BY <1>2, FS_Union
  <2>3. Cardinality(A \cap B) = 0
    BY <2>1, FS_EmptySet
  <2> HIDE DEF A, B
  <2> QED BY <1>2, <2>2, <2>3
<1>6. Cardinality(L) = Len(netbufpool.line) /\ SemOK(netbufpool, Holder)
  BY QueueCard DEF StackShape, SemOK, InLine
<1>7. netbufpool.count \in Int /\ netbufpool.count < 0 => Cardinality(L) + netbufpool.count = 0
  BY <1>6 DEF SemOK
<1>8. netbufpool.count >= 0 => Cardinality(L) = 0
  BY <1>6, NobodyInLine, FS_EmptySet
<1>9. Having(1) = A \cup B /\ Having(2) = Second \ L
  BY HavingIs
<1> HIDE DEF A, B, L
<1>10. netbufpool.count \in Int
  BY <1>6 DEF SemOK
<1>11. Units(netbufpool) = netbufpool.count + Cardinality(L)
  BY <1>2, <1>7, <1>8, <1>10 DEF Units
<1>12. Cardinality(Having(1)) = Cardinality(First) - Cardinality(L) + Cardinality(B)
  BY <1>2, <1>3, <1>5, <1>9
<1>13. Cardinality(Having(2)) = Cardinality(Second) - Cardinality(B)
  BY <1>4, <1>9
<1>14. Units(netbufpool) + Cardinality(Having(1)) + Cardinality(Having(2))
          = netbufpool.count + Cardinality(First) + Cardinality(Second)
  BY <1>2, <1>10, <1>11, <1>12, <1>13
<1> QED BY <1>7, <1>10, <1>14 DEF L

\* If nobody but those in line had a buffer, those with one for the packet
\* would have them all; there are not so many.
LEMMA SomebodyGivesBack ==
    ASSUME StackOK, StackShape, BuffersAdd, netbufpool.line # <<>>, udpq + icmpq = 0, Waiting = {}
    PROVE  \E h \in Holder : Has(h) > 0 /\ h \notin InLine(netbufpool)
<1>1. SUFFICES ASSUME \A h \in Holder : Has(h) > 0 => h \in InLine(netbufpool)
               PROVE  FALSE
  OBVIOUS
<1>2. First \subseteq Holder /\ Second \subseteq First /\ InLine(netbufpool) \subseteq First
  BY DEF First, Second, StackShape, Asked
<1>3. First = InLine(netbufpool)
  BY <1>1, <1>2, HavingIs
<1>4. netbufpool.count \in Int /\ netbufpool.count < 0
  BY DEF StackShape, SemOK
<1>5. Cardinality(First) + netbufpool.count = 0
  BY <1>3, <1>4, HavingAdds
<1>6. Cardinality(First) \in Nat /\ Cardinality(Second) \in Nat /\ udpq \in Nat /\ icmpq \in Nat
  BY <1>2, HoldersCounted DEF StackShape
<1>7. Cardinality(Waiting) = 0
  BY FS_EmptySet
<1>8. Cardinality(Second) = nbufs
  BY <1>4, <1>5, <1>6, <1>7 DEF BuffersAdd
<1>9. Second \subseteq NetSender \cup {"netin"}
  BY HolderIs DEF Second, StackShape
<1>10. Cardinality(NetSender \cup {"netin"}) = Cardinality(NetSender) + 1
       /\ IsFiniteSet(NetSender \cup {"netin"}) /\ Cardinality(NetSender) \in Nat
  BY FS_AddElement, FS_CardinalityType, HolderIs DEF StackOK
<1>11. Cardinality(Second) <= Cardinality(NetSender) + 1
  BY <1>9, <1>10, FS_Subset
<1>12. nbufs \in Nat /\ Cardinality(NetSender) + 1 < nbufs
  BY StackAssumption DEF StackOK, nbufs
<1> QED BY <1>6, <1>8, <1>10, <1>11, <1>12

LEMMA StackInvMeans ==
    ASSUME StackOK, StackInv
    PROVE  NetBuffersOwned
<1>1. StackShape /\ BuffersAdd /\ QueueOK
  BY DEF StackInv
<1>2. nbufs = Units(netbufpool) + Cardinality(Having(1)) + Cardinality(Having(2))
                + udpq + icmpq + Cardinality(Waiting)
  BY <1>1, HavingAdds DEF BuffersAdd
<1>3. Cardinality(Waiting) = Units(iqsem)
         + (IF task["ipout"].at = "take" /\ "ipout" \notin InLine(iqsem) THEN 1 ELSE 0)
  BY <1>1, WaitingCounted
<1>4. Waiting = {(ipoqueue.iqhead + k) % IP_OQSIZ : k \in 0 .. Cardinality(Waiting)-1}
  <2>1. /\ Cardinality(Waiting) \in 0 .. IP_OQSIZ /\ ipoqueue.iqhead \in 0 .. IP_OQSIZ-1
        /\ Waiting = {RingAt(ipoqueue.iqhead, k) : k \in 0 .. Cardinality(Waiting)-1}
    BY <1>1, WaitingCounted DEF QueueOK
  <2>2. \A k \in 0 .. Cardinality(Waiting)-1 :
           (ipoqueue.iqhead + k) % IP_OQSIZ = RingAt(ipoqueue.iqhead, k)
    <3>1. \A k \in 0 .. Cardinality(Waiting)-1 : k \in 0 .. IP_OQSIZ
      BY <2>1, StackAssumption
    <3> QED BY <2>1, <3>1, RingAtIs
  <2> QED BY <2>1, <2>2
<1>5. netbufpool.line # <<>> =>
          \/ udpq + icmpq > 0 \/ Waiting # {}
          \/ \E h \in Holder : Has(h) > 0 /\ h \notin InLine(netbufpool)
  <2>1. udpq + icmpq > 0 \/ udpq + icmpq = 0
    BY <1>1 DEF StackShape
  <2> QED BY <1>1, <2>1, SomebodyGivesBack
<1> QED BY <1>2, <1>3, <1>4, <1>5 DEF NetBuffersOwned

\* No buffer of the stack is lost or in two places, and the pool never has only
\* processes in line that wait for a second one, if it has more buffers than there
\* are senders and netin (net_init's sum).  This is so under StackOK, and not
\* without it: the code loses a buffer when a reply comes for an ICMP ring that is
\* full (icmp.c:87), when icmp_recv passes the end of its ring (icmp.c:201) and
\* when the holder of one is killed; and a slow ipout has its queue overrun.
THEOREM NetBuffersKept == StackOK => (StackSpec => []NetBuffersOwned)
<1> SUFFICES ASSUME StackOK PROVE StackSpec => []NetBuffersOwned
  OBVIOUS
<1>1. StackInit => StackInv
  BY StackBegins
<1>2. StackInv /\ [StackNext]_stackvars => StackInv'
  <2> SUFFICES ASSUME StackInv, [StackNext]_stackvars PROVE StackInv'
    OBVIOUS
  <2>1. CASE NetinGetbuf \/ \E proto \in {"other", "udp", "reply", "request"} : NetinReads(proto)
    BY <2>1, NetinKeeps
  <2>2. CASE IpoutWaits
    BY <2>2, IpoutWaitsKeeps
  <2>3. CASE IpoutTakes
    BY <2>3, IpoutTakesKeeps
  <2>4. CASE NetReceive
    BY <2>4, ReceiverKeeps
  <2>5. CASE \E h \in Holder : Reply(h) \/ Resolved(h)
    BY <2>5, ReplyKeeps, ResolvedKeeps
  <2>6. CASE \E p \in NetSender :
                \/ \E dest \in {"nowhere", "udp", "self", "station"} : Send(p, dest)
                \/ IpSend(p) \/ KillSender(p)
    BY <2>6, SenderKeeps
  <2>7. CASE UNCHANGED stackvars
    BY <2>7, StackStays
  <2> QED BY <2>1, <2>2, <2>3, <2>4, <2>5, <2>6, <2>7 DEF StackNext
<1>3. StackInv => NetBuffersOwned
  BY StackInvMeans
<1> QED BY <1>1, <1>2, <1>3, PTL DEF StackSpec

-----------------------------------------------------------------------------
\* The Ethernet interface.

\* The k-th slot from slot h on, in a ring of n.
SlotAt(h, k, n) == IF h + k < n THEN h + k ELSE h + k - n

LEMMA SlotAtIs ==
    ASSUME NEW n \in Nat \ {0}, NEW h \in 0 .. n-1, NEW k \in 0 .. n
    PROVE  /\ (h + k) % n = SlotAt(h, k, n)
           /\ SlotAt(h, k, n) \in 0 .. n-1
<1>1. CASE h + k < n
  BY <1>1 DEF SlotAt
<1>2. CASE h + k >= n
  <2> DEFINE y == h + k - n
  <2>1. y \in 0 .. n-1 /\ h + k = n * 1 + y
    BY <1>2
  <2>2. (h + k) % n = y
    BY <2>1
  <2> QED BY <1>2, <2>1, <2>2 DEF SlotAt
<1> QED BY <1>1, <1>2

\* How far a slot is from another.
LEMMA SlotDistance ==
    ASSUME NEW n \in Nat \ {0}, NEW h \in 0 .. n-1, NEW k \in 0 .. n
    PROVE  (SlotAt(h, k, n) - h) % n = IF k < n THEN k ELSE 0
<1>1. CASE k = n
  <2>1. SlotAt(h, k, n) = h
    BY <1>1 DEF SlotAt
  <2>2. h - h = 0 /\ 0 = n * 0 + 0
    OBVIOUS
  <2>3. 0 % n = 0
    OBVIOUS
  <2> QED BY <1>1, <2>1, <2>2, <2>3
<1>2. CASE k < n /\ h + k < n
  <2>1. SlotAt(h, k, n) - h = k
    BY <1>2 DEF SlotAt
  <2>2. k % n = k
    BY <1>2
  <2> QED BY <1>2, <2>1, <2>2
<1>3. CASE k < n /\ h + k >= n
  <2> DEFINE y == k - n
  <2>1. SlotAt(h, k, n) - h = y
    BY <1>3 DEF SlotAt
  <2>2. y = n * (-1) + k /\ k \in 0 .. n-1 /\ y \in Int
    BY <1>3
  <2>3. y % n = k
    BY <2>2
  <2> QED BY <1>3, <2>1, <2>3
<1> QED BY <1>1, <1>2, <1>3

\* Each slot is passed once, and steps add up.
LEMMA SlotSteps ==
    ASSUME NEW n \in Nat \ {0}, NEW h \in 0 .. n-1
    PROVE  /\ \A j, k \in 0 .. n-1 : SlotAt(h, j, n) = SlotAt(h, k, n) => j = k
           /\ \A i \in 0 .. n-1 : \E k \in 0 .. n-1 : SlotAt(h, k, n) = i
           /\ \A j, k \in 0 .. n :
                 SlotAt(SlotAt(h, j, n), k, n)
                     = IF j + k <= n THEN SlotAt(h, j + k, n) ELSE SlotAt(h, j + k - n, n)
           /\ SlotAt(h, 0, n) = h /\ SlotAt(h, n, n) = h
<1>1. \A j, k \in 0 .. n-1 : SlotAt(h, j, n) = SlotAt(h, k, n) => j = k
  BY DEF SlotAt
<1>2. ASSUME NEW i \in 0 .. n-1 PROVE \E k \in 0 .. n-1 : SlotAt(h, k, n) = i
  <2>1. CASE i >= h
    <3>1. i - h \in 0 .. n-1 /\ SlotAt(h, i - h, n) = i
      BY <2>1 DEF SlotAt
    <3> QED BY <3>1
  <2>2. CASE i < h
    <3>1. i - h + n \in 0 .. n-1 /\ SlotAt(h, i - h + n, n) = i
      BY <2>2 DEF SlotAt
    <3> QED BY <3>1
  <2> QED BY <2>1, <2>2
<1>3. \A j, k \in 0 .. n :
         SlotAt(SlotAt(h, j, n), k, n)
             = IF j + k <= n THEN SlotAt(h, j + k, n) ELSE SlotAt(h, j + k - n, n)
  BY DEF SlotAt
<1>4. SlotAt(h, 0, n) = h /\ SlotAt(h, n, n) = h
  BY DEF SlotAt
<1> QED BY <1>1, <1>2, <1>3, <1>4

\* The driver leaves to chance at most that all transmit slots are taken.
EthOK == {"burst", "mcast"} \cap EthCareless = {}

\* u slots are taken from the head on, and the first d of them have been sent.
\* While not all are taken, the interrupt is due that looks for these d.
TxShape(u, d) ==
    /\ u \in 0 .. TxN /\ d \in 0 .. u
    /\ txTail = SlotAt(txHead, u, TxN) /\ txDma = SlotAt(txHead, d, TxN)
    /\ \A k \in 0 .. TxN-1 : txRing[SlotAt(txHead, k, TxN)].own <=> (d <= k /\ k < u)
    /\ Units(osem) + u = TxN
    /\ u < TxN /\ "TI" \notin handling \cup sr => d = 0

Readers == {p \in EthProc : ethcall[p].op = "read"}
Writers == {p \in EthProc : ethcall[p].op = "write"}

\* b frames have come from the head on, and the handler has seen the first a of
\* them: they have a unit or a reader.  The interrupt is due that looks for the
\* others.
RxShape(a, b) ==
    /\ b \in 0 .. RxN-1 /\ a \in 0 .. b
    /\ rxTail = SlotAt(rxHead, a, RxN) /\ rxDma = SlotAt(rxHead, b, RxN)
    /\ \A k \in 0 .. RxN-1 : rxRing[SlotAt(rxHead, k, RxN)].own <=> b <= k
    /\ isem.count + Cardinality(Readers) = a
    /\ "RI" \notin handling \cup sr => a = b

TxOK ==
    /\ txRing \in [0 .. TxN-1 -> [own : BOOLEAN, load : Load \cup {Noload}]]
    /\ txHead \in 0 .. TxN-1
    /\ SemOK(osem, EthProc) /\ InLine(osem) = Writers
    /\ \E u, d \in Nat : TxShape(u, d)

RxOK ==
    /\ rxRing \in [0 .. RxN-1 -> [own : BOOLEAN, dst : Address \cup {Noload}]]
    /\ rxHead \in 0 .. RxN-1
    /\ SemOK(isem, EthProc) /\ InLine(isem) \subseteq Readers
    /\ \E a, b \in Nat : RxShape(a, b)

EthCalls == {EthIdle} \cup [op : {"read", "write"}]

EtherInv == /\ ethcall \in [EthProc -> EthCalls] /\ ~overrun
            /\ TxOK /\ RxOK

LEMMA RingSizes == TxN \in Nat \ {0} /\ RxN \in Nat \ {0} /\ IsFiniteSet(EthProc)
  BY EtherAssumption, FS_Union DEF TxN, RxN, EthProc

\* At the start all transmit slots are free and no frame has come.
LEMMA EtherInitInv ==
    ASSUME EtherInit
    PROVE  EtherInv
<1>1. /\ txRing = [i \in 0 .. TxN-1 |-> [own |-> FALSE, load |-> Noload]]
      /\ rxRing = [i \in 0 .. RxN-1 |-> [own |-> TRUE, dst |-> Noload]]
      /\ txHead = 0 /\ txTail = 0 /\ osem = NewSem(TxN)
      /\ rxHead = 0 /\ rxTail = 0 /\ isem = NewSem(0)
      /\ txDma = 0 /\ rxDma = 0 /\ overrun = FALSE
      /\ ethcall = [p \in EthProc |-> EthIdle]
  BY DEF EtherInit
<1>2. /\ SemOK(NewSem(TxN), EthProc) /\ InLine(NewSem(TxN)) = {} /\ NewSem(TxN).count = TxN
      /\ SemOK(NewSem(0), EthProc) /\ InLine(NewSem(0)) = {} /\ NewSem(0).count = 0
  BY RingSizes, NewSemOK
<1>3. Readers = {} /\ Writers = {} /\ Cardinality(Readers) = 0
  BY <1>1, FS_EmptySet DEF Readers, Writers, EthIdle
<1>4. Units(osem) = TxN
  BY <1>1, <1>2, RingSizes, UnitsAre
<1>5. \A n \in Nat \ {0} : SlotAt(0, 0, n) = 0 /\ \A k \in 0 .. n-1 : SlotAt(0, k, n) \in 0 .. n-1
  BY DEF SlotAt
<1>6. TxShape(0, 0)
  BY <1>1, <1>4, <1>5, RingSizes DEF TxShape
<1>7. RxShape(0, 0)
  BY <1>1, <1>2, <1>3, <1>5, RingSizes DEF RxShape
<1>8. TxOK
  BY <1>1, <1>2, <1>3, <1>6, RingSizes DEF TxOK
<1>9. RxOK
  BY <1>1, <1>2, <1>3, <1>7, RingSizes DEF RxOK
<1> QED BY <1>1, <1>8, <1>9 DEF EtherInv, EthCalls

\* A step that leaves one ring alone and asks for no less.
LEMMA TxStays ==
    ASSUME TxOK, UNCHANGED <<txRing, txHead, txTail, txDma, osem>>, Writers' = Writers,
           "TI" \in handling \cup sr => "TI" \in handling' \cup sr'
    PROVE  TxOK'
<1>1. PICK u, d \in Nat : TxShape(u, d)
  BY DEF TxOK
<1>2. TxShape(u, d)'
  BY <1>1 DEF TxShape
<1> QED BY <1>2 DEF TxOK

LEMMA RxStays ==
    ASSUME RxOK, UNCHANGED <<rxRing, rxHead, rxTail, rxDma, isem>>, Readers' = Readers,
           "RI" \in handling \cup sr => "RI" \in handling' \cup sr'
    PROVE  RxOK'
<1>1. PICK a, b \in Nat : RxShape(a, b)
  BY DEF RxOK
<1>2. RxShape(a, b)'
  BY <1>1 DEF RxShape
<1> QED BY <1>2 DEF RxOK

\* A unit of osem is a slot that is not taken.
LEMMA TxUnits ==
    ASSUME TxOK, NEW u \in Nat, NEW d \in Nat, TxShape(u, d)
    PROVE  /\ osem.count \in Int
           /\ osem.count > 0 => u < TxN /\ osem.count = TxN - u
           /\ osem.count <= 0 => u = TxN
<1>1. /\ SemOK(osem, EthProc) /\ Units(osem) + u = TxN /\ u \in 0 .. TxN
  BY DEF TxOK, TxShape
<1>2. /\ Units(osem) \in Nat /\ osem.count \in Int
      /\ osem.count > 0 => Units(osem) = osem.count
      /\ osem.count <= 0 => Units(osem) = 0
  BY <1>1, UnitsAre DEF SemOK
<1> QED BY <1>1, <1>2, RingSizes

\* ethwrite takes the slot at the tail, or waits for one.
LEMMA EthwriteKeeps ==
    ASSUME EtherInv, NEW p \in EthWriter, NEW load \in Load, Ethwrite(p, load)
    PROVE  EtherInv'
<1>1. /\ ethcall[p] = EthIdle /\ osem' = SemWait(osem, p)
      /\ UNCHANGED <<txHead, rxvars, txDma, rxDma, intvars, mcvars>>
      /\ \/ /\ p \in InLine(osem')
            /\ ethcall' = [ethcall EXCEPT ![p] = [op |-> "write"]]
            /\ UNCHANGED <<txRing, txTail>>
         \/ /\ p \notin InLine(osem')
            /\ txRing' = [txRing EXCEPT ![txTail] = [own |-> TRUE, load |-> load]]
            /\ txTail' = (txTail + 1) % TxN
            /\ UNCHANGED ethcall
  BY DEF Ethwrite, EthFree
<1>2. /\ p \in EthProc /\ p \notin Writers /\ p \notin Readers
      /\ ethcall \in [EthProc -> EthCalls]
      /\ TxOK /\ RxOK /\ SemOK(osem, EthProc) /\ InLine(osem) = Writers
      /\ txRing \in [0 .. TxN-1 -> [own : BOOLEAN, load : Load \cup {Noload}]]
      /\ txHead \in 0 .. TxN-1
  BY <1>1 DEF EtherInv, TxOK, EthProc, Writers, Readers, EthIdle
<1>3. PICK u, d \in Nat : TxShape(u, d)
  BY <1>2 DEF TxOK
<1>4. /\ osem.count \in Int
      /\ osem.count > 0 => u < TxN /\ osem.count = TxN - u
      /\ osem.count <= 0 => u = TxN
  BY <1>2, <1>3, TxUnits
<1>5. /\ SemOK(osem', EthProc) /\ osem'.count = osem.count - 1
      /\ InLine(osem') = IF osem.count <= 0 THEN InLine(osem) \cup {p} ELSE {}
  BY <1>1, <1>2, SemWaitOK
<1>6. CASE /\ p \in InLine(osem')
           /\ ethcall' = [ethcall EXCEPT ![p] = [op |-> "write"]]
           /\ UNCHANGED <<txRing, txTail>>
  <2>1. Writers' = Writers \cup {p} /\ Readers' = Readers
    BY <1>2, <1>6 DEF Writers, Readers
  <2>2. osem.count <= 0 /\ InLine(osem') = InLine(osem) \cup {p} /\ u = TxN
    BY <1>4, <1>5, <1>6
  <2>3. Units(osem') = 0 /\ Units(osem) = 0
    BY <1>2, <1>4, <1>5, <2>2, UnitsAre
  <2>4. TxShape(u, d)'
    BY <1>1, <1>3, <1>6, <2>2, <2>3 DEF TxShape, intvars
  <2>5. TxOK'
    BY <1>1, <1>2, <1>5, <1>6, <2>1, <2>2, <2>4 DEF TxOK
  <2>6. RxOK'
    BY <1>1, <1>2, <2>1, RxStays DEF rxvars, intvars
  <2>7. ethcall' \in [EthProc -> EthCalls]
    BY <1>2, <1>6 DEF EthCalls
  <2> QED BY <1>1, <2>5, <2>6, <2>7 DEF EtherInv, mcvars
<1>7. CASE /\ p \notin InLine(osem')
           /\ txRing' = [txRing EXCEPT ![txTail] = [own |-> TRUE, load |-> load]]
           /\ txTail' = (txTail + 1) % TxN
           /\ UNCHANGED ethcall
  <2>1. Writers' = Writers /\ Readers' = Readers
    BY <1>7 DEF Writers, Readers
  <2>2. osem.count > 0 /\ InLine(osem') = {} /\ u < TxN /\ InLine(osem) = {}
    BY <1>2, <1>4, <1>5, <1>7, NobodyInLine
  <2>3. Units(osem') = TxN - u - 1
    BY <1>4, <1>5, <2>2, RingSizes, UnitsAre
  <2>4. /\ u \in 0 .. TxN-1 /\ d \in 0 .. u /\ txTail = SlotAt(txHead, u, TxN)
        /\ txDma = SlotAt(txHead, d, TxN) /\ txTail \in 0 .. TxN-1
        /\ \A k \in 0 .. TxN-1 : txRing[SlotAt(txHead, k, TxN)].own <=> (d <= k /\ k < u)
        /\ u < TxN /\ "TI" \notin handling \cup sr => d = 0
    BY <1>2, <1>3, <2>2, RingSizes, SlotAtIs DEF TxShape
  <2>5. txTail' = SlotAt(txHead, u + 1, TxN)
    <3>1. 1 \in 0 .. TxN /\ u \in 0 .. TxN
      BY <2>2, <2>4, RingSizes
    <3>2. (txTail + 1) % TxN = SlotAt(txTail, 1, TxN)
      BY <2>4, <3>1, RingSizes, SlotAtIs
    <3>3. SlotAt(txTail, 1, TxN) = SlotAt(txHead, u + 1, TxN)
      <4>1. SlotAt(SlotAt(txHead, u, TxN), 1, TxN)
                = IF u + 1 <= TxN THEN SlotAt(txHead, u + 1, TxN) ELSE SlotAt(txHead, u + 1 - TxN, TxN)
        BY <1>2, <3>1, RingSizes, SlotSteps
      <4> QED BY <2>2, <2>4, <4>1, RingSizes
    <3> QED BY <1>7, <3>2, <3>3
  <2>6. ASSUME NEW k \in 0 .. TxN-1
        PROVE  txRing'[SlotAt(txHead, k, TxN)].own <=> (d <= k /\ k < u + 1)
    <3>1. SlotAt(txHead, k, TxN) \in 0 .. TxN-1
      BY <1>2, RingSizes, SlotAtIs
    <3>2. CASE k = u
      BY <1>2, <1>7, <2>4, <3>1, <3>2
    <3>3. CASE k # u
      <4>1. SlotAt(txHead, k, TxN) # txTail
        BY <1>2, <2>4, <3>3, RingSizes, SlotSteps
      <4>2. txRing'[SlotAt(txHead, k, TxN)] = txRing[SlotAt(txHead, k, TxN)]
        BY <1>2, <1>7, <3>1, <4>1
      <4> QED BY <2>4, <3>3, <4>2
    <3> QED BY <3>2, <3>3
  <2>7. TxShape(u + 1, d)'
    <3>1. u + 1 \in 0 .. TxN /\ d \in 0 .. u + 1 /\ Units(osem') + (u + 1) = TxN
      BY <2>3, <2>4, RingSizes
    <3>2. /\ txHead' = txHead /\ txDma' = txDma
          /\ handling' = handling /\ sr' = sr
      BY <1>1 DEF intvars
    <3>3. /\ txTail' = SlotAt(txHead', u + 1, TxN) /\ txDma' = SlotAt(txHead', d, TxN)
      BY <2>4, <2>5, <3>2
    <3>5. "TI" \notin handling' \cup sr' => d = 0
      <4>1. u < TxN
        BY <2>2
      <4>2. "TI" \notin handling \cup sr => d = 0
        BY <1>3, <4>1 DEF TxShape
      <4> QED BY <3>2, <4>2
    <3>4. \A k \in 0 .. TxN-1 :
             txRing'[SlotAt(txHead', k, TxN)].own <=> (d <= k /\ k < u + 1)
      BY <2>6, <3>2
    <3> QED BY <3>1, <3>3, <3>4, <3>5 DEF TxShape
  <2>8. txRing' \in [0 .. TxN-1 -> [own : BOOLEAN, load : Load \cup {Noload}]]
    BY <1>2, <1>7, <2>4
  <2>9. TxOK'
    <3>1. u + 1 \in Nat
      OBVIOUS
    <3> QED BY <1>1, <1>2, <1>5, <2>1, <2>2, <2>7, <2>8, <3>1 DEF TxOK
  <2>10. RxOK'
    BY <1>1, <1>2, <2>1, RxStays DEF rxvars, intvars
  <2> QED BY <1>1, <1>2, <1>7, <2>9, <2>10 DEF EtherInv, mcvars
<1> QED BY <1>1, <1>6, <1>7

\* The device sends the frame of its slot.
LEMMA TxDmaKeeps ==
    ASSUME EtherInv, TxDma
    PROVE  EtherInv'
<1>1. /\ txRing[txDma].own
      /\ txRing' = [txRing EXCEPT ![txDma] = [own |-> FALSE, load |-> Noload]]
      /\ txDma'  = (txDma + 1) % TxN
      /\ sr'     = sr \cup {"TI"}
      /\ UNCHANGED <<txHead, txTail, osem, rxvars, rxDma, handling, mcvars, ethcall, ethgot>>
  BY DEF TxDma
<1>2. /\ TxOK /\ RxOK /\ txHead \in 0 .. TxN-1
      /\ txRing \in [0 .. TxN-1 -> [own : BOOLEAN, load : Load \cup {Noload}]]
  BY DEF EtherInv, TxOK
<1>3. PICK u, d \in Nat : TxShape(u, d)
  BY <1>2 DEF TxOK
<1>4. /\ u \in 0 .. TxN /\ d \in 0 .. u /\ txDma = SlotAt(txHead, d, TxN)
      /\ \A k \in 0 .. TxN-1 : txRing[SlotAt(txHead, k, TxN)].own <=> (d <= k /\ k < u)
  BY <1>3 DEF TxShape
<1>12. d \in 0 .. TxN /\ txDma \in 0 .. TxN-1
  <2>1. d \in 0 .. TxN
    BY <1>4, RingSizes
  <2> QED BY <1>2, <1>4, <2>1, RingSizes, SlotAtIs
<1>5. d < u /\ d \in 0 .. TxN-1
  <2>0. u \in 0 .. TxN /\ d \in 0 .. TxN /\ d <= u
    BY <1>4, <1>12
  <2>1. CASE d < TxN
    <3>1. d \in 0 .. TxN-1
      BY <2>0, <2>1, RingSizes
    <3> QED BY <1>1, <1>4, <3>1
  <2>2. CASE d = TxN
    <3>1. 0 \in 0 .. TxN-1 /\ SlotAt(txHead, 0, TxN) = txHead /\ txDma = txHead
      BY <1>2, <1>4, <2>2, RingSizes, SlotSteps
    <3>2. d <= 0
      BY <1>1, <1>4, <3>1
    <3> QED BY <2>2, <3>2, RingSizes
  <2> QED BY <2>0, <2>1, <2>2, RingSizes
<1>6. txDma' = SlotAt(txHead, d + 1, TxN)
  <2>1. 1 \in 0 .. TxN
    BY RingSizes
  <2>2. (txDma + 1) % TxN = SlotAt(txDma, 1, TxN)
    BY <1>12, <2>1, RingSizes, SlotAtIs
  <2>3. SlotAt(SlotAt(txHead, d, TxN), 1, TxN)
            = IF d + 1 <= TxN THEN SlotAt(txHead, d + 1, TxN) ELSE SlotAt(txHead, d + 1 - TxN, TxN)
    BY <1>2, <1>12, <2>1, RingSizes, SlotSteps
  <2> QED BY <1>1, <1>4, <1>5, <2>2, <2>3, RingSizes
<1>7. ASSUME NEW k \in 0 .. TxN-1
      PROVE  txRing'[SlotAt(txHead, k, TxN)].own <=> (d + 1 <= k /\ k < u)
  <2>1. SlotAt(txHead, k, TxN) \in 0 .. TxN-1
    BY <1>2, RingSizes, SlotAtIs
  <2>2. CASE k = d
    BY <1>1, <1>2, <1>4, <2>1, <2>2
  <2>3. CASE k # d
    <3>1. SlotAt(txHead, k, TxN) # txDma
      BY <1>2, <1>4, <1>5, <2>3, RingSizes, SlotSteps
    <3>2. txRing'[SlotAt(txHead, k, TxN)] = txRing[SlotAt(txHead, k, TxN)]
      BY <1>1, <1>2, <2>1, <3>1
    <3> QED BY <1>4, <2>3, <3>2
  <2> QED BY <2>2, <2>3
<1>8. TxShape(u, d + 1)'
  <2>1. d + 1 \in 0 .. u
    BY <1>4, <1>5
  <2>2. "TI" \in sr'
    BY <1>1
  <2> QED BY <1>1, <1>3, <1>6, <1>7, <2>1, <2>2 DEF TxShape
<1>9. Writers' = Writers /\ Readers' = Readers
  BY <1>1 DEF Writers, Readers
<1>10. TxOK'
  <2>1. txRing' \in [0 .. TxN-1 -> [own : BOOLEAN, load : Load \cup {Noload}]]
    BY <1>1, <1>2, <1>12
  <2>2. d + 1 \in Nat
    OBVIOUS
  <2> QED BY <1>1, <1>2, <1>8, <1>9, <2>1, <2>2 DEF TxOK
<1>11. RxOK'
  BY <1>1, <1>2, <1>9, RxStays DEF rxvars
<1> QED BY <1>1, <1>10, <1>11 DEF EtherInv, mcvars

\* The handler finds the slots that the DMA has done with.
LEMMA TxDoneIs ==
    ASSUME TxOK, NEW u \in Nat, NEW d \in Nat, TxShape(u, d)
    PROVE  TxDone = IF u < TxN THEN d ELSE 0
<1>1. /\ u \in 0 .. TxN /\ d \in 0 .. u /\ txTail = SlotAt(txHead, u, TxN)
      /\ txHead \in 0 .. TxN-1
      /\ \A k \in 0 .. TxN-1 : txRing[SlotAt(txHead, k, TxN)].own <=> (d <= k /\ k < u)
  BY DEF TxShape, TxOK
<1>2. (txTail - txHead) % TxN = IF u < TxN THEN u ELSE 0
  BY <1>1, RingSizes, SlotDistance
<1> DEFINE P(used, n) == /\ \A k \in 0 .. n-1 : ~txRing[(txHead + k) % TxN].own
                         /\ n < used => txRing[(txHead + n) % TxN].own
<1>3. CASE u = TxN
  <2>1. TxDone = CHOOSE n \in 0 .. 0 : P(0, n)
    BY <1>2, <1>3 DEF TxDone
  <2>2. P(0, 0)
    OBVIOUS
  <2>3. \A n \in 0 .. 0 : n = 0
    OBVIOUS
  <2> HIDE DEF P
  <2>4. TxDone \in 0 .. 0
    <3>1. 0 \in 0 .. 0
      OBVIOUS
    <3> QED BY <2>1, <2>2, <3>1
  <2> QED BY <1>3, <2>3, <2>4, RingSizes
<1>4. CASE u < TxN
  <2>1. TxDone = CHOOSE n \in 0 .. u : P(u, n)
    BY <1>2, <1>4 DEF TxDone
  <2>2. ASSUME NEW k \in 0 .. u
        PROVE  /\ k \in 0 .. TxN-1
               /\ txRing[(txHead + k) % TxN].own <=> (d <= k /\ k < u)
    <3>1. k \in 0 .. TxN-1 /\ k \in 0 .. TxN
      BY <1>1, <1>4, RingSizes
    <3>2. (txHead + k) % TxN = SlotAt(txHead, k, TxN)
      BY <1>1, <3>1, RingSizes, SlotAtIs
    <3> QED BY <1>1, <3>1, <3>2
  <2>3. d \in 0 .. u /\ u \in Nat
    BY <1>1
  <2>4. P(u, d)
    BY <2>2, <2>3
  <2>5. ASSUME NEW n \in 0 .. u, P(u, n) PROVE n = d
    <3>1. CASE n < d
      BY <2>2, <2>3, <2>5, <3>1
    <3>2. CASE n > d
      <4>1. d \in 0 .. n-1 /\ d < u
        BY <2>3, <3>2
      <4> QED BY <2>2, <2>3, <2>5, <4>1
    <3> QED BY <2>3, <3>1, <3>2
  <2> HIDE DEF P
  <2> QED BY <1>4, <2>1, <2>3, <2>4, <2>5
<1> QED BY <1>1, <1>3, <1>4, RingSizes

\* What signaln does: the first in line go.
LEMMA SignalnOK ==
    ASSUME NEW P, NEW s, SemOK(s, P), NEW n \in Nat
    PROVE  /\ SemOK(Signaln(s, n), P)
           /\ Signaln(s, n).count = s.count + n
           /\ InLine(Signaln(s, n)) \subseteq InLine(s)
           /\ n = 0 => InLine(Signaln(s, n)) = InLine(s)
<1> DEFINE w == Signaln(s, n)
<1>1. /\ w = [count |-> w.count, line |-> w.line] /\ w.count = s.count + n
      /\ w.line = SubSeq(s.line, n + 1, Len(s.line))
  BY DEF Signaln
<1>2. /\ s.count \in Int /\ s.line \in Queue(P) /\ s.line \in Seq(P) /\ Len(s.line) \in Nat
      /\ s.count >= 0 => s.line = <<>>
      /\ s.count < 0  => Len(s.line) + s.count = 0
  BY DEF SemOK, Queue
<1>3. CASE n <= Len(s.line)
  <2>1. n \in 0 .. Len(s.line) /\ n + 1 = 1 + n
    BY <1>2, <1>3
  <2>2. /\ w.line \in Queue(P) /\ Len(w.line) = Len(s.line) - n
        /\ Range(w.line) \subseteq Range(s.line)
    <3>1. PICK q \in Queue(P) : q = s.line
      BY <1>2
    <3>2. n \in 0 .. Len(q)
      BY <2>1, <3>1
    <3>3. /\ SubSeq(q, 1 + n, Len(q)) \in Queue(P)
          /\ Len(SubSeq(q, 1 + n, Len(q))) = Len(q) - n
          /\ Range(SubSeq(q, 1 + n, Len(q))) \subseteq Range(q)
      BY <3>2, SubSeqQueue
    <3>4. w.line = SubSeq(q, 1 + n, Len(q))
      BY <1>1, <2>1, <3>1
    <3> QED BY <3>1, <3>3, <3>4
  <2>3. w.count >= 0 => w.line = <<>>
    <3> SUFFICES ASSUME w.count >= 0 PROVE w.line = <<>>
      OBVIOUS
    <3>1. Len(w.line) = 0
      <4>1. CASE s.count >= 0
        <5>1. Len(s.line) = 0
          BY <1>2, <4>1
        <5> QED BY <1>2, <2>1, <2>2, <5>1
      <4>2. CASE s.count < 0
        BY <1>1, <1>2, <2>1, <2>2, <4>2
      <4> QED BY <1>2, <4>1, <4>2
    <3>2. w.line \in Seq(P)
      BY <2>2 DEF Queue
    <3> QED BY <3>1, <3>2
  <2>4. w.count < 0 => Len(w.line) + w.count = 0
    BY <1>1, <1>2, <2>1, <2>2
  <2>5. n = 0 => w.line = s.line
    <3> SUFFICES ASSUME n = 0 PROVE w.line = s.line
      OBVIOUS
    <3>1. w.line = SubSeq(s.line, 1, Len(s.line))
      BY <1>1
    <3> QED BY <1>2, <3>1
  <2>6. SemOK(w, P)
    <3> HIDE DEF w
    <3>1. w.count \in Int
      BY <1>1, <1>2
    <3> QED BY <1>1, <2>2, <2>3, <2>4, <3>1 DEF SemOK
  <2>7. InLine(w) \subseteq InLine(s) /\ (n = 0 => InLine(w) = InLine(s))
    <3> HIDE DEF w
    <3> QED BY <2>2, <2>5 DEF InLine
  <2> QED BY <1>1, <2>6, <2>7
<1>4. CASE n > Len(s.line)
  <2>1. w.line = <<>>
    BY <1>1, <1>2, <1>4
  <2>2. w.count >= 0
    BY <1>1, <1>2, <1>4
  <2>3. <<>> \in Queue(P) /\ Range(<<>>) = {}
    BY EmptyQueue
  <2>4. n # 0
    BY <1>2, <1>4
  <2>5. SemOK(w, P)
    <3> HIDE DEF w
    <3>1. w.count \in Int
      BY <1>1, <1>2
    <3>2. w.line \in Queue(P)
      BY <2>1, <2>3
    <3>3. ~(w.count < 0)
      BY <2>2, <3>1
    <3> QED BY <1>1, <2>1, <3>1, <3>2, <3>3 DEF SemOK
  <2>6. InLine(w) = {}
    <3> HIDE DEF w
    <3> QED BY <2>1, <2>3 DEF InLine
  <2> QED BY <1>1, <2>4, <2>5, <2>6
<1> QED BY <1>2, <1>3, <1>4

\* The handler gives the slots back that have been sent.
LEMMA TxScanKeeps ==
    ASSUME EtherInv, TxScan
    PROVE  EtherInv'
<1>1. /\ txHead' = (txHead + TxDone) % TxN
      /\ osem' = Signaln(osem, TxDone)
      /\ handling' = handling \ {"TI"}
      /\ UNCHANGED <<txRing, txTail, rxvars, txDma, rxDma, sr, mcvars, ethcall, ethgot, wire>>
  BY DEF TxScan
<1>2. /\ TxOK /\ RxOK /\ txHead \in 0 .. TxN-1 /\ SemOK(osem, EthProc)
      /\ InLine(osem) = Writers
      /\ txRing \in [0 .. TxN-1 -> [own : BOOLEAN, load : Load \cup {Noload}]]
  BY DEF EtherInv, TxOK
<1>3. PICK u, d \in Nat : TxShape(u, d)
  BY <1>2 DEF TxOK
<1>4. /\ u \in 0 .. TxN /\ d \in 0 .. u /\ Units(osem) + u = TxN
      /\ txTail = SlotAt(txHead, u, TxN) /\ txDma = SlotAt(txHead, d, TxN)
      /\ \A k \in 0 .. TxN-1 : txRing[SlotAt(txHead, k, TxN)].own <=> (d <= k /\ k < u)
  BY <1>3 DEF TxShape
<1>5. /\ osem.count \in Int
      /\ osem.count > 0 => u < TxN /\ osem.count = TxN - u
      /\ osem.count <= 0 => u = TxN
  BY <1>2, <1>3, TxUnits
<1>6. Writers' = Writers /\ Readers' = Readers
  BY <1>1 DEF Writers, Readers
<1>7. TxOK'
  <2>1. CASE u = TxN
    <3>1. TxDone = 0
      BY <1>2, <1>3, <2>1, RingSizes, TxDoneIs
    <3>2. txHead' = txHead
      <4>1. 0 \in 0 .. TxN
        BY RingSizes
      <4>2. (txHead + 0) % TxN = SlotAt(txHead, 0, TxN)
        BY <1>2, <4>1, RingSizes, SlotAtIs
      <4> QED BY <1>1, <1>2, <3>1, <4>2, RingSizes, SlotSteps
    <3>3. /\ SemOK(osem', EthProc) /\ InLine(osem') = InLine(osem) /\ osem'.count = osem.count
      <4>1. 0 \in Nat /\ osem' = Signaln(osem, 0)
        BY <1>1, <3>1
      <4>2. /\ SemOK(Signaln(osem, 0), EthProc) /\ Signaln(osem, 0).count = osem.count + 0
            /\ InLine(Signaln(osem, 0)) = InLine(osem)
        BY <1>2, <4>1, SignalnOK
      <4> QED BY <1>5, <4>1, <4>2
    <3>4. Units(osem') = Units(osem)
      BY <1>2, <1>5, <3>3, UnitsAre
    <3>5. TxShape(u, d)'
      BY <1>1, <1>4, <2>1, <3>2, <3>4 DEF TxShape
    <3> QED BY <1>1, <1>2, <1>6, <3>2, <3>3, <3>5 DEF TxOK
  <2>2. CASE u < TxN
    <3>1. TxDone = d
      BY <1>2, <1>3, <2>2, TxDoneIs
    <3>2. d \in 0 .. TxN /\ d < TxN /\ u - d \in 0 .. TxN /\ u - d \in Nat
      BY <1>4, <2>2, RingSizes
    <3>3. txHead' = txDma /\ txDma \in 0 .. TxN-1
      BY <1>1, <1>2, <1>4, <3>1, <3>2, RingSizes, SlotAtIs
    <3>4. osem.count > 0 /\ osem.count = TxN - u
      BY <1>5, <2>2, RingSizes
    <3>5. /\ SemOK(osem', EthProc) /\ osem'.count = osem.count + d
          /\ InLine(osem') \subseteq InLine(osem)
      <4>1. d \in Nat /\ osem' = Signaln(osem, d)
        BY <1>1, <3>1
      <4>2. /\ SemOK(Signaln(osem, d), EthProc) /\ Signaln(osem, d).count = osem.count + d
            /\ InLine(Signaln(osem, d)) \subseteq InLine(osem)
        BY <1>2, <4>1, SignalnOK
      <4> QED BY <4>1, <4>2
    <3>6. InLine(osem') = Writers'
      <4>1. InLine(osem) = {}
        <5>1. osem.count >= 0
          BY <3>4, <1>5
        <5> QED BY <1>2, <5>1, NobodyInLine
      <4> QED BY <1>2, <1>6, <3>5, <4>1
    <3>7. Units(osem') + (u - d) = TxN
      <4>1. osem'.count > 0
        BY <1>4, <3>2, <3>4, <3>5, RingSizes
      <4>2. Units(osem') = osem'.count
        BY <3>5, <4>1, UnitsAre
      <4> QED BY <3>2, <3>4, <3>5, <4>2, RingSizes
    <3>8. ASSUME NEW k \in 0 .. TxN
          PROVE  SlotAt(txHead', k, TxN)
                     = IF d + k <= TxN THEN SlotAt(txHead, d + k, TxN)
                                       ELSE SlotAt(txHead, d + k - TxN, TxN)
      <4>1. SlotAt(SlotAt(txHead, d, TxN), k, TxN)
                = IF d + k <= TxN THEN SlotAt(txHead, d + k, TxN)
                                  ELSE SlotAt(txHead, d + k - TxN, TxN)
        BY <1>2, <3>2, RingSizes, SlotSteps
      <4>2. txHead' = SlotAt(txHead, d, TxN)
        BY <1>4, <3>3
      <4> QED BY <4>1, <4>2
    <3>9. ASSUME NEW k \in 0 .. TxN-1
          PROVE  txRing[SlotAt(txHead', k, TxN)].own <=> k < u - d
      <4>1. CASE d + k < TxN
        <5>1. d + k \in 0 .. TxN-1 /\ SlotAt(txHead', k, TxN) = SlotAt(txHead, d + k, TxN)
          BY <3>2, <3>8, <4>1, RingSizes
        <5>2. (d <= d + k /\ d + k < u) <=> k < u - d
          BY <3>2
        <5> QED BY <1>4, <5>1, <5>2
      <4>2. CASE d + k >= TxN
        <5>1. d + k - TxN \in 0 .. TxN-1 /\ d + k - TxN < d
          BY <3>2, <4>2, RingSizes
        <5>2. SlotAt(txHead', k, TxN) = SlotAt(txHead, d + k - TxN, TxN)
          <6>1. k \in 0 .. TxN
            BY RingSizes
          <6>2. CASE d + k = TxN
            <7>1. SlotAt(txHead, TxN, TxN) = SlotAt(txHead, 0, TxN)
              BY <1>2, RingSizes, SlotSteps
            <7> QED BY <3>2, <3>8, <6>1, <6>2, <7>1, RingSizes
          <6>3. CASE d + k > TxN
            BY <3>2, <3>8, <6>1, <6>3, RingSizes
          <6> QED BY <3>2, <4>2, <6>2, <6>3, RingSizes
        <5>3. ~(k < u - d)
          BY <1>4, <3>2, <4>2, RingSizes
        <5> QED BY <1>4, <5>1, <5>2, <5>3
      <4> QED BY <3>2, <4>1, <4>2, RingSizes
    <3>10. txTail = SlotAt(txHead', u - d, TxN)
      <4>1. d + (u - d) = u
        BY <3>2
      <4> QED BY <1>4, <2>2, <3>2, <3>8, <4>1, RingSizes
    <3>11. txDma = SlotAt(txHead', 0, TxN)
      BY <3>3, RingSizes, SlotSteps
    <3>12. TxShape(u - d, 0)'
      <4>1. \A k \in 0 .. TxN-1 :
               txRing[SlotAt(txHead', k, TxN)].own <=> (0 <= k /\ k < u - d)
        BY <3>9
      <4> QED BY <1>1, <3>2, <3>7, <3>10, <3>11, <4>1 DEF TxShape
    <3> QED BY <1>1, <1>2, <3>2, <3>3, <3>5, <3>6, <3>12 DEF TxOK
  <2> QED BY <1>4, <2>1, <2>2, RingSizes
<1>8. RxOK'
  BY <1>1, <1>2, <1>6, RxStays DEF rxvars
<1> QED BY <1>1, <1>7, <1>8 DEF EtherInv, mcvars

\* A frame comes in, in a slot that is not the last.
LEMMA RxDmaKeeps ==
    ASSUME EthOK, EtherInv, NEW dst \in Address, RxDma(dst)
    PROVE  EtherInv'
<1>1. /\ rxRing[rxDma].own
      /\ \E i \in DOMAIN rxRing : i # rxDma /\ rxRing[i].own
      /\ rxRing' = [rxRing EXCEPT ![rxDma] = [own |-> FALSE, dst |-> dst]]
      /\ rxDma'  = (rxDma + 1) % RxN
      /\ sr'     = sr \cup {"RI"}
      /\ UNCHANGED <<rxHead, rxTail, isem, txvars, txDma, handling, mcvars, ethcall, ethgot>>
  BY DEF RxDma, EthOK
<1>2. /\ TxOK /\ RxOK /\ rxHead \in 0 .. RxN-1
      /\ rxRing \in [0 .. RxN-1 -> [own : BOOLEAN, dst : Address \cup {Noload}]]
  BY DEF EtherInv, RxOK
<1>3. PICK a, b \in Nat : RxShape(a, b)
  BY <1>2 DEF RxOK
<1>4. /\ b \in 0 .. RxN-1 /\ a \in 0 .. b /\ rxDma = SlotAt(rxHead, b, RxN)
      /\ \A k \in 0 .. RxN-1 : rxRing[SlotAt(rxHead, k, RxN)].own <=> b <= k
  BY <1>3 DEF RxShape
<1>5. b \in 0 .. RxN /\ rxDma \in 0 .. RxN-1
  <2>1. b \in 0 .. RxN
    BY <1>4, RingSizes
  <2> QED BY <1>2, <1>4, <2>1, RingSizes, SlotAtIs
<1>6. b + 1 \in 0 .. RxN-1
  <2>1. PICK i \in 0 .. RxN-1 : i # rxDma /\ rxRing[i].own
    BY <1>1, <1>2
  <2>2. PICK k \in 0 .. RxN-1 : SlotAt(rxHead, k, RxN) = i
    BY <1>2, RingSizes, SlotSteps
  <2>3. k # b /\ b <= k
    BY <1>4, <2>1, <2>2
  <2> QED BY <1>4, <2>2, <2>3, RingSizes
<1>7. rxDma' = SlotAt(rxHead, b + 1, RxN)
  <2>1. 1 \in 0 .. RxN
    BY RingSizes
  <2>2. (rxDma + 1) % RxN = SlotAt(rxDma, 1, RxN)
    BY <1>5, <2>1, RingSizes, SlotAtIs
  <2>3. SlotAt(SlotAt(rxHead, b, RxN), 1, RxN)
            = IF b + 1 <= RxN THEN SlotAt(rxHead, b + 1, RxN) ELSE SlotAt(rxHead, b + 1 - RxN, RxN)
    BY <1>2, <1>5, <2>1, RingSizes, SlotSteps
  <2> QED BY <1>1, <1>4, <1>6, <2>2, <2>3, RingSizes
<1>8. ASSUME NEW k \in 0 .. RxN-1
      PROVE  rxRing'[SlotAt(rxHead, k, RxN)].own <=> b + 1 <= k
  <2>1. k \in 0 .. RxN
    BY RingSizes
  <2>2. SlotAt(rxHead, k, RxN) \in 0 .. RxN-1
    BY <1>2, <2>1, RingSizes, SlotAtIs
  <2>3. CASE k = b
    BY <1>1, <1>2, <1>4, <2>2, <2>3
  <2>4. CASE k # b
    <3>1. SlotAt(rxHead, k, RxN) # rxDma
      BY <1>2, <1>4, <2>4, RingSizes, SlotSteps
    <3>2. rxRing'[SlotAt(rxHead, k, RxN)] = rxRing[SlotAt(rxHead, k, RxN)]
      BY <1>1, <1>2, <2>2, <3>1
    <3> QED BY <1>4, <2>4, <3>2
  <2> QED BY <2>3, <2>4
<1>9. Readers' = Readers /\ Writers' = Writers
  BY <1>1 DEF Readers, Writers
<1>10. RxShape(a, b + 1)'
  <2>1. a \in 0 .. b + 1
    BY <1>4
  <2>2. "RI" \in sr'
    BY <1>1
  <2> QED BY <1>1, <1>3, <1>6, <1>7, <1>8, <1>9, <2>1, <2>2 DEF RxShape
<1>11. RxOK'
  <2>1. rxRing' \in [0 .. RxN-1 -> [own : BOOLEAN, dst : Address \cup {Noload}]]
    BY <1>1, <1>2, <1>5
  <2>2. b + 1 \in Nat
    OBVIOUS
  <2> QED BY <1>1, <1>2, <1>9, <1>10, <2>1, <2>2 DEF RxOK
<1>12. TxOK'
  BY <1>1, <1>2, <1>9, TxStays DEF txvars
<1> QED BY <1>1, <1>11, <1>12 DEF EtherInv, mcvars

\* The handler finds the frames that it has not seen.
LEMMA RxDoneIs ==
    ASSUME RxOK, NEW a \in Nat, NEW b \in Nat, RxShape(a, b)
    PROVE  RxDone = b - a
<1>1. /\ b \in 0 .. RxN-1 /\ a \in 0 .. b /\ rxTail = SlotAt(rxHead, a, RxN)
      /\ \A k \in 0 .. RxN-1 : rxRing[SlotAt(rxHead, k, RxN)].own <=> b <= k
      /\ rxHead \in 0 .. RxN-1
      /\ rxRing \in [0 .. RxN-1 -> [own : BOOLEAN, dst : Address \cup {Noload}]]
  BY DEF RxShape, RxOK
<1>2. a \in 0 .. RxN /\ b \in 0 .. RxN /\ rxTail \in 0 .. RxN-1
  <2>1. a \in 0 .. RxN /\ b \in 0 .. RxN
    BY <1>1, RingSizes
  <2> QED BY <1>1, <2>1, RingSizes, SlotAtIs
<1> DEFINE P(n) == /\ \A k \in 0 .. n-1 : ~rxRing[(rxTail + k) % RxN].own
                   /\ rxRing[(rxTail + n) % RxN].own
<1>3. RxDone = CHOOSE n \in 0 .. RxN : P(n)
  <2>1. SlotAt(rxHead, b, RxN) \in DOMAIN rxRing /\ rxRing[SlotAt(rxHead, b, RxN)].own
    BY <1>1, <1>2, RingSizes, SlotAtIs
  <2> QED BY <2>1 DEF RxDone
<1>4. ASSUME NEW k \in 0 .. RxN, a + k < RxN
      PROVE  rxRing[(rxTail + k) % RxN].own <=> b <= a + k
  <2>1. (rxTail + k) % RxN = SlotAt(rxTail, k, RxN)
    BY <1>2, RingSizes, SlotAtIs
  <2>2. SlotAt(SlotAt(rxHead, a, RxN), k, RxN)
            = IF a + k <= RxN THEN SlotAt(rxHead, a + k, RxN) ELSE SlotAt(rxHead, a + k - RxN, RxN)
    <3>1. rxHead \in 0 .. RxN-1 /\ a \in 0 .. RxN
      BY <1>1, <1>2
    <3> QED BY <3>1, RingSizes, SlotSteps
  <2>3. a + k \in 0 .. RxN-1 /\ a + k <= RxN
    BY <1>2, <1>4, RingSizes
  <2> QED BY <1>1, <2>1, <2>2, <2>3
<1>5. b - a \in 0 .. RxN /\ P(b - a)
  <2>1. b - a \in 0 .. RxN /\ a + (b - a) < RxN /\ b <= a + (b - a)
    BY <1>1, <1>2, RingSizes
  <2>2. rxRing[(rxTail + (b - a)) % RxN].own
    BY <1>4, <2>1
  <2>3. ASSUME NEW k \in 0 .. (b - a) - 1 PROVE ~rxRing[(rxTail + k) % RxN].own
    <3>1. k \in 0 .. RxN /\ a + k < RxN /\ ~(b <= a + k)
      BY <1>1, <1>2, <2>3, RingSizes
    <3> QED BY <1>4, <3>1
  <2> QED BY <2>1, <2>2, <2>3
<1>6. ASSUME NEW n \in 0 .. RxN, P(n) PROVE n = b - a
  <2>1. CASE n < b - a
    <3>1. a + n < RxN /\ ~(b <= a + n)
      BY <1>1, <1>2, <2>1, RingSizes
    <3> QED BY <1>4, <1>6, <3>1
  <2>2. CASE n > b - a
    <3>1. b - a \in 0 .. n-1
      BY <1>1, <1>2, <2>2
    <3>2. a + (b - a) < RxN /\ b <= a + (b - a)
      BY <1>1, <1>2, RingSizes
    <3>3. rxRing[(rxTail + (b - a)) % RxN].own
      BY <1>4, <1>5, <3>2
    <3> QED BY <1>6, <3>1, <3>3
  <2> QED BY <1>1, <1>2, <2>1, <2>2
<1> HIDE DEF P
<1> QED BY <1>3, <1>5, <1>6

\* The handler counts the frames that have come.
LEMMA RxScanKeeps ==
    ASSUME EtherInv, RxScan
    PROVE  EtherInv'
<1>1. /\ handling = {"RI"} /\ handling' = {}
      /\ rxTail' = (rxTail + RxDone) % RxN
      /\ isem'   = Signaln(isem, RxDone)
      /\ UNCHANGED <<rxRing, rxHead, txvars, txDma, rxDma, sr, mcvars, ethcall, ethgot>>
  BY DEF RxScan
<1>2. /\ TxOK /\ RxOK /\ rxHead \in 0 .. RxN-1 /\ SemOK(isem, EthProc)
      /\ InLine(isem) \subseteq Readers /\ isem.count \in Int
  BY DEF EtherInv, RxOK, SemOK
<1>3. PICK a, b \in Nat : RxShape(a, b)
  BY <1>2 DEF RxOK
<1>4. /\ b \in 0 .. RxN-1 /\ a \in 0 .. b /\ rxTail = SlotAt(rxHead, a, RxN)
      /\ isem.count + Cardinality(Readers) = a
  BY <1>3 DEF RxShape
<1>5. RxDone = b - a
  BY <1>2, <1>3, RxDoneIs
<1>6. b - a \in Nat /\ b - a \in 0 .. RxN /\ a \in 0 .. RxN
  BY <1>4, RingSizes
<1>7. rxTail' = SlotAt(rxHead, b, RxN)
  <2>1. rxTail \in 0 .. RxN-1
    BY <1>2, <1>4, <1>6, RingSizes, SlotAtIs
  <2>2. (rxTail + (b - a)) % RxN = SlotAt(rxTail, b - a, RxN)
    BY <1>6, <2>1, RingSizes, SlotAtIs
  <2>3. SlotAt(SlotAt(rxHead, a, RxN), b - a, RxN)
            = IF a + (b - a) <= RxN THEN SlotAt(rxHead, a + (b - a), RxN)
                                    ELSE SlotAt(rxHead, a + (b - a) - RxN, RxN)
    <3>1. PICK n \in 0 .. RxN : n = b - a
      BY <1>6
    <3>2. SlotAt(SlotAt(rxHead, a, RxN), n, RxN)
              = IF a + n <= RxN THEN SlotAt(rxHead, a + n, RxN) ELSE SlotAt(rxHead, a + n - RxN, RxN)
      BY <1>2, <1>6, RingSizes, SlotSteps
    <3> QED BY <3>1, <3>2
  <2>4. a + (b - a) = b /\ b <= RxN
    BY <1>4, RingSizes
  <2> QED BY <1>1, <1>4, <1>5, <2>2, <2>3, <2>4
<1>8. /\ SemOK(isem', EthProc) /\ isem'.count = isem.count + (b - a)
      /\ InLine(isem') \subseteq InLine(isem)
  <2>1. PICK n \in Nat : n = b - a
    BY <1>6
  <2>2. isem' = Signaln(isem, n)
    BY <1>1, <1>5, <2>1
  <2>3. /\ SemOK(Signaln(isem, n), EthProc) /\ Signaln(isem, n).count = isem.count + n
        /\ InLine(Signaln(isem, n)) \subseteq InLine(isem)
    BY <1>2, SignalnOK
  <2> QED BY <2>1, <2>2, <2>3
<1>9. Readers' = Readers /\ Writers' = Writers
  BY <1>1 DEF Readers, Writers
<1>10. RxShape(b, b)'
  <2>1. isem'.count + Cardinality(Readers) = b
    <3>1. PICK c \in Int : c = isem.count
      BY <1>2
    <3>2. Readers \in SUBSET EthProc
      BY DEF Readers
    <3>3. Cardinality(Readers) \in Nat
      BY <3>2, RingSizes, FS_Subset, FS_CardinalityType
    <3> QED BY <1>4, <1>8, <3>1, <3>3
  <2>2. b \in 0 .. b
    BY <1>4
  <2> QED BY <1>1, <1>3, <1>4, <1>7, <1>9, <2>1, <2>2 DEF RxShape
<1>11. RxOK'
  BY <1>1, <1>2, <1>8, <1>9, <1>10 DEF RxOK
<1>12. TxOK'
  BY <1>1, <1>2, <1>9, TxStays DEF txvars
<1> QED BY <1>1, <1>11, <1>12 DEF EtherInv, mcvars

LEMMA ReadersFinite ==
    ASSUME NEW p
    PROVE  /\ IsFiniteSet(Readers) /\ Cardinality(Readers) \in Nat
           /\ IsFiniteSet(Readers \ {p}) /\ Cardinality(Readers \ {p}) \in Nat
           /\ Cardinality(Readers \cup {p}) = Cardinality(Readers \ {p}) + 1
<1>1. Readers \in SUBSET EthProc
  BY DEF Readers
<1>2. IsFiniteSet(Readers) /\ IsFiniteSet(Readers \ {p})
  BY <1>1, RingSizes, FS_Subset
<1>3. Readers \cup {p} = (Readers \ {p}) \cup {p} /\ p \notin Readers \ {p}
  OBVIOUS
<1>4. Cardinality((Readers \ {p}) \cup {p}) = Cardinality(Readers \ {p}) + 1
  BY <1>2, <1>3, FS_AddElement
<1> QED BY <1>2, <1>3, <1>4, FS_CardinalityType

\* The slots of the first n frames are the DMA's again.
LEMMA FramesGiven ==
    ASSUME RxOK, NEW a \in Nat, NEW b \in Nat, RxShape(a, b), NEW n \in 1 .. a,
           rxRing' = [i \in DOMAIN rxRing |->
                         IF i \in GivenBack(n) THEN [own |-> TRUE, dst |-> Noload] ELSE rxRing[i]],
           NEW k \in 0 .. RxN-1
    PROVE  rxRing'[SlotAt(rxHead, k, RxN)]
               = IF k < n THEN [own |-> TRUE, dst |-> Noload] ELSE rxRing[SlotAt(rxHead, k, RxN)]
<1>1. /\ b \in 0 .. RxN-1 /\ a \in 0 .. b /\ rxHead \in 0 .. RxN-1
      /\ rxRing \in [0 .. RxN-1 -> [own : BOOLEAN, dst : Address \cup {Noload}]]
  BY DEF RxShape, RxOK
<1>2. n < RxN /\ n >= 1
  BY <1>1, RingSizes
<1>3. ASSUME NEW j \in 0 .. RxN PROVE RxSlot(j) = SlotAt(rxHead, j, RxN)
  BY <1>1, RingSizes, SlotAtIs DEF RxSlot
<1>4. k \in 0 .. RxN /\ SlotAt(rxHead, k, RxN) \in DOMAIN rxRing
  <2>1. k \in 0 .. RxN
    BY RingSizes
  <2> QED BY <1>1, <2>1, RingSizes, SlotAtIs
<1>5. SlotAt(rxHead, k, RxN) \in GivenBack(n) <=> k < n
  <2>1. CASE k < n
    <3>1. k \in 0 .. n-1
      BY <2>1
    <3>2. RxSlot(k) \in GivenBack(n)
      BY <3>1 DEF GivenBack
    <3> QED BY <1>3, <1>4, <2>1, <3>2
  <2>2. CASE ~(k < n)
    <3>1. SUFFICES ASSUME NEW j \in 0 .. n-1, RxSlot(j) = SlotAt(rxHead, k, RxN)
                   PROVE  FALSE
      BY <2>2 DEF GivenBack
    <3>2. j \in 0 .. RxN-1 /\ j \in 0 .. RxN /\ j # k
      BY <1>2, <2>2, RingSizes
    <3>3. SlotAt(rxHead, j, RxN) = SlotAt(rxHead, k, RxN)
      BY <1>3, <3>1, <3>2
    <3> QED BY <1>1, <3>2, <3>3, RingSizes, SlotSteps
  <2> QED BY <2>1, <2>2
<1> QED BY <1>4, <1>5

\* The head moves on by n frames that were seen, and their slots are the DMA's
\* again.
LEMMA RxGoesOn ==
    ASSUME RxOK, NEW a \in Nat, NEW b \in Nat, RxShape(a, b), NEW n \in 1 .. a,
           rxHead' = RxSlot(n),
           rxRing' = [i \in DOMAIN rxRing |->
                         IF i \in GivenBack(n) THEN [own |-> TRUE, dst |-> Noload] ELSE rxRing[i]],
           isem'.count + Cardinality(Readers)' = a - n,
           UNCHANGED <<rxTail, rxDma, handling, sr>>,
           SemOK(isem', EthProc), InLine(isem') \subseteq Readers'
    PROVE  RxOK'
<1>1. /\ b \in 0 .. RxN-1 /\ a \in 0 .. b /\ rxHead \in 0 .. RxN-1
      /\ rxTail = SlotAt(rxHead, a, RxN) /\ rxDma = SlotAt(rxHead, b, RxN)
      /\ \A k \in 0 .. RxN-1 : rxRing[SlotAt(rxHead, k, RxN)].own <=> b <= k
      /\ "RI" \notin handling \cup sr => a = b
      /\ rxRing \in [0 .. RxN-1 -> [own : BOOLEAN, dst : Address \cup {Noload}]]
  BY DEF RxShape, RxOK
<1>2. n \in 0 .. RxN /\ a - n \in 0 .. RxN /\ b - n \in 0 .. RxN /\ n < RxN /\ n >= 1
  BY <1>1, RingSizes
<1>3. ASSUME NEW k \in 0 .. RxN PROVE RxSlot(k) = SlotAt(rxHead, k, RxN)
  BY <1>1, RingSizes, SlotAtIs DEF RxSlot
<1>4. rxHead' = SlotAt(rxHead, n, RxN) /\ rxHead' \in 0 .. RxN-1
  BY <1>1, <1>2, <1>3, RingSizes, SlotAtIs
<1>5. ASSUME NEW k \in 0 .. RxN
      PROVE  SlotAt(rxHead', k, RxN) = IF n + k <= RxN THEN SlotAt(rxHead, n + k, RxN)
                                                       ELSE SlotAt(rxHead, n + k - RxN, RxN)
  <2>1. rxHead \in 0 .. RxN-1 /\ n \in 0 .. RxN
    BY <1>1, <1>2
  <2>2. SlotAt(SlotAt(rxHead, n, RxN), k, RxN)
            = IF n + k <= RxN THEN SlotAt(rxHead, n + k, RxN) ELSE SlotAt(rxHead, n + k - RxN, RxN)
    BY <2>1, RingSizes DEF SlotAt
  <2> QED BY <1>4, <2>2
<1>6. ASSUME NEW k \in 0 .. RxN-1
      PROVE  rxRing'[SlotAt(rxHead, k, RxN)].own <=> (k < n \/ b <= k)
  <2>1. rxRing'[SlotAt(rxHead, k, RxN)]
            = IF k < n THEN [own |-> TRUE, dst |-> Noload] ELSE rxRing[SlotAt(rxHead, k, RxN)]
    BY FramesGiven
  <2>2. rxRing[SlotAt(rxHead, k, RxN)].own <=> b <= k
    BY <1>1
  <2> QED BY <2>1, <2>2
<1>7. ASSUME NEW k \in 0 .. RxN-1
      PROVE  rxRing'[SlotAt(rxHead', k, RxN)].own <=> b - n <= k
  <2>0. k \in 0 .. RxN
    BY RingSizes
  <2>1. CASE n + k < RxN
    <3>1. n + k \in 0 .. RxN-1 /\ SlotAt(rxHead', k, RxN) = SlotAt(rxHead, n + k, RxN)
      BY <1>2, <1>5, <2>0, <2>1, RingSizes
    <3>2. (n + k < n \/ b <= n + k) <=> b - n <= k
      BY <1>1, <1>2
    <3> QED BY <1>6, <3>1, <3>2
  <2>2. CASE n + k >= RxN
    <3>1. n + k - RxN \in 0 .. RxN-1 /\ n + k - RxN < n
      BY <1>2, <2>2, RingSizes
    <3>2. SlotAt(rxHead', k, RxN) = SlotAt(rxHead, n + k - RxN, RxN)
      <4>1. CASE n + k = RxN
        <5>1. SlotAt(rxHead, RxN, RxN) = SlotAt(rxHead, 0, RxN)
          BY <1>1, RingSizes, SlotSteps
        <5> QED BY <1>2, <1>5, <2>0, <4>1, <5>1, RingSizes
      <4>2. CASE n + k > RxN
        BY <1>2, <1>5, <2>0, <4>2, RingSizes
      <4> QED BY <1>2, <2>2, <4>1, <4>2, RingSizes
    <3>3. b - n <= k
      BY <1>1, <1>2, <2>2, RingSizes
    <3> QED BY <1>6, <3>1, <3>2, <3>3
  <2> QED BY <1>2, <2>1, <2>2, RingSizes
<1>8. rxTail' = SlotAt(rxHead', a - n, RxN) /\ rxDma' = SlotAt(rxHead', b - n, RxN)
  <2>1. /\ SlotAt(rxHead', a - n, RxN)
               = IF n + (a - n) <= RxN THEN SlotAt(rxHead, n + (a - n), RxN)
                                       ELSE SlotAt(rxHead, n + (a - n) - RxN, RxN)
        /\ SlotAt(rxHead', b - n, RxN)
               = IF n + (b - n) <= RxN THEN SlotAt(rxHead, n + (b - n), RxN)
                                       ELSE SlotAt(rxHead, n + (b - n) - RxN, RxN)
    BY <1>2, <1>5
  <2>2. n + (a - n) = a /\ n + (b - n) = b /\ a <= RxN /\ b <= RxN
    BY <1>1, <1>2, RingSizes
  <2> QED BY <1>1, <2>1, <2>2
<1>9. RxShape(a - n, b - n)'
  <2>1. b - n \in 0 .. RxN-1 /\ a - n \in 0 .. b - n
    BY <1>1, <1>2, RingSizes
  <2>2. "RI" \notin handling' \cup sr' => a - n = b - n
    BY <1>1
  <2> QED BY <1>7, <1>8, <2>1, <2>2 DEF RxShape
<1>10. rxRing' \in [0 .. RxN-1 -> [own : BOOLEAN, dst : Address \cup {Noload}]]
  BY <1>1
<1>11. a - n \in Nat /\ b - n \in Nat
  BY <1>2
<1> QED BY <1>4, <1>9, <1>10, <1>11 DEF RxOK

\* The frames a reader looks at: the first that is for us, and how many it
\* takes from the ring.
Fitting(units) == {k \in 0 .. units : ValidAddr(rxRing[RxSlot(k)].dst)}
FramesTaken(units)   == IF Fitting(units) = {} THEN units + 1 ELSE Min(Fitting(units)) + 1

\* They have all been seen by the handler.
LEMMA ReadsSeen ==
    ASSUME NEW p, NEW a \in Nat, NEW sem, SemOK(sem, EthProc), InLine(sem) \subseteq Readers \ {p},
           sem.count + Cardinality(Readers \ {p}) = a - 1
    PROVE  /\ Units(sem) + 1 <= a
           /\ FramesTaken(Units(sem)) \in 1 .. Units(sem) + 1 /\ FramesTaken(Units(sem)) \in 1 .. a
           /\ Fitting(Units(sem)) # {} => /\ Min(Fitting(Units(sem))) \in Fitting(Units(sem))
                                          /\ \A k \in Fitting(Units(sem)) : Min(Fitting(Units(sem))) <= k
<1> DEFINE units == Units(sem)
           valid == Fitting(units)
           C     == Cardinality(Readers \ {p})
<1>2. /\ sem.count \in Int /\ sem.line \in Queue(EthProc)
      /\ sem.count >= 0 => sem.line = <<>>
      /\ sem.count < 0 => Len(sem.line) + sem.count = 0
  BY DEF SemOK
<1>3. /\ units \in Nat
      /\ sem.count > 0 => units = sem.count
      /\ sem.count <= 0 => units = 0
  BY UnitsAre
<1>4. C \in Nat /\ IsFiniteSet(Readers \ {p})
  BY ReadersFinite
<1>5. a - 1 = sem.count + C
  OBVIOUS
<1>6. units + 1 <= a
  <2>1. CASE sem.count > 0
    BY <1>2, <1>3, <1>4, <1>5, <2>1
  <2>2. CASE sem.count <= 0
    <3>1. C + sem.count >= 0
      <4>1. CASE sem.count = 0
        BY <1>4, <4>1
      <4>2. CASE sem.count < 0
        <5>1. Cardinality(InLine(sem)) = Len(sem.line) /\ Len(sem.line) \in Nat
          BY <1>2, QueueCard DEF InLine
        <5>2. Cardinality(InLine(sem)) <= C
          BY <1>4, FS_Subset
        <5> QED BY <1>2, <1>4, <4>2, <5>1, <5>2
      <4> QED BY <1>2, <2>2, <4>1, <4>2
    <3> QED BY <1>2, <1>3, <1>4, <1>5, <2>2, <3>1
  <2> QED BY <1>2, <2>1, <2>2
<1>7. valid # {} => Min(valid) \in valid /\ \A k \in valid : Min(valid) <= k
  <2>1. valid \in SUBSET Nat
    BY <1>3 DEF Fitting
  <2> HIDE DEF valid
  <2> QED BY <2>1, MinNat
<1>8. FramesTaken(units) \in 1 .. units + 1 /\ FramesTaken(units) \in 1 .. a
  <2>1. valid # {} => Min(valid) \in 0 .. units
    BY <1>7 DEF Fitting
  <2> HIDE DEF valid, units
  <2> QED BY <1>3, <1>6, <2>1 DEF FramesTaken, valid
<1> QED BY <1>6, <1>7, <1>8

\* sem is isem without the unit of p, which p has.
LEMMA ReadFromKeeps ==
    ASSUME EtherInv, NEW p \in EthReader, p \notin Writers,
           NEW a \in Nat, NEW b \in Nat, RxShape(a, b),
           NEW sem, SemOK(sem, EthProc), InLine(sem) \subseteq Readers \ {p},
           sem.count + Cardinality(Readers \ {p}) = a - 1,
           ReadFrom(p, Units(sem), sem),
           UNCHANGED <<rxTail, txvars, txDma, rxDma, intvars, mcvars>>
    PROVE  EtherInv'
<1> DEFINE units == Units(sem)
           valid == Fitting(units)
           n     == FramesTaken(units)
           C     == Cardinality(Readers \ {p})
<1>1. /\ rxHead' = RxSlot(n)
      /\ rxRing' = [i \in DOMAIN rxRing |->
                       IF i \in GivenBack(n) THEN [own |-> TRUE, dst |-> Noload] ELSE rxRing[i]]
      /\ isem'   = IF valid = {} THEN SemWait([sem EXCEPT !.count = @ - units], p)
                                 ELSE [sem EXCEPT !.count = @ - (n - 1)]
      /\ ethcall' = [ethcall EXCEPT ![p] = IF valid = {} THEN [op |-> "read"] ELSE EthIdle]
  BY DEF ReadFrom, Fitting, FramesTaken
<1>2. /\ TxOK /\ RxOK /\ ethcall \in [EthProc -> EthCalls] /\ p \in EthProc
      /\ sem = [count |-> sem.count, line |-> sem.line]
      /\ sem.count \in Int /\ sem.line \in Queue(EthProc)
      /\ sem.count >= 0 => sem.line = <<>>
      /\ sem.count < 0 => Len(sem.line) + sem.count = 0
  BY DEF EtherInv, SemOK, EthProc
<1>3. /\ units \in Nat
      /\ sem.count > 0 => units = sem.count
      /\ sem.count <= 0 => units = 0
  BY UnitsAre
<1>4. C \in Nat /\ IsFiniteSet(Readers \ {p}) /\ Cardinality(Readers \cup {p}) = C + 1
  BY ReadersFinite
<1>5. a - 1 = sem.count + C
  OBVIOUS
<1>8. n \in 1 .. units + 1 /\ n \in 1 .. a
  BY ReadsSeen
<1>9. Writers' = Writers
  BY <1>1, <1>2 DEF Writers, EthIdle
<1>10. /\ SemOK(isem', EthProc) /\ InLine(isem') \subseteq Readers'
       /\ isem'.count + Cardinality(Readers)' = a - n
  <2>1. CASE valid = {}
    <3> DEFINE w == [sem EXCEPT !.count = @ - units]
    <3>1. w = [count |-> sem.count - units, line |-> sem.line]
      BY <1>2
    <3>2. w.count = sem.count - units /\ w.line = sem.line /\ w.count <= 0
      BY <1>2, <1>3, <3>1
    <3>3. SemOK(w, EthProc) /\ InLine(w) = InLine(sem)
      <4>1. CASE sem.count > 0
        <5>1. w.count = 0 /\ w.line = <<>>
          BY <1>2, <1>3, <3>2, <4>1
        <5>2. w = [count |-> w.count, line |-> w.line] /\ w.line \in Queue(EthProc)
          BY <1>2, <3>1, <3>2
        <5> HIDE DEF w
        <5> QED BY <3>2, <5>1, <5>2 DEF SemOK, InLine
      <4>2. CASE sem.count <= 0
        <5>1. w = sem
          BY <1>2, <1>3, <3>1, <4>2
        <5> QED BY <5>1
      <4> QED BY <1>2, <4>1, <4>2
    <3> HIDE DEF w
    <3>4. isem' = SemWait(w, p)
      BY <1>1, <2>1 DEF w
    <3>5. p \notin InLine(w)
      BY <3>3
    <3>6. /\ SemOK(isem', EthProc) /\ isem'.count = w.count - 1
          /\ InLine(isem') = InLine(w) \cup {p}
      BY <1>2, <3>2, <3>3, <3>4, <3>5, SemWaitOK
    <3>7. Readers' = Readers \cup {p}
      BY <1>1, <1>2, <2>1 DEF Readers
    <3>8. n = units + 1
      BY <2>1 DEF FramesTaken
    <3>9. isem'.count + (C + 1) = a - n
      <4> HIDE DEF n, units, C
      <4> QED BY <1>2, <1>3, <1>4, <1>5, <3>2, <3>6, <3>8
    <3> QED BY <1>4, <3>3, <3>6, <3>7, <3>9
  <2>2. CASE valid # {}
    <3> DEFINE w == [sem EXCEPT !.count = @ - (n - 1)]
    <3>0. isem' = w
      BY <1>1, <2>2
    <3> HIDE DEF n
    <3>1. w = [count |-> sem.count - (n - 1), line |-> sem.line]
      BY <1>2
    <3>2. w.count = sem.count - (n - 1) /\ w.line = sem.line /\ n - 1 \in 0 .. units
      BY <1>3, <1>8, <3>1
    <3>3. SemOK(w, EthProc) /\ InLine(w) = InLine(sem)
      <4>1. CASE sem.count > 0
        <5>1. w.count >= 0 /\ w.line = <<>> /\ w.count \in Int
          BY <1>2, <1>3, <3>2, <4>1
        <5>2. w = [count |-> w.count, line |-> w.line] /\ w.line \in Queue(EthProc)
          BY <1>2, <3>1, <3>2
        <5> HIDE DEF w
        <5> QED BY <3>2, <5>1, <5>2 DEF SemOK, InLine
      <4>2. CASE sem.count <= 0
        <5>1. w = sem
          BY <1>2, <1>3, <3>1, <3>2, <4>2
        <5> QED BY <5>1
      <4> QED BY <1>2, <4>1, <4>2
    <3>4. Readers' = Readers \ {p}
      BY <1>1, <1>2, <2>2 DEF Readers, EthIdle
    <3>5. isem'.count + C = a - n
      <4>1. isem'.count = sem.count - (n - 1)
        BY <3>0, <3>2
      <4>2. n \in Int
        BY <1>8
      <4> HIDE DEF units, C, w
      <4> QED BY <1>2, <1>4, <1>5, <4>1, <4>2
    <3> QED BY <3>0, <3>3, <3>4, <3>5
  <2> QED BY <2>1, <2>2
<1>11. RxOK'
  <2> HIDE DEF n
  <2> QED BY <1>1, <1>2, <1>8, <1>10, RxGoesOn DEF intvars
<1>12. TxOK'
  BY <1>2, <1>9, TxStays DEF txvars, intvars
<1>13. ethcall' \in [EthProc -> EthCalls]
  BY <1>1, <1>2 DEF EthCalls
<1> QED BY <1>11, <1>12, <1>13 DEF EtherInv, mcvars

\* ethread takes the first frame, or waits for one.
LEMMA EthreadKeeps ==
    ASSUME EtherInv, NEW p \in EthReader, Ethread(p)
    PROVE  EtherInv'
<1>1. /\ ethcall[p] = EthIdle
      /\ \/ /\ isem.count > 0
            /\ ReadFrom(p, isem.count - 1, [isem EXCEPT !.count = @ - 1])
         \/ /\ isem.count <= 0
            /\ isem'    = SemWait(isem, p)
            /\ ethcall' = [ethcall EXCEPT ![p] = [op |-> "read"]]
            /\ UNCHANGED <<rxRing, rxHead>>
      /\ UNCHANGED <<rxTail, txvars, txDma, rxDma, intvars, mcvars>>
  BY DEF Ethread, EthFree
<1>2. /\ TxOK /\ RxOK /\ SemOK(isem, EthProc) /\ InLine(isem) \subseteq Readers
      /\ p \in EthProc /\ p \notin Readers /\ p \notin Writers
      /\ ethcall \in [EthProc -> EthCalls] /\ isem.count \in Int
  BY <1>1 DEF EtherInv, RxOK, EthProc, Readers, Writers, EthIdle, SemOK
<1>3. PICK a, b \in Nat : RxShape(a, b)
  BY <1>2 DEF RxOK
<1>4. isem.count + Cardinality(Readers) = a
  BY <1>3 DEF RxShape
<1>5. /\ Readers \ {p} = Readers /\ Cardinality(Readers) \in Nat
      /\ Cardinality(Readers \cup {p}) = Cardinality(Readers) + 1
  BY <1>2, ReadersFinite, ZenonT(60)
<1>6. CASE /\ isem.count > 0
           /\ ReadFrom(p, isem.count - 1, [isem EXCEPT !.count = @ - 1])
  <2> DEFINE sem == [isem EXCEPT !.count = @ - 1]
  <2>1. /\ isem = [count |-> isem.count, line |-> isem.line] /\ isem.line \in Queue(EthProc)
        /\ isem.line = <<>>
    BY <1>2, <1>6 DEF SemOK
  <2>2. sem = [count |-> isem.count - 1, line |-> isem.line]
    BY <2>1
  <2>3. sem.count = isem.count - 1 /\ sem.line = isem.line
    BY <2>2
  <2>4. SemOK(sem, EthProc) /\ InLine(sem) = InLine(isem)
    <3>1. sem = [count |-> sem.count, line |-> sem.line]
      BY <2>2, <2>3
    <3>2. sem.count \in Int /\ sem.count >= 0
      BY <1>2, <1>6, <2>3
    <3> HIDE DEF sem
    <3> QED BY <2>1, <2>3, <3>1, <3>2 DEF SemOK, InLine
  <2>5. Units(sem) = isem.count - 1
    BY <1>2, <1>6, <2>3 DEF Units
  <2>6. ReadFrom(p, Units(sem), sem)
    BY <1>6, <2>5
  <2> HIDE DEF sem
  <2>7. InLine(sem) \subseteq Readers \ {p}
    BY <1>2, <1>5, <2>4
  <2>8. sem.count + Cardinality(Readers \ {p}) = a - 1
    <3>1. Cardinality(Readers \ {p}) = Cardinality(Readers)
      BY <1>5
    <3>2. sem.count + Cardinality(Readers) = a - 1
      <4>1. PICK c \in Nat : c = Cardinality(Readers)
        BY <1>5
      <4> QED BY <1>2, <1>4, <2>3, <4>1
    <3> QED BY <3>1, <3>2
  <2> QED BY <1>1, <1>2, <1>3, <2>4, <2>6, <2>7, <2>8, ReadFromKeeps
<1>7. CASE /\ isem.count <= 0
           /\ isem'    = SemWait(isem, p)
           /\ ethcall' = [ethcall EXCEPT ![p] = [op |-> "read"]]
           /\ UNCHANGED <<rxRing, rxHead>>
  <2>1. Readers' = Readers \cup {p} /\ Writers' = Writers
    BY <1>2, <1>7 DEF Readers, Writers
  <2>2. p \notin InLine(isem)
    BY <1>2
  <2>3. /\ SemOK(isem', EthProc) /\ isem'.count = isem.count - 1
        /\ InLine(isem') = InLine(isem) \cup {p}
    BY <1>2, <1>7, <2>2, SemWaitOK
  <2>4. isem'.count + Cardinality(Readers)' = a
    <3>1. isem'.count + (Cardinality(Readers) + 1) = a
      BY <1>2, <1>4, <1>5, <2>3
    <3> QED BY <1>5, <2>1, <3>1
  <2>5. RxShape(a, b)'
    BY <1>1, <1>3, <1>7, <2>4 DEF RxShape, intvars
  <2>6. RxOK'
    BY <1>2, <1>7, <2>1, <2>3, <2>5 DEF RxOK
  <2>7. TxOK'
    BY <1>1, <1>2, <2>1, TxStays DEF txvars, intvars
  <2>8. ethcall' \in [EthProc -> EthCalls]
    BY <1>2, <1>7 DEF EthCalls
  <2> QED BY <1>1, <2>6, <2>7, <2>8 DEF EtherInv, mcvars
<1> QED BY <1>1, <1>6, <1>7

\* A reader that was let in takes the first frame.
LEMMA EthreadEndKeeps ==
    ASSUME EtherInv, NEW p \in EthReader, EthreadEnd(p)
    PROVE  EtherInv'
<1>1. /\ ethcall[p].op = "read" /\ p \notin InLine(isem)
      /\ ReadFrom(p, Units(isem), isem)
      /\ UNCHANGED <<rxTail, txvars, txDma, rxDma, intvars, mcvars>>
  BY DEF EthreadEnd, EthGoesOn
<1>2. /\ RxOK /\ SemOK(isem, EthProc) /\ InLine(isem) \subseteq Readers
      /\ p \in EthProc /\ p \in Readers /\ p \notin Writers /\ isem.count \in Int
  BY <1>1 DEF EtherInv, RxOK, EthProc, Readers, Writers, SemOK
<1>3. PICK a, b \in Nat : RxShape(a, b)
  BY <1>2 DEF RxOK
<1>4. isem.count + Cardinality(Readers) = a
  BY <1>3 DEF RxShape
<1>5. /\ Readers \cup {p} = Readers /\ Cardinality(Readers \ {p}) \in Nat
      /\ Cardinality(Readers \cup {p}) = Cardinality(Readers \ {p}) + 1
  BY <1>2, ReadersFinite
<1>6. isem.count + Cardinality(Readers \ {p}) = a - 1
  <2>1. Cardinality(Readers) = Cardinality(Readers \ {p}) + 1
    BY <1>5
  <2>2. PICK c \in Nat : c = Cardinality(Readers \ {p})
    BY <1>5
  <2>3. PICK r : r = Cardinality(Readers)
    OBVIOUS
  <2> QED BY <1>2, <1>4, <2>1, <2>2, <2>3
<1>7. InLine(isem) \subseteq Readers \ {p}
  BY <1>1, <1>2
<1> QED BY <1>1, <1>2, <1>3, <1>6, <1>7, ReadFromKeeps

\* What the handler has taken from the status register is still to be done.
LEMMA EthHandlerKeeps ==
    ASSUME EtherInv, EthHandler
    PROVE  EtherInv'
<1>1. /\ handling = {} /\ handling' = sr /\ sr' = {}
      /\ UNCHANGED <<txvars, rxvars, txDma, rxDma, mcvars, ethcall>>
  BY DEF EthHandler
<1>2. TxOK /\ RxOK /\ Readers' = Readers /\ Writers' = Writers
  BY <1>1 DEF EtherInv, Readers, Writers
<1>3. TxOK'
  BY <1>1, <1>2, TxStays DEF txvars
<1>4. RxOK'
  BY <1>1, <1>2, RxStays DEF rxvars
<1> QED BY <1>1, <1>3, <1>4 DEF EtherInv, mcvars

\* The list of addresses is not read behind its end.
LEMMA EthGroupsKeep ==
    ASSUME EthOK, EtherInv, NEW a \in McAddr, EthmcastAdd(a) \/ EthmcastRemove(a)
    PROVE  EtherInv'
<1>1. /\ UNCHANGED <<txvars, rxvars, txDma, rxDma, intvars, ethcall>>
      /\ overrun' = overrun \/ overrun' = FALSE
  <2>1. CASE EthmcastAdd(a)
    BY <2>1 DEF EthmcastAdd
  <2>2. CASE EthmcastRemove(a)
    <3>1. /\ Len(ed_mca) < ETH_NUM_MCAST /\ overrun' = (Len(ed_mca) = ETH_NUM_MCAST)
          /\ UNCHANGED <<txvars, rxvars, txDma, rxDma, intvars, ethcall>>
      BY <2>2 DEF EthmcastRemove, EthOK
    <3>2. ETH_NUM_MCAST \in Nat
      BY EtherAssumption
    <3>3. Len(ed_mca) # ETH_NUM_MCAST
      <4>1. PICK c : c = Len(ed_mca)
        OBVIOUS
      <4>2. ~(ETH_NUM_MCAST < ETH_NUM_MCAST)
        BY <3>2
      <4> QED BY <3>1, <4>1, <4>2
    <3> QED BY <3>1, <3>3
  <2> QED BY <2>1, <2>2
<1>2. TxOK /\ RxOK /\ Readers' = Readers /\ Writers' = Writers
  BY <1>1 DEF EtherInv, Readers, Writers
<1>3. TxOK'
  BY <1>1, <1>2, TxStays DEF txvars, intvars
<1>4. RxOK'
  BY <1>1, <1>2, RxStays DEF rxvars, intvars
<1> QED BY <1>1, <1>3, <1>4 DEF EtherInv

LEMMA EtherStep ==
    ASSUME EthOK, EtherInv, [EtherNext]_ethvars
    PROVE  EtherInv'
<1>1. CASE EthWrites
  BY <1>1, EthwriteKeeps DEF EthWrites
<1>2. CASE EthReads
  BY <1>2, EthreadKeeps, EthreadEndKeeps DEF EthReads
<1>3. CASE TxDma
  BY <1>3, TxDmaKeeps
<1>4. CASE EthArrivals
  BY <1>4, RxDmaKeeps DEF EthArrivals
<1>5. CASE EthInterrupt
  BY <1>5, EthHandlerKeeps, TxScanKeeps, RxScanKeeps DEF EthInterrupt
<1>6. CASE EthGroups
  BY <1>6, EthGroupsKeep DEF EthGroups
<1>7. CASE UNCHANGED ethvars
  <2>1. UNCHANGED <<txvars, rxvars, txDma, rxDma, intvars, mcvars, ethcall>>
    BY <1>7 DEF ethvars
  <2>2. TxOK /\ RxOK /\ Readers' = Readers /\ Writers' = Writers
    BY <2>1 DEF EtherInv, Readers, Writers
  <2>3. TxOK'
    BY <2>1, <2>2, TxStays DEF txvars, intvars
  <2>4. RxOK'
    BY <2>1, <2>2, RxStays DEF rxvars, intvars
  <2> QED BY <2>1, <2>3, <2>4 DEF EtherInv, mcvars
<1> QED BY <1>1, <1>2, <1>3, <1>4, <1>5, <1>6, <1>7 DEF EtherNext

\* What the rings, the counts and the lines have to say of each other.
LEMMA SlotsAre ==
    ASSUME EtherInv
    PROVE  SlotsComeBack
<1>1. /\ TxOK /\ RxOK /\ ~overrun /\ SemOK(osem, EthProc) /\ InLine(osem) = Writers
      /\ SemOK(isem, EthProc) /\ InLine(isem) \subseteq Readers
      /\ txHead \in 0 .. TxN-1 /\ rxHead \in 0 .. RxN-1
  BY DEF EtherInv, TxOK, RxOK
<1>2. EthLetIn("write", osem) = {}
  BY <1>1 DEF EthLetIn, Writers
<1>3. PICK u, d \in Nat : TxShape(u, d)
  BY <1>1 DEF TxOK
<1>4. /\ u \in 0 .. TxN /\ d \in 0 .. u /\ Units(osem) + u = TxN
      /\ txTail = SlotAt(txHead, u, TxN) /\ txDma = SlotAt(txHead, d, TxN)
      /\ u < TxN /\ "TI" \notin handling \cup sr => d = 0
  BY <1>3 DEF TxShape
<1>5. Units(osem) \in Nat
  BY <1>1, UnitsAre
<1>6. Units(osem) = 0 => txHead = txTail
  <2>1. SlotAt(txHead, TxN, TxN) = txHead
    BY <1>1, RingSizes, SlotSteps
  <2> QED BY <1>4, <2>1, RingSizes
<1>7. Units(osem) > 0 =>
         /\ Units(osem) = TxN - ((txTail - txHead) % TxN)
         /\ handling = {} /\ "TI" \notin sr => txHead = txDma
  <2> SUFFICES ASSUME Units(osem) > 0
               PROVE  /\ Units(osem) = TxN - ((txTail - txHead) % TxN)
                      /\ handling = {} /\ "TI" \notin sr => txHead = txDma
    OBVIOUS
  <2>1. u < TxN
    BY <1>4, <1>5, RingSizes
  <2>2. (txTail - txHead) % TxN = u
    BY <1>1, <1>4, <2>1, RingSizes, SlotDistance
  <2>3. Units(osem) = TxN - u
    BY <1>4, <1>5, RingSizes
  <2>4. SlotAt(txHead, 0, TxN) = txHead
    BY <1>1, RingSizes, SlotSteps
  <2> QED BY <1>4, <2>1, <2>2, <2>3, <2>4
<1>8. PICK a, b \in Nat : RxShape(a, b)
  BY <1>1 DEF RxOK
<1>9. /\ b \in 0 .. RxN-1 /\ a \in 0 .. b /\ rxTail = SlotAt(rxHead, a, RxN)
      /\ rxDma = SlotAt(rxHead, b, RxN) /\ isem.count + Cardinality(Readers) = a
      /\ "RI" \notin handling \cup sr => a = b
  BY <1>8 DEF RxShape
<1>10. (rxTail - rxHead) % RxN = a
  <2>1. a \in 0 .. RxN /\ a < RxN
    BY <1>9, RingSizes
  <2> QED BY <1>1, <1>9, <2>1, RingSizes, SlotDistance
<1>11. Units(isem) + Cardinality(EthLetIn("read", isem)) = a
  <2> DEFINE L == InLine(isem)
             F == EthLetIn("read", isem)
  <2>1. /\ isem.count \in Int
        /\ isem.count > 0 => Units(isem) = isem.count
        /\ isem.count <= 0 => Units(isem) = 0
    BY <1>1, UnitsAre DEF SemOK
  <2>2. /\ IsFiniteSet(L) /\ Cardinality(L) = Len(isem.line) /\ Len(isem.line) \in Nat
    BY <1>1, QueueCard DEF SemOK, InLine
  <2>3. IsFiniteSet(Readers) /\ Cardinality(Readers) \in Nat
    BY ReadersFinite
  <2>4. F = Readers \ L
    BY DEF EthLetIn, Readers
  <2>5. F \cup L = Readers /\ F \cap L = {}
    BY <1>1, <2>4
  <2>6. IsFiniteSet(F) /\ Cardinality(F) \in Nat
    <3>1. F \in SUBSET Readers
      BY <2>4
    <3> HIDE DEF F
    <3> QED BY <2>3, <3>1, FS_Subset, FS_CardinalityType
  <2>7. Cardinality(Readers) = Cardinality(F) + Cardinality(L)
    <3> HIDE DEF F, L
    <3>1. Cardinality(F \cup L) = Cardinality(F) + Cardinality(L) - Cardinality(F \cap L)
      BY <2>2, <2>6, FS_Union
    <3>2. Cardinality(F \cap L) = 0
      BY <2>5, FS_EmptySet
    <3>3. Cardinality(F \cup L) = Cardinality(Readers)
      BY <2>5
    <3>4. Cardinality(F) + Cardinality(L) - 0 = Cardinality(F) + Cardinality(L)
      <4>1. Cardinality(F) \in Nat /\ Cardinality(L) \in Nat
        BY <2>2, <2>6
      <4> QED BY <4>1
    <3> QED BY <3>1, <3>2, <3>3, <3>4
  <2>8. /\ isem.count >= 0 => Len(isem.line) = 0
        /\ isem.count < 0 => Len(isem.line) + isem.count = 0
    BY <1>1 DEF SemOK
  <2> HIDE DEF F, L
  <2>9. CASE isem.count >= 0
    <3>1. Units(isem) = isem.count
      BY <2>1, <2>9
    <3> QED BY <1>9, <2>1, <2>2, <2>3, <2>6, <2>7, <2>8, <2>9, <3>1 DEF F
  <2>10. CASE isem.count < 0
    <3>1. Units(isem) = 0
      BY <2>1, <2>10
    <3> QED BY <1>9, <2>1, <2>2, <2>3, <2>6, <2>7, <2>8, <2>10, <3>1 DEF F
  <2> QED BY <2>1, <2>9, <2>10
<1>12. handling = {} /\ "RI" \notin sr => rxTail = rxDma
  BY <1>9
<1> QED BY <1>1, <1>2, <1>6, <1>7, <1>10, <1>11, <1>12 DEF SlotsComeBack

\* Every unit of the two semaphores of the interface is a slot that is free or
\* a frame that waits, and the interrupt is due for what the handler has not
\* seen: whatever the DMA does while calls and the handler run.
THEOREM SlotsReturn == ASSUME EthOK PROVE EtherSpec => []SlotsComeBack
<1>1. EtherInit => EtherInv
  BY EtherInitInv
<1>2. EtherInv /\ [EtherNext]_ethvars => EtherInv'
  BY EtherStep
<1>3. EtherInv => SlotsComeBack
  BY SlotsAre
<1> QED BY <1>1, <1>2, <1>3, PTL DEF EtherSpec

-----------------------------------------------------------------------------
\* What the rings hold, as the sequences of frames of Wire.

\* The slots from the lo-th to before the hi-th.
Slots(h, lo, hi, n) == {SlotAt(h, k, n) : k \in lo .. hi-1}

LEMMA SlotsCounted ==
    ASSUME NEW n \in Nat \ {0}, NEW h \in 0 .. n-1, NEW hi \in 0 .. n, NEW lo \in 0 .. hi
    PROVE  Cardinality(Slots(h, lo, hi, n)) = hi - lo
<1> DEFINE f == [k \in lo .. hi-1 |-> SlotAt(h, k, n)]
           S == Slots(h, lo, hi, n)
<1>1. ASSUME NEW k \in lo .. hi-1 PROVE k \in 0 .. n-1 /\ SlotAt(h, k, n) \in S
  BY DEF Slots
<1>2. ASSUME NEW i \in S PROVE \E k \in lo .. hi-1 : SlotAt(h, k, n) = i
  BY DEF Slots
<1>3. \A j, k \in lo .. hi-1 : SlotAt(h, j, n) = SlotAt(h, k, n) => j = k
  BY <1>1, SlotSteps
<1>4. f \in [lo .. hi-1 -> S] /\ \A i \in S : \E k \in lo .. hi-1 : f[k] = i
  BY <1>1, <1>2
<1>5. \A j, k \in lo .. hi-1 : f[j] = f[k] => j = k
  BY <1>3
<1>6. f \in Bijection(lo .. hi-1, S)
  <2> HIDE DEF f, S
  <2> QED BY <1>4, <1>5 DEF Bijection, Injection, Surjection, IsInjective
<1>7. IsFiniteSet(lo .. hi-1) /\ Cardinality(lo .. hi-1) = hi - lo
  <2>1. PICK m \in Int : m = hi - 1
    OBVIOUS
  <2>2. IsFiniteSet(lo .. m) /\ Cardinality(lo .. m) = IF lo > m THEN 0 ELSE m - lo + 1
    BY FS_Interval
  <2>3. (IF lo > m THEN 0 ELSE m - lo + 1) = hi - lo
    BY <2>1
  <2> QED BY <2>1, <2>2, <2>3
<1>8. ExistsBijection(lo .. hi-1, S)
  BY <1>6 DEF ExistsBijection
<1> QED BY <1>7, <1>8, FS_Bijection

\* Frames on their way out are those of the slots that the DMA has, in order.
LEMMA OutFramesAre ==
    ASSUME TxOK, NEW u \in Nat, NEW d \in Nat, TxShape(u, d)
    PROVE  /\ TxPending = u - d
           /\ OutFrames = [k \in 1 .. u - d |-> txRing[SlotAt(txHead, d + (k - 1), TxN)].load]
           /\ \A k \in 1 .. (u - d) + 1 : (txDma + (k - 1)) % TxN = SlotAt(txHead, d + (k - 1), TxN)
<1>1. /\ u \in 0 .. TxN /\ d \in 0 .. u /\ txDma = SlotAt(txHead, d, TxN)
      /\ \A k \in 0 .. TxN-1 : txRing[SlotAt(txHead, k, TxN)].own <=> (d <= k /\ k < u)
      /\ txHead \in 0 .. TxN-1 /\ DOMAIN txRing = 0 .. TxN-1
  BY DEF TxShape, TxOK
<1>2. TxPending = u - d
  <2> DEFINE S == {i \in DOMAIN txRing : txRing[i].own}
  <2>1. S \in SUBSET (0 .. TxN-1)
    BY <1>1
  <2>2. ASSUME NEW k \in 0 .. TxN-1
        PROVE  SlotAt(txHead, k, TxN) \in S <=> (d <= k /\ k < u)
    <3>1. k \in 0 .. TxN
      BY RingSizes
    <3>2. SlotAt(txHead, k, TxN) \in 0 .. TxN-1
      BY <1>1, <3>1, RingSizes, SlotAtIs
    <3> QED BY <1>1, <3>2
  <2> HIDE DEF S
  <2>3. Cardinality(S) = u - d
    <3>1. TxN \in Nat \ {0} /\ txHead \in 0 .. TxN-1 /\ u \in 0 .. TxN /\ d \in 0 .. u
      BY <1>1, RingSizes
    <3>2. S = Slots(txHead, d, u, TxN)
      <4>1. ASSUME NEW i \in S PROVE i \in Slots(txHead, d, u, TxN)
        <5>1. PICK k \in 0 .. TxN-1 : SlotAt(txHead, k, TxN) = i
          BY <2>1, <3>1, SlotSteps
        <5>2. k \in d .. u-1
          BY <2>2, <3>1, <5>1
        <5> QED BY <5>1, <5>2 DEF Slots
      <4>2. ASSUME NEW k \in d .. u-1 PROVE SlotAt(txHead, k, TxN) \in S
        <5>1. k \in 0 .. TxN-1 /\ d <= k /\ k < u
          BY <3>1
        <5> QED BY <2>2, <5>1
      <4> QED BY <4>1, <4>2 DEF Slots
    <3> QED BY <3>1, <3>2, SlotsCounted
  <2> QED BY <2>3 DEF TxPending, S
<1>3. ASSUME NEW k \in 1 .. (u - d) + 1
      PROVE  (txDma + (k - 1)) % TxN = SlotAt(txHead, d + (k - 1), TxN)
  <2>1. d \in 0 .. TxN /\ k - 1 \in 0 .. TxN /\ d + (k - 1) <= TxN
    BY <1>1, RingSizes
  <2>2. txDma \in 0 .. TxN-1
    BY <1>1, <2>1, RingSizes, SlotAtIs
  <2>3. PICK j \in 0 .. TxN : j = k - 1
    BY <2>1
  <2>4. (txDma + j) % TxN = SlotAt(txDma, j, TxN)
    BY <2>2, RingSizes, SlotAtIs
  <2>5. SlotAt(txDma, j, TxN) = SlotAt(txHead, d + j, TxN)
    BY <1>1, <2>1, <2>3, RingSizes DEF SlotAt
  <2> QED BY <2>3, <2>4, <2>5
<1>4. \A k \in 1 .. u - d : k \in 1 .. (u - d) + 1
  BY <1>1
<1> QED BY <1>2, <1>3, <1>4 DEF OutFrames

\* Frames that have come are those of the slots that the DMA has filled.
LEMMA InFramesAre ==
    ASSUME RxOK, NEW a \in Nat, NEW b \in Nat, RxShape(a, b)
    PROVE  /\ RxPending = b
           /\ InFrames = [k \in 1 .. b |-> rxRing[SlotAt(rxHead, k - 1, RxN)].dst]
<1>1. /\ b \in 0 .. RxN /\ b < RxN
      /\ \A k \in 0 .. RxN-1 : rxRing[SlotAt(rxHead, k, RxN)].own <=> b <= k
      /\ rxHead \in 0 .. RxN-1 /\ DOMAIN rxRing = 0 .. RxN-1
  BY RingSizes DEF RxShape, RxOK
<1>2. RxPending = b
  <2> DEFINE S == {i \in DOMAIN rxRing : ~rxRing[i].own}
  <2>1. S \in SUBSET (0 .. RxN-1)
    BY <1>1
  <2>2. ASSUME NEW k \in 0 .. RxN-1
        PROVE  SlotAt(rxHead, k, RxN) \in S <=> (0 <= k /\ k < b)
    <3>1. k \in 0 .. RxN
      BY RingSizes
    <3>2. SlotAt(rxHead, k, RxN) \in 0 .. RxN-1
      BY <1>1, <3>1, RingSizes, SlotAtIs
    <3> QED BY <1>1, <3>2
  <2> HIDE DEF S
  <2>3. 0 \in 0 .. b
    OBVIOUS
  <2>4. Cardinality(S) = b - 0
    <3>1. RxN \in Nat \ {0} /\ rxHead \in 0 .. RxN-1 /\ b \in 0 .. RxN
      BY <1>1, RingSizes
    <3>2. S = Slots(rxHead, 0, b, RxN)
      <4>1. ASSUME NEW i \in S PROVE i \in Slots(rxHead, 0, b, RxN)
        <5>1. PICK k \in 0 .. RxN-1 : SlotAt(rxHead, k, RxN) = i
          BY <2>1, <3>1, SlotSteps
        <5>2. k \in 0 .. b-1
          BY <2>2, <3>1, <5>1
        <5> QED BY <5>1, <5>2 DEF Slots
      <4>2. ASSUME NEW k \in 0 .. b-1 PROVE SlotAt(rxHead, k, RxN) \in S
        <5>1. k \in 0 .. RxN-1 /\ 0 <= k /\ k < b
          BY <3>1
        <5> QED BY <2>2, <5>1
      <4> QED BY <4>1, <4>2 DEF Slots
    <3> QED BY <2>3, <3>1, <3>2, SlotsCounted
  <2> QED BY <2>4 DEF RxPending, S
<1>3. ASSUME NEW k \in 1 .. b PROVE RxSlot(k - 1) = SlotAt(rxHead, k - 1, RxN)
  <2>1. PICK j \in 0 .. RxN : j = k - 1
    <3>1. k - 1 \in 0 .. RxN
      BY <1>1, RingSizes
    <3> QED BY <3>1
  <2>2. RxSlot(j) = SlotAt(rxHead, j, RxN)
    BY <1>1, RingSizes, SlotAtIs DEF RxSlot
  <2> QED BY <2>1, <2>2
<1> QED BY <1>2, <1>3 DEF InFrames

\* The list has multicast addresses, and the frames that have come have a
\* destination.
WireInv ==
    /\ EtherInv
    /\ ed_mca \in Seq(McAddr)
    /\ \A i \in 0 .. RxN-1 : ~rxRing[i].own => rxRing[i].dst \in Address

\* What is meant for this station is what ethread takes.
LEMMA MeantIs ==
    ASSUME ed_mca \in Seq(McAddr), NEW a \in Address
    PROVE  W!Meant(a) <=> ValidAddr(a)
<1>1. Range(ed_mca) \subseteq McAddr
  BY DEF Range
<1>2. {devAddress, ethbcast} \cap McAddr = {}
  BY EtherAssumption
<1> QED BY <1>1, <1>2 DEF W!Meant, ValidAddr, Address

LEMMA RemoveFirstSeq ==
    ASSUME NEW S, NEW q \in Seq(S), NEW e
    PROVE  RemoveFirst(q, e) \in Seq(S)
<1>1. CASE \E i \in 1 .. Len(q) : q[i] = e
  <2> DEFINE I == {i \in 1 .. Len(q) : q[i] = e}
  <2>1. Len(q) \in Nat /\ I \in SUBSET Nat /\ I # {}
    BY <1>1
  <2>2. SelectInSeq(q, LAMBDA v : v = e) = Min(I)
    BY <1>1 DEF SelectInSeq
  <2>3. Min(I) \in 1 .. Len(q)
    <3>1. I \subseteq 1 .. Len(q)
      OBVIOUS
    <3> HIDE DEF I
    <3> QED BY <2>1, <3>1, MinNat
  <2> HIDE DEF I
  <2>4. PICK i \in 1 .. Len(q) : i = Min(I)
    BY <2>3
  <2>5. RemoveFirst(q, e) = SubSeq(q, 1, i - 1) \o SubSeq(q, i + 1, Len(q))
    BY <1>1, <2>2, <2>4 DEF RemoveFirst, RemoveAt
  <2>6. SubSeq(q, 1, i - 1) \in Seq(S) /\ SubSeq(q, i + 1, Len(q)) \in Seq(S)
    BY <2>1
  <2> QED BY <2>5, <2>6
<1>2. CASE ~ \E i \in 1 .. Len(q) : q[i] = e
  BY <1>2 DEF RemoveFirst
<1> QED BY <1>1, <1>2

LEMMA WireInitInv == EtherInit => WireInv
<1> SUFFICES ASSUME EtherInit PROVE WireInv
  OBVIOUS
<1>1. EtherInv
  BY EtherInitInv
<1>2. ed_mca = <<>> /\ rxRing = [i \in 0 .. RxN-1 |-> [own |-> TRUE, dst |-> Noload]]
  BY DEF EtherInit
<1> QED BY <1>1, <1>2 DEF WireInv

LEMMA WireInvStep ==
    ASSUME EthOK, WireInv, [EtherNext]_ethvars
    PROVE  WireInv'
<1>1. EtherInv' /\ EtherInv /\ ed_mca \in Seq(McAddr)
  BY EtherStep DEF WireInv
<1>2. rxRing \in [0 .. RxN-1 -> [own : BOOLEAN, dst : Address \cup {Noload}]]
  BY <1>1 DEF EtherInv, RxOK
<1>3. ed_mca' \in Seq(McAddr)
  <2>1. CASE UNCHANGED ed_mca
    BY <1>1, <2>1
  <2>2. ASSUME NEW a \in McAddr, EthmcastAdd(a) PROVE ed_mca' \in Seq(McAddr)
    BY <1>1, <2>2 DEF EthmcastAdd
  <2>3. ASSUME NEW a \in McAddr, EthmcastRemove(a) PROVE ed_mca' \in Seq(McAddr)
    BY <1>1, <2>3, RemoveFirstSeq DEF EthmcastRemove
  <2> QED BY <2>1, <2>2, <2>3
        DEF EtherNext, EthWrites, Ethwrite, EthReads, Ethread, EthreadEnd, TxDma, EthArrivals,
            RxDma, EthInterrupt, EthHandler, TxScan, RxScan, EthGroups, mcvars, ethvars
<1>4. \A i \in 0 .. RxN-1 : ~rxRing'[i].own => rxRing'[i].dst \in Address
  <2>1. CASE UNCHANGED rxRing
    BY <2>1 DEF WireInv
  <2>2. ASSUME NEW n, rxRing' = [i \in DOMAIN rxRing |->
                     IF i \in GivenBack(n) THEN [own |-> TRUE, dst |-> Noload] ELSE rxRing[i]]
        PROVE  \A i \in 0 .. RxN-1 : ~rxRing'[i].own => rxRing'[i].dst \in Address
    BY <1>2, <2>2 DEF WireInv
  <2>3. ASSUME NEW p, NEW units, NEW sem, ReadFrom(p, units, sem)
        PROVE  \A i \in 0 .. RxN-1 : ~rxRing'[i].own => rxRing'[i].dst \in Address
    BY <2>2, <2>3 DEF ReadFrom
  <2>4. ASSUME NEW dst \in Address, RxDma(dst)
        PROVE  \A i \in 0 .. RxN-1 : ~rxRing'[i].own => rxRing'[i].dst \in Address
    <3>1. rxRing' = [rxRing EXCEPT ![rxDma] = [own |-> FALSE, dst |-> dst]]
      BY <2>4 DEF RxDma
    <3>2. ASSUME NEW i \in 0 .. RxN-1, ~rxRing'[i].own PROVE rxRing'[i].dst \in Address
      <4>1. CASE i = rxDma
        BY <1>2, <3>1, <4>1
      <4>2. CASE i # rxDma
        <5>1. rxRing'[i] = rxRing[i]
          BY <1>2, <3>1, <4>2
        <5> QED BY <3>2, <5>1 DEF WireInv
      <4> QED BY <4>1, <4>2
    <3> QED BY <3>2
  <2> QED BY <2>1, <2>3, <2>4
        DEF EtherNext, EthWrites, Ethwrite, EthReads, Ethread, EthreadEnd, TxDma, EthArrivals,
            EthInterrupt, EthHandler, TxScan, RxScan, EthGroups, EthmcastAdd, EthmcastRemove,
            rxvars, ethvars
<1> QED BY <1>1, <1>3, <1>4 DEF WireInv

\* A step that touches neither frames nor the list of addresses.
SameWire == UNCHANGED <<txRing, txDma, rxRing, rxHead, wire, ethgot, ed_mca>>

LEMMA SameWireStutters ==
    ASSUME SameWire
    PROVE  UNCHANGED W!wirevars
<1>1. OutFrames' = OutFrames
  BY DEF SameWire, OutFrames, TxPending
<1>2. InFrames' = InFrames
  BY DEF SameWire, InFrames, RxPending, RxSlot
<1> QED BY <1>1, <1>2 DEF SameWire, W!wirevars

\* ethwrite hands a frame over, or waits.
LEMMA EthwriteRefines ==
    ASSUME WireInv, NEW p \in EthWriter, NEW load \in Load, Ethwrite(p, load)
    PROVE  W!HandOver \/ SameWire
<1>1. /\ osem' = SemWait(osem, p)
      /\ UNCHANGED <<rxRing, rxHead, txDma, wire, ethgot, ed_mca>>
      /\ \/ /\ UNCHANGED <<txRing, txTail>>
         \/ /\ p \notin InLine(osem')
            /\ txRing' = [txRing EXCEPT ![txTail] = [own |-> TRUE, load |-> load]]
  BY DEF Ethwrite, rxvars, mcvars
<1>2. CASE UNCHANGED txRing
  BY <1>1, <1>2 DEF SameWire
<1>3. CASE /\ p \notin InLine(osem')
           /\ txRing' = [txRing EXCEPT ![txTail] = [own |-> TRUE, load |-> load]]
  <2>1. /\ TxOK /\ txHead \in 0 .. TxN-1 /\ SemOK(osem, EthProc) /\ InLine(osem) = Writers
        /\ txRing \in [0 .. TxN-1 -> [own : BOOLEAN, load : Load \cup {Noload}]]
        /\ p \in EthProc /\ ethcall[p] = EthIdle
    BY DEF WireInv, EtherInv, TxOK, EthProc, Ethwrite, EthFree
  <2>2. PICK u, d \in Nat : TxShape(u, d)
    BY <2>1 DEF TxOK
  <2>3. /\ u \in 0 .. TxN /\ d \in 0 .. u /\ txTail = SlotAt(txHead, u, TxN)
        /\ \A k \in 0 .. TxN-1 : txRing[SlotAt(txHead, k, TxN)].own <=> (d <= k /\ k < u)
    BY <2>2 DEF TxShape
  <2>4. u < TxN
    <3>1. /\ osem.count \in Int
          /\ osem.count > 0 => u < TxN
      BY <2>1, <2>2, TxUnits
    <3>2. p \notin InLine(osem)
      BY <2>1 DEF Writers, EthIdle
    <3>3. InLine(osem') = IF osem.count <= 0 THEN InLine(osem) \cup {p} ELSE {}
      BY <1>1, <2>1, <3>2, SemWaitOK
    <3>4. CASE osem.count <= 0
      <4>1. InLine(osem') = InLine(osem) \cup {p}
        BY <3>3, <3>4
      <4> QED BY <1>3, <4>1
    <3> QED BY <3>1, <3>4
  <2>5. /\ TxPending = u - d
        /\ OutFrames = [k \in 1 .. u - d |-> txRing[SlotAt(txHead, d + (k - 1), TxN)].load]
        /\ \A k \in 1 .. (u - d) + 1 : (txDma + (k - 1)) % TxN = SlotAt(txHead, d + (k - 1), TxN)
    BY <2>1, <2>2, OutFramesAre
  <2>6. u \in 0 .. TxN-1 /\ u - d \in Nat /\ txTail \in 0 .. TxN-1 /\ ~txRing[txTail].own
    <3>1. u \in 0 .. TxN-1 /\ u - d \in Nat
      BY <2>3, <2>4, RingSizes
    <3>2. txTail \in 0 .. TxN-1
      <4>1. u \in 0 .. TxN
        BY <2>3
      <4> QED BY <2>1, <2>3, <4>1, RingSizes, SlotAtIs
    <3>3. ~(u < u)
      BY <3>1
    <3> QED BY <2>3, <3>1, <3>2, <3>3
  <2>7. TxPending' = (u - d) + 1
    <3> DEFINE S == {i \in DOMAIN txRing : txRing[i].own}
    <3>1. {i \in DOMAIN txRing' : txRing'[i].own} = S \cup {txTail}
      BY <1>3, <2>1, <2>6
    <3>2. txTail \notin S
      BY <2>6
    <3>3. IsFiniteSet(S)
      <4>1. S \in SUBSET (0 .. TxN-1)
        BY <2>1
      <4>2. IsFiniteSet(0 .. TxN-1)
        BY RingSizes, FS_Interval
      <4> HIDE DEF S
      <4> QED BY <4>1, <4>2, FS_Subset
    <3>4. Cardinality(S) = u - d
      BY <2>5 DEF TxPending
    <3> HIDE DEF S
    <3>5. Cardinality(S \cup {txTail}) = Cardinality(S) + 1
      BY <3>2, <3>3, FS_AddElement
    <3> QED BY <3>1, <3>4, <3>5 DEF TxPending
  <2>8. ASSUME NEW k \in 1 .. (u - d) + 1
        PROVE  txRing'[(txDma + (k - 1)) % TxN].load
                   = IF k = (u - d) + 1 THEN load ELSE txRing[(txDma + (k - 1)) % TxN].load
    <3>1. (txDma + (k - 1)) % TxN = SlotAt(txHead, d + (k - 1), TxN)
      BY <2>5
    <3>2. d + (k - 1) \in 0 .. TxN-1
      BY <2>3, <2>4, RingSizes
    <3>3. SlotAt(txHead, d + (k - 1), TxN) \in 0 .. TxN-1
      <4>1. d + (k - 1) \in 0 .. TxN
        BY <3>2, RingSizes
      <4> QED BY <2>1, <4>1, RingSizes, SlotAtIs
    <3>4. CASE k = (u - d) + 1
      <4>1. d + (k - 1) = u
        BY <2>3, <3>4
      <4> QED BY <1>3, <2>1, <2>3, <2>6, <3>1, <3>4, <4>1
    <3>5. CASE k # (u - d) + 1
      <4>1. d + (k - 1) # u
        BY <2>3, <3>5
      <4>2. SlotAt(txHead, d + (k - 1), TxN) # txTail
        BY <2>1, <2>3, <2>6, <3>2, <4>1, RingSizes, SlotSteps
      <4> QED BY <1>3, <2>1, <3>1, <3>3, <3>5, <4>2
    <3> QED BY <3>4, <3>5
  <2>9. OutFrames = [k \in 1 .. u - d |-> txRing[(txDma + (k - 1)) % TxN].load]
    BY <2>5 DEF OutFrames
  <2>10. OutFrames' = [k \in 1 .. (u - d) + 1 |-> txRing'[(txDma + (k - 1)) % TxN].load]
    BY <1>1, <2>7 DEF OutFrames
  <2>11. OutFrames' = Append(OutFrames, load)
    <3>1. PICK n \in Nat : n = u - d
      BY <2>6
    <3>2. OutFrames' = [k \in 1 .. n + 1 |-> IF k = n + 1 THEN load
                                             ELSE txRing[(txDma + (k - 1)) % TxN].load]
      BY <2>8, <2>10, <3>1
    <3>3. OutFrames = [k \in 1 .. n |-> txRing[(txDma + (k - 1)) % TxN].load]
      BY <2>9, <3>1
    <3>4. Len(OutFrames) = n
      BY <3>3
    <3>5. OutFrames' = [k \in 1 .. Len(OutFrames) + 1 |->
                           IF k = Len(OutFrames) + 1 THEN load ELSE OutFrames[k]]
      BY <3>2, <3>3, <3>4
    <3> QED BY <3>3, <3>4, <3>5
  <2>12. InFrames' = InFrames
    BY <1>1 DEF InFrames, RxPending, RxSlot
  <2> QED BY <1>1, <2>11, <2>12 DEF W!HandOver
<1> QED BY <1>1, <1>2, <1>3

\* The device sends the frame that was handed over first.
LEMMA TxDmaRefines ==
    ASSUME WireInv, TxDma
    PROVE  W!Leave
<1>1. /\ txRing[txDma].own /\ wire' = txRing[txDma].load
      /\ txRing' = [txRing EXCEPT ![txDma] = [own |-> FALSE, load |-> Noload]]
      /\ txDma'  = (txDma + 1) % TxN
      /\ UNCHANGED <<rxRing, rxHead, ethgot, ed_mca>>
  BY DEF TxDma, rxvars, mcvars
<1>2. /\ TxOK /\ txHead \in 0 .. TxN-1
      /\ txRing \in [0 .. TxN-1 -> [own : BOOLEAN, load : Load \cup {Noload}]]
  BY DEF WireInv, EtherInv, TxOK
<1>3. PICK u, d \in Nat : TxShape(u, d)
  BY <1>2 DEF TxOK
<1>4. /\ u \in 0 .. TxN /\ d \in 0 .. u /\ txDma = SlotAt(txHead, d, TxN)
      /\ \A k \in 0 .. TxN-1 : txRing[SlotAt(txHead, k, TxN)].own <=> (d <= k /\ k < u)
  BY <1>3 DEF TxShape
<1>5. /\ TxPending = u - d
      /\ OutFrames = [k \in 1 .. u - d |-> txRing[SlotAt(txHead, d + (k - 1), TxN)].load]
      /\ \A k \in 1 .. (u - d) + 1 : (txDma + (k - 1)) % TxN = SlotAt(txHead, d + (k - 1), TxN)
  BY <1>2, <1>3, OutFramesAre
<1>6. d < u /\ txDma \in 0 .. TxN-1
  <2>1. d \in 0 .. TxN
    BY <1>4, RingSizes
  <2>2. txDma \in 0 .. TxN-1
    BY <1>2, <1>4, <2>1, RingSizes, SlotAtIs
  <2>3. PICK k \in 0 .. TxN-1 : SlotAt(txHead, k, TxN) = txDma
    BY <1>2, <2>2, RingSizes, SlotSteps
  <2>4. d <= k /\ k < u
    BY <1>1, <1>4, <2>3
  <2> QED BY <1>4, <2>2, <2>3, <2>4
<1>7. PICK n \in Nat : n = u - d /\ n >= 1
  BY <1>4, <1>6
<1>8. TxPending' = n - 1
  <2> DEFINE S == {i \in DOMAIN txRing : txRing[i].own}
  <2>1. {i \in DOMAIN txRing' : txRing'[i].own} = S \ {txDma}
    BY <1>1, <1>2, <1>6
  <2>2. txDma \in S
    BY <1>1, <1>2, <1>6
  <2>3. IsFiniteSet(S)
    <3>1. S \in SUBSET (0 .. TxN-1)
      BY <1>2
    <3>2. IsFiniteSet(0 .. TxN-1)
      BY RingSizes, FS_Interval
    <3> HIDE DEF S
    <3> QED BY <3>1, <3>2, FS_Subset
  <2>4. Cardinality(S) = n
    BY <1>5, <1>7 DEF TxPending
  <2> HIDE DEF S
  <2>5. Cardinality(S \ {txDma}) = Cardinality(S) - 1
    BY <2>2, <2>3, FS_RemoveElement
  <2> QED BY <2>1, <2>4, <2>5 DEF TxPending
<1>9. ASSUME NEW k \in 1 .. n - 1
      PROVE  txRing'[(txDma' + (k - 1)) % TxN].load
                 = txRing[SlotAt(txHead, d + ((k + 1) - 1), TxN)].load
  <2>1. PICK j \in 1 .. TxN : j = k /\ d + j < u
    BY <1>4, <1>7, RingSizes
  <2>2. txDma' = SlotAt(txHead, d + 1, TxN)
    <3>1. 2 \in 1 .. (u - d) + 1 /\ d + (2 - 1) = d + 1 /\ txDma + (2 - 1) = txDma + 1
      BY <1>4, <1>6
    <3> QED BY <1>1, <1>5, <3>1
  <2>3. txDma' \in 0 .. TxN-1
    <3>1. d + 1 \in 0 .. TxN
      BY <1>4, <1>6, RingSizes
    <3> QED BY <1>2, <2>2, <3>1, RingSizes, SlotAtIs
  <2>4. (txDma' + (k - 1)) % TxN = SlotAt(txDma', k - 1, TxN)
    <3>1. PICK i \in 0 .. TxN : i = k - 1
      <4>1. k - 1 \in 0 .. TxN
        BY <2>1, RingSizes
      <4> QED BY <4>1
    <3>2. (txDma' + i) % TxN = SlotAt(txDma', i, TxN)
      BY <2>3, <3>1, RingSizes, SlotAtIs
    <3> QED BY <3>1, <3>2
  <2>5. SlotAt(txDma', k - 1, TxN) = SlotAt(txHead, d + j, TxN)
    BY <1>2, <1>4, <2>1, <2>2, RingSizes DEF SlotAt
  <2>6. d + j \in 0 .. TxN-1 /\ d + j # d /\ d \in 0 .. TxN-1
    BY <1>4, <1>6, <2>1, RingSizes
  <2>7. SlotAt(txHead, d + j, TxN) # txDma
    BY <1>2, <1>4, <2>6, RingSizes, SlotSteps
  <2>8. SlotAt(txHead, d + j, TxN) \in 0 .. TxN-1
    <3>1. d + j \in 0 .. TxN
      BY <2>6, RingSizes
    <3> QED BY <1>2, <3>1, RingSizes, SlotAtIs
  <2>9. d + j = d + ((k + 1) - 1)
    BY <2>1
  <2> QED BY <1>1, <1>2, <2>4, <2>5, <2>7, <2>8, <2>9
<1>10. OutFrames = [k \in 1 .. n |-> txRing[SlotAt(txHead, d + (k - 1), TxN)].load]
  BY <1>5, <1>7
<1>11. OutFrames' = [k \in 1 .. n - 1 |-> txRing[SlotAt(txHead, d + ((k + 1) - 1), TxN)].load]
  BY <1>8, <1>9 DEF OutFrames
<1>12. OutFrames # <<>> /\ Len(OutFrames) = n
  BY <1>7, <1>10
<1>13. OutFrames' = Tail(OutFrames)
  <2>1. Tail(OutFrames) = [k \in 1 .. n - 1 |-> OutFrames[k + 1]]
    BY <1>10, <1>12
  <2>2. ASSUME NEW k \in 1 .. n - 1
        PROVE  OutFrames[k + 1] = txRing[SlotAt(txHead, d + ((k + 1) - 1), TxN)].load
    <3>1. k + 1 \in 1 .. n
      BY <1>7
    <3> QED BY <1>10, <3>1
  <2> QED BY <1>11, <2>1, <2>2
<1>14. wire' = Head(OutFrames)
  <2>1. Head(OutFrames) = OutFrames[1]
    BY <1>10, <1>12
  <2>2. 1 \in 1 .. n /\ d + (1 - 1) = d
    BY <1>7
  <2>3. OutFrames[1] = txRing[SlotAt(txHead, d + (1 - 1), TxN)].load
    BY <1>10, <2>2
  <2> QED BY <1>1, <1>4, <2>1, <2>2, <2>3
<1>15. InFrames' = InFrames
  BY <1>1 DEF InFrames, RxPending, RxSlot
<1> QED BY <1>1, <1>12, <1>13, <1>14, <1>15 DEF W!Leave

\* A frame comes in behind the others.
LEMMA RxDmaRefines ==
    ASSUME EthOK, WireInv, NEW dst \in Address, RxDma(dst)
    PROVE  W!Come
<1>1. /\ rxRing[rxDma].own
      /\ rxRing' = [rxRing EXCEPT ![rxDma] = [own |-> FALSE, dst |-> dst]]
      /\ UNCHANGED <<rxHead, txRing, txDma, wire, ethgot, ed_mca>>
  BY DEF RxDma, txvars, mcvars
<1>2. /\ RxOK /\ rxHead \in 0 .. RxN-1
      /\ rxRing \in [0 .. RxN-1 -> [own : BOOLEAN, dst : Address \cup {Noload}]]
  BY DEF WireInv, EtherInv, RxOK
<1>3. PICK a, b \in Nat : RxShape(a, b)
  BY <1>2 DEF RxOK
<1>4. /\ b \in 0 .. RxN-1 /\ rxDma = SlotAt(rxHead, b, RxN)
  BY <1>3 DEF RxShape
<1>5. /\ RxPending = b
      /\ InFrames = [k \in 1 .. b |-> rxRing[SlotAt(rxHead, k - 1, RxN)].dst]
  BY <1>2, <1>3, InFramesAre
<1>6. rxDma \in 0 .. RxN-1 /\ b \in 0 .. RxN
  <2>1. b \in 0 .. RxN
    BY <1>4, RingSizes
  <2> QED BY <1>2, <1>4, <2>1, RingSizes, SlotAtIs
<1>7. RxPending' = b + 1
  <2> DEFINE S == {i \in DOMAIN rxRing : ~rxRing[i].own}
  <2>1. {i \in DOMAIN rxRing' : ~rxRing'[i].own} = S \cup {rxDma}
    BY <1>1, <1>2, <1>6
  <2>2. rxDma \notin S
    BY <1>1
  <2>3. IsFiniteSet(S)
    <3>1. S \in SUBSET (0 .. RxN-1)
      BY <1>2
    <3>2. IsFiniteSet(0 .. RxN-1)
      BY RingSizes, FS_Interval
    <3> HIDE DEF S
    <3> QED BY <3>1, <3>2, FS_Subset
  <2>4. Cardinality(S) = b
    BY <1>5 DEF RxPending
  <2> HIDE DEF S
  <2>5. Cardinality(S \cup {rxDma}) = Cardinality(S) + 1
    BY <2>2, <2>3, FS_AddElement
  <2> QED BY <2>1, <2>4, <2>5 DEF RxPending
<1>8. ASSUME NEW k \in 1 .. b + 1
      PROVE  rxRing'[RxSlot(k - 1)].dst
                 = IF k = b + 1 THEN dst ELSE rxRing[SlotAt(rxHead, k - 1, RxN)].dst
  <2>1. PICK j \in 0 .. RxN-1 : j = k - 1
    <3>1. k - 1 \in 0 .. RxN-1
      BY <1>4, RingSizes
    <3> QED BY <3>1
  <2>2. RxSlot(j) = SlotAt(rxHead, j, RxN) /\ SlotAt(rxHead, j, RxN) \in 0 .. RxN-1
    <3>1. j \in 0 .. RxN
      BY RingSizes
    <3> QED BY <1>2, <3>1, RingSizes, SlotAtIs DEF RxSlot
  <2>3. CASE k = b + 1
    <3>1. j = b
      BY <1>4, <2>1, <2>3
    <3>2. RxSlot(k - 1) = rxDma
      BY <1>4, <2>1, <2>2, <3>1
    <3> QED BY <1>1, <1>2, <1>6, <2>3, <3>2
  <2>4. CASE k # b + 1
    <3>1. j # b
      BY <1>4, <2>1, <2>4
    <3>2. SlotAt(rxHead, j, RxN) # rxDma
      BY <1>2, <1>4, <3>1, RingSizes, SlotSteps
    <3>3. rxRing'[SlotAt(rxHead, j, RxN)] = rxRing[SlotAt(rxHead, j, RxN)]
      BY <1>1, <1>2, <2>2, <3>2
    <3> QED BY <2>1, <2>2, <2>4, <3>3
  <2> QED BY <2>3, <2>4
<1>9. InFrames' = [k \in 1 .. b + 1 |-> IF k = b + 1 THEN dst
                                        ELSE rxRing[SlotAt(rxHead, k - 1, RxN)].dst]
  <2>1. InFrames' = [k \in 1 .. b + 1 |-> rxRing'[RxSlot(k - 1)].dst]
    BY <1>1, <1>7 DEF InFrames, RxSlot
  <2> QED BY <1>8, <2>1
<1>10. InFrames' = Append(InFrames, dst)
  <2>1. Len(InFrames) = b
    BY <1>5
  <2>2. InFrames' = [k \in 1 .. Len(InFrames) + 1 |->
                        IF k = Len(InFrames) + 1 THEN dst ELSE InFrames[k]]
    BY <1>5, <1>9, <2>1
  <2> QED BY <1>5, <2>1, <2>2
<1>11. OutFrames' = OutFrames
  BY <1>1 DEF OutFrames, TxPending
<1> QED BY <1>1, <1>10, <1>11 DEF W!Come

\* A reader takes the first frame that is meant for this station, and drops
\* those before it, or drops all that it was told of.
LEMMA ReadFromRefines ==
    ASSUME WireInv, NEW p \in EthReader,
           NEW a \in Nat, NEW b \in Nat, RxShape(a, b),
           NEW sem, SemOK(sem, EthProc), InLine(sem) \subseteq Readers \ {p},
           sem.count + Cardinality(Readers \ {p}) = a - 1,
           ReadFrom(p, Units(sem), sem),
           UNCHANGED <<txRing, txDma, wire, ed_mca>>
    PROVE  W!Read(p) \/ W!DropOthers
<1> DEFINE units == Units(sem)
           valid == Fitting(units)
           n     == FramesTaken(units)
<1>1. /\ rxHead' = RxSlot(n)
      /\ rxRing' = [i \in DOMAIN rxRing |->
                       IF i \in GivenBack(n) THEN [own |-> TRUE, dst |-> Noload] ELSE rxRing[i]]
      /\ ethgot' = IF valid = {} THEN ethgot
                                 ELSE [ethgot EXCEPT ![p] = rxRing[RxSlot(n-1)].dst]
  BY DEF ReadFrom, Fitting, FramesTaken
<1>2. /\ RxOK /\ rxHead \in 0 .. RxN-1 /\ ed_mca \in Seq(McAddr)
      /\ rxRing \in [0 .. RxN-1 -> [own : BOOLEAN, dst : Address \cup {Noload}]]
      /\ \A i \in 0 .. RxN-1 : ~rxRing[i].own => rxRing[i].dst \in Address
  BY DEF WireInv, EtherInv, RxOK
<1>3. /\ b \in 0 .. RxN-1 /\ a \in 0 .. b
      /\ \A k \in 0 .. RxN-1 : rxRing[SlotAt(rxHead, k, RxN)].own <=> b <= k
  BY DEF RxShape
<1>4. /\ units + 1 <= a /\ units \in Nat /\ n \in 1 .. units + 1 /\ n \in 1 .. a
      /\ valid # {} => Min(valid) \in valid /\ \A k \in valid : Min(valid) <= k
  BY ReadsSeen, UnitsAre
<1>5. InFrames = [k \in 1 .. b |-> rxRing[SlotAt(rxHead, k - 1, RxN)].dst]
  BY <1>2, InFramesAre
<1>6. n \in 1 .. b /\ b < RxN /\ n \in 0 .. RxN /\ b \in 0 .. RxN
  <2> HIDE DEF n
  <2> QED BY <1>3, <1>4, RingSizes
<1>7. ASSUME NEW k \in 0 .. RxN-1
      PROVE  rxRing'[SlotAt(rxHead, k, RxN)]
                 = IF k < n THEN [own |-> TRUE, dst |-> Noload] ELSE rxRing[SlotAt(rxHead, k, RxN)]
  <2> HIDE DEF n
  <2> QED BY <1>1, <1>2, <1>4, FramesGiven
<1>8. ASSUME NEW j \in 0 .. units
      PROVE  /\ j + 1 \in 1 .. b
             /\ RxSlot(j) = SlotAt(rxHead, j, RxN)
             /\ InFrames[j + 1] = rxRing[RxSlot(j)].dst
             /\ InFrames[j + 1] \in Address
             /\ W!Meant(InFrames[j + 1]) <=> j \in valid
  <2>1. j + 1 \in 1 .. b /\ j \in 0 .. RxN /\ j \in 0 .. RxN-1 /\ ~(b <= j) /\ (j + 1) - 1 = j
    <3> HIDE DEF units
    <3> QED BY <1>3, <1>4, RingSizes
  <2>2. RxSlot(j) = SlotAt(rxHead, j, RxN) /\ SlotAt(rxHead, j, RxN) \in 0 .. RxN-1
    BY <1>2, <2>1, RingSizes, SlotAtIs DEF RxSlot
  <2>3. InFrames[j + 1] = rxRing[RxSlot(j)].dst
    BY <1>5, <2>1, <2>2
  <2>4. InFrames[j + 1] \in Address
    BY <1>2, <1>3, <2>1, <2>2, <2>3
  <2>5. j \in valid <=> ValidAddr(rxRing[RxSlot(j)].dst)
    BY <1>8 DEF Fitting
  <2> QED BY <1>2, <2>1, <2>2, <2>3, <2>4, <2>5, MeantIs
<1> HIDE DEF units, valid, n
<1>9. rxHead' = SlotAt(rxHead, n, RxN) /\ rxHead' \in 0 .. RxN-1
  BY <1>1, <1>2, <1>6, RingSizes, SlotAtIs, ZenonT(60) DEF RxSlot
<1>10. RxPending' = b - n
  <2> DEFINE S == {i \in DOMAIN rxRing' : ~rxRing'[i].own}
  <2>0. DOMAIN rxRing' = 0 .. RxN-1
    BY <1>1, <1>2
  <2>1. ASSUME NEW k \in 0 .. RxN-1 PROVE SlotAt(rxHead, k, RxN) \in S <=> (n <= k /\ k < b)
    <3>1. SlotAt(rxHead, k, RxN) \in 0 .. RxN-1
      <4>1. k \in 0 .. RxN
        BY RingSizes
      <4> QED BY <1>2, <4>1, RingSizes, SlotAtIs
    <3>2. rxRing[SlotAt(rxHead, k, RxN)].own <=> b <= k
      BY <1>3
    <3>3. CASE k < n
      <4>1. rxRing'[SlotAt(rxHead, k, RxN)].own
        BY <1>7, <3>3
      <4> QED BY <1>6, <3>3, <4>1
    <3>4. CASE ~(k < n)
      <4>1. rxRing'[SlotAt(rxHead, k, RxN)] = rxRing[SlotAt(rxHead, k, RxN)]
        BY <1>7, <3>4
      <4> QED BY <1>6, <2>0, <3>1, <3>2, <3>4, <4>1
    <3> QED BY <3>3, <3>4
  <2>2. S \in SUBSET (0 .. RxN-1)
    BY <2>0
  <2> HIDE DEF S
  <2>3. S = Slots(rxHead, n, b, RxN)
    <3>1. ASSUME NEW i \in S PROVE i \in Slots(rxHead, n, b, RxN)
      <4>1. PICK k \in 0 .. RxN-1 : SlotAt(rxHead, k, RxN) = i
        BY <1>2, <2>2, RingSizes, SlotSteps
      <4>2. k \in n .. b-1
        BY <1>6, <2>1, <4>1
      <4> QED BY <4>1, <4>2 DEF Slots
    <3>2. ASSUME NEW k \in n .. b-1 PROVE SlotAt(rxHead, k, RxN) \in S
      <4>1. k \in 0 .. RxN-1 /\ n <= k /\ k < b
        BY <1>6, RingSizes
      <4> QED BY <2>1, <4>1
    <3> QED BY <3>1, <3>2 DEF Slots
  <2>4. Cardinality(S) = b - n
    <3>1. n \in 0 .. b
      BY <1>6
    <3> QED BY <1>2, <1>6, <2>3, <3>1, RingSizes, SlotsCounted
  <2> QED BY <2>4 DEF RxPending, S
<1>11. ASSUME NEW k \in 1 .. b - n
       PROVE  rxRing'[(rxHead' + (k - 1)) % RxN].dst = InFrames[n + k]
  <2>1. PICK j \in 0 .. RxN : j = k - 1 /\ n + j < b
    <3>1. k - 1 \in 0 .. RxN /\ n + (k - 1) < b
      BY <1>6, RingSizes
    <3> QED BY <3>1
  <2>2. (rxHead' + j) % RxN = SlotAt(rxHead', j, RxN)
    BY <1>9, RingSizes, SlotAtIs
  <2>3. SlotAt(rxHead', j, RxN) = SlotAt(rxHead, n + j, RxN)
    BY <1>2, <1>6, <1>9, <2>1, RingSizes DEF SlotAt
  <2>4. n + j \in 0 .. RxN-1 /\ ~(n + j < n) /\ n + k \in 1 .. b /\ (n + k) - 1 = n + j
    BY <1>6, <2>1, RingSizes
  <2>5. rxRing'[SlotAt(rxHead, n + j, RxN)] = rxRing[SlotAt(rxHead, n + j, RxN)]
    BY <1>7, <2>4
  <2> QED BY <1>5, <2>1, <2>2, <2>3, <2>4, <2>5
<1>12. InFrames' = SubSeq(InFrames, n + 1, Len(InFrames))
  <2>1. InFrames' = [k \in 1 .. b - n |-> rxRing'[(rxHead' + (k - 1)) % RxN].dst]
    BY <1>10 DEF InFrames, RxSlot
  <2>2. InFrames' = [k \in 1 .. b - n |-> InFrames[n + k]]
    BY <1>11, <2>1
  <2>3. Len(InFrames) = b /\ \A k \in 1 .. b : InFrames[k] = rxRing[SlotAt(rxHead, k - 1, RxN)].dst
    BY <1>5
  <2>4. SubSeq(InFrames, n + 1, b) = [k \in 1 .. b - n |-> InFrames[k + n]]
    <3>1. PICK m \in Int : m = n + 1
      BY <1>6
    <3>2. SubSeq(InFrames, m, b) = [k \in 1 .. (1 + b) - m |-> InFrames[k + m - 1]]
      OBVIOUS
    <3>3. (1 + b) - m = b - n /\ \A k \in 1 .. b - n : k + m - 1 = k + n
      BY <1>6, <3>1
    <3> QED BY <3>1, <3>2, <3>3
  <2>5. \A k \in 1 .. b - n : n + k = k + n
    BY <1>6
  <2> QED BY <2>2, <2>3, <2>4, <2>5
<1>13. OutFrames' = OutFrames
  BY DEF OutFrames, TxPending
<1>14. n \in DOMAIN InFrames /\ n - 1 \in 0 .. units /\ (n - 1) + 1 = n
  BY <1>4, <1>5, <1>6
<1>15. CASE valid = {}
  <2>1. n = units + 1
    BY <1>15 DEF valid, n, FramesTaken
  <2>2. ASSUME NEW j \in 1 .. n PROVE ~W!Meant(InFrames[j])
    <3>1. PICK i \in 0 .. units : i = j - 1 /\ i + 1 = j
      <4>1. j - 1 \in 0 .. units /\ (j - 1) + 1 = j
        BY <1>4, <2>1
      <4> QED BY <4>1
    <3> QED BY <1>8, <1>15, <3>1
  <2>3. W!Others(n)
    BY <2>2 DEF W!Others
  <2>4. ethgot' = ethgot
    BY <1>1, <1>15
  <2> QED BY <1>12, <1>13, <1>14, <2>3, <2>4 DEF W!DropOthers
<1>16. CASE valid # {}
  <2>1. n = Min(valid) + 1 /\ Min(valid) \in valid
    BY <1>4, <1>16 DEF valid, n, FramesTaken
  <2>2. Min(valid) \in 0 .. units /\ n - 1 = Min(valid)
    <3>1. Min(valid) \in 0 .. units
      BY <2>1 DEF valid, Fitting
    <3> QED BY <1>4, <2>1, <3>1
  <2>3. ASSUME NEW j \in 1 .. n - 1 PROVE ~W!Meant(InFrames[j])
    <3>1. PICK i \in 0 .. units : i = j - 1 /\ i + 1 = j /\ i < Min(valid)
      <4>1. j - 1 \in 0 .. units /\ (j - 1) + 1 = j /\ j - 1 < Min(valid)
        BY <1>4, <2>2
      <4> QED BY <4>1
    <3>2. i \notin valid
      BY <1>4, <1>16, <2>2, <3>1
    <3> QED BY <1>8, <3>1, <3>2
  <2>4. W!Others(n-1)
    BY <2>3 DEF W!Others
  <2>5. W!Meant(InFrames[n]) /\ InFrames[n] = rxRing[RxSlot(n-1)].dst
    BY <1>8, <1>14, <2>1, <2>2
  <2>6. ethgot' = [ethgot EXCEPT ![p] = InFrames[n]]
    BY <1>1, <1>16, <2>5
  <2> QED BY <1>12, <1>13, <1>14, <2>4, <2>5, <2>6 DEF W!Read
<1> QED BY <1>15, <1>16

LEMMA EthreadRefines ==
    ASSUME WireInv, NEW p \in EthReader, Ethread(p) \/ EthreadEnd(p)
    PROVE  W!Read(p) \/ W!DropOthers \/ SameWire
<1>1. UNCHANGED <<txRing, txDma, wire, ed_mca>>
  BY DEF Ethread, EthreadEnd, txvars, mcvars
<1>2. /\ RxOK /\ SemOK(isem, EthProc) /\ InLine(isem) \subseteq Readers /\ p \in EthProc
      /\ isem.count \in Int /\ isem.line \in Queue(EthProc)
      /\ isem = [count |-> isem.count, line |-> isem.line]
      /\ isem.count >= 0 => isem.line = <<>>
  BY DEF WireInv, EtherInv, RxOK, EthProc, SemOK
<1>3. PICK a, b \in Nat : RxShape(a, b)
  BY <1>2 DEF RxOK
<1>4. isem.count + Cardinality(Readers) = a
  BY <1>3 DEF RxShape
<1>5. PICK c \in Int, m \in Nat : c = isem.count /\ m = Cardinality(Readers) /\ c + m = a
  BY <1>2, <1>4, ReadersFinite
<1>6. CASE Ethread(p)
  <2>1. CASE /\ isem.count > 0
             /\ ReadFrom(p, isem.count - 1, [isem EXCEPT !.count = @ - 1])
    <3> DEFINE sem == [isem EXCEPT !.count = @ - 1]
    <3>1. sem = [count |-> isem.count - 1, line |-> isem.line]
      BY <1>2
    <3>2. sem.count = c - 1 /\ sem.line = isem.line /\ c > 0
      BY <1>5, <2>1, <3>1
    <3>3. SemOK(sem, EthProc) /\ InLine(sem) = InLine(isem)
      <4>1. sem = [count |-> sem.count, line |-> sem.line]
        BY <3>1, <3>2
      <4>2. sem.count \in Int /\ sem.count >= 0
        BY <3>2
      <4>3. sem.line \in Queue(EthProc) /\ sem.line = <<>>
        BY <1>2, <1>5, <3>2
      <4> HIDE DEF sem
      <4> QED BY <3>2, <4>1, <4>2, <4>3 DEF SemOK, InLine
    <3>4. Units(sem) = isem.count - 1
      BY <1>5, <3>2 DEF Units
    <3>5. ReadFrom(p, Units(sem), sem)
      BY <2>1, <3>4
    <3> HIDE DEF sem
    <3>6. p \notin Readers /\ Readers \ {p} = Readers
      BY <1>6 DEF Ethread, EthFree, Readers, EthIdle
    <3>7. InLine(sem) \subseteq Readers \ {p}
      BY <1>2, <3>3, <3>6
    <3>8. sem.count + Cardinality(Readers \ {p}) = a - 1
      <4>1. sem.count + Cardinality(Readers) = a - 1
        BY <1>5, <3>2
      <4> QED BY <3>6, <4>1
    <3> QED BY <1>1, <1>3, <3>3, <3>5, <3>7, <3>8, ReadFromRefines
  <2>2. CASE UNCHANGED <<rxRing, rxHead, ethgot>>
    BY <1>1, <2>2 DEF SameWire
  <2> QED BY <1>6, <2>1, <2>2 DEF Ethread
<1>7. CASE EthreadEnd(p)
  <2>1. /\ p \in Readers /\ p \notin InLine(isem)
        /\ ReadFrom(p, Units(isem), isem)
    BY <1>2, <1>7 DEF EthreadEnd, EthGoesOn, Readers
  <2>2. Readers \cup {p} = Readers
    BY <2>1
  <2>3. m = Cardinality(Readers \ {p}) + 1 /\ Cardinality(Readers \ {p}) \in Nat
    BY <1>5, <2>2, ReadersFinite
  <2>4. isem.count + Cardinality(Readers \ {p}) = a - 1
    BY <1>5, <2>3
  <2>5. InLine(isem) \subseteq Readers \ {p}
    BY <1>2, <2>1
  <2> QED BY <1>1, <1>2, <1>3, <2>1, <2>4, <2>5, ReadFromRefines
<1> QED BY <1>6, <1>7

LEMMA EthGroupsRefine ==
    ASSUME EthOK, WireInv, NEW a \in McAddr, EthmcastAdd(a) \/ EthmcastRemove(a)
    PROVE  W!JoinOrLeave
<1>1. UNCHANGED <<txRing, txDma, rxRing, rxHead, wire, ethgot>>
  BY DEF EthmcastAdd, EthmcastRemove, txvars, rxvars
<1>2. WireInv'
  <2>1. EtherNext
    BY DEF EtherNext, EthGroups
  <2> QED BY <2>1, WireInvStep
<1>3. Range(ed_mca') \subseteq McAddr
  BY <1>2 DEF WireInv, Range
<1>4. OutFrames' = OutFrames /\ InFrames' = InFrames
  BY <1>1 DEF OutFrames, TxPending, InFrames, RxPending, RxSlot
<1> QED BY <1>1, <1>3, <1>4 DEF W!JoinOrLeave, Range

LEMMA EtherRefines ==
    ASSUME EthOK, WireInv, [EtherNext]_ethvars
    PROVE  W!WireNext \/ UNCHANGED W!wirevars
<1>1. CASE EthWrites
  BY <1>1, EthwriteRefines, SameWireStutters DEF EthWrites, W!WireNext
<1>2. CASE EthReads
  BY <1>2, EthreadRefines, SameWireStutters DEF EthReads, W!WireNext
<1>3. CASE TxDma
  BY <1>3, TxDmaRefines DEF W!WireNext
<1>4. CASE EthArrivals
  BY <1>4, RxDmaRefines DEF EthArrivals, W!WireNext
<1>5. CASE EthInterrupt \/ UNCHANGED ethvars
  <2>1. SameWire
    BY <1>5 DEF EthInterrupt, EthHandler, TxScan, RxScan, SameWire, ethvars, txvars, rxvars, mcvars
  <2> QED BY <2>1, SameWireStutters
<1>6. CASE EthGroups
  BY <1>6, EthGroupsRefine DEF EthGroups, W!WireNext
<1> QED BY <1>1, <1>2, <1>3, <1>4, <1>5, <1>6 DEF EtherNext

LEMMA EtherStartsWire ==
    ASSUME EtherInit
    PROVE  W!WireInit
<1>1. /\ txRing = [i \in 0 .. TxN-1 |-> [own |-> FALSE, load |-> Noload]]
      /\ rxRing = [i \in 0 .. RxN-1 |-> [own |-> TRUE, dst |-> Noload]]
      /\ ed_mca = <<>> /\ ethgot = [p \in EthReader |-> Noload] /\ wire = Noload
  BY DEF EtherInit
<1>2. TxPending = 0 /\ RxPending = 0
  <2>1. {i \in DOMAIN txRing : txRing[i].own} = {} /\ {i \in DOMAIN rxRing : ~rxRing[i].own} = {}
    BY <1>1
  <2> QED BY <2>1, FS_EmptySet DEF TxPending, RxPending
<1>3. OutFrames = <<>> /\ InFrames = <<>>
  BY <1>2 DEF OutFrames, InFrames
<1>4. Range(ed_mca) = {}
  BY <1>1 DEF Range
<1> QED BY <1>1, <1>3, <1>4 DEF W!WireInit

\* The interface is a wire: frames leave and are read in order, each once,
\* whatever the DMA and the handler do in between.
THEOREM EtherImplementsWire == ASSUME EthOK PROVE EtherSpec => WireRefined
<1>1. EtherInit => WireInv /\ W!WireInit
  BY WireInitInv, EtherStartsWire
<1>2. WireInv /\ [EtherNext]_ethvars => WireInv'
  BY WireInvStep
<1>3. WireInv /\ [EtherNext]_ethvars => [W!WireNext]_(W!wirevars)
  BY EtherRefines
<1> QED BY <1>1, <1>2, <1>3, PTL DEF EtherSpec, WireRefined, W!WireSpec
=============================================================================
