-------------------------------- MODULE Pools --------------------------------
(***************************************************************************)
(* Buffer pools (system/mkbufpool.c, getbuf.c, freebuf.c) over the memory  *)
(* allocator, and the stacks of the processes that use them (create.c,     *)
(* kill.c).  A buffer is one unit of memory and is named by its address.   *)
(* The semaphore of a pool counts the buffers of its list; a process that  *)
(* the semaphore has let in takes the first buffer of the list only when   *)
(* it runs.                                                                *)
(***************************************************************************)
EXTENDS Memory, SemLine

CONSTANTS User,        \* processes that use pools
          NBPOOLS,     \* entries of the pool table
          PoolSizes,   \* numbers of buffers given to mkbufpool
          StackSize,   \* the stack of a process
          SemsLast,    \* TRUE: semcreate never fails
          PoolVictims  \* may a process be killed when it waits, or is let in?

ASSUME PoolsAssumption ==
    /\ IsFiniteSet(User)
    /\ NBPOOLS \in Nat /\ PoolSizes \subseteq Nat \ {0} /\ StackSize \in Nat \ {0}
    /\ SemsLast \in BOOLEAN /\ PoolVictims \in BOOLEAN

VARIABLES buftab,    \* the pools that have been made: list, semaphore, memory
          bpcall,    \* what each process is doing
          holds,     \* the buffers each process holds
          stack      \* the stack of each process, or NoBlock

poolvars == <<memlist, mlength, blocks, buftab, bpcall, holds, stack>>

NoBlock == Block(0, 0)
Pool    == 1 .. Len(buftab)

Alive(p)     == stack[p] # NoBlock
BpIdle       == [op |-> "idle"]
BpGet(i)     == [op |-> "getbuf", pool |-> i]
LetIn(p)     == bpcall[p].op = "getbuf" /\ p \notin InLine(buftab[bpcall[p].pool].bpsem)
PoolCall(p)  == Alive(p) /\ bpcall[p] = BpIdle

PoolsInit ==
    /\ MemoryInit
    /\ buftab = <<>>
    /\ bpcall = [p \in User |-> BpIdle]
    /\ holds  = [p \in User |-> {}]
    /\ stack  = [p \in User |-> NoBlock]

\* create: only what it does to memory.
CreateStack(p) ==
    /\ ~Alive(p)
    /\ Getstk(StackSize)
    /\ stack' = [stack EXCEPT ![p] = CHOOSE b \in blocks' : b \notin blocks]
    /\ UNCHANGED <<buftab, bpcall, holds>>

\* The list of a new pool has all the buffers of its block.
NewPool(b, n) ==
    [bpnext |-> [k \in 1 .. n |-> b.addr + k - 1], bpsem |-> NewSem(n), memory |-> b]

\* mkbufpool: memory first, then the semaphore; if there is none the memory
\* is not given back.
Mkbufpool(n, sem) ==
    /\ Len(buftab) < NBPOOLS
    /\ Getmem(n)
    /\ LET b == CHOOSE b \in blocks' : b \notin blocks
       IN  buftab' = IF sem THEN Append(buftab, NewPool(b, n)) ELSE buftab
    /\ UNCHANGED <<bpcall, holds, stack>>

\* The rest of getbuf, after the wait.
Unlink(p, i, pool) ==
    /\ buftab' = [buftab EXCEPT ![i] = [pool EXCEPT !.bpnext = Tail(@)]]
    /\ holds'  = [holds EXCEPT ![p] = @ \cup {Head(pool.bpnext)}]
    /\ bpcall' = [bpcall EXCEPT ![p] = BpIdle]

\* Mutant of Getbuf: the semaphore is not asked when the list has a buffer.
GetbufAtOnce(p, i) ==
    /\ PoolCall(p)
    /\ buftab[i].bpnext # <<>>
    /\ Unlink(p, i, buftab[i])
    /\ UNCHANGED <<memvars, stack>>

Getbuf(p, i) ==
    /\ PoolCall(p)
    /\ LET pool == [buftab[i] EXCEPT !.bpsem = SemWait(@, p)]
       IN  \/ /\ p \in InLine(pool.bpsem)
              /\ buftab' = [buftab EXCEPT ![i] = pool]
              /\ bpcall' = [bpcall EXCEPT ![p] = BpGet(i)]
              /\ UNCHANGED holds
           \/ /\ p \notin InLine(pool.bpsem)
              /\ Unlink(p, i, pool)
    /\ UNCHANGED <<memvars, stack>>

GetbufEnd(p) ==
    /\ Alive(p) /\ LetIn(p)
    /\ Unlink(p, bpcall[p].pool, buftab[bpcall[p].pool])
    /\ UNCHANGED <<memvars, stack>>

\* The pool whose number getbuf stored in front of the buffer.
PoolOf(buf) == CHOOSE i \in Pool : buf \in Bytes(buftab[i].memory)

Freebuf(p, buf) ==
    /\ PoolCall(p)
    /\ buf \in holds[p]
    /\ buftab' = [buftab EXCEPT ![PoolOf(buf)].bpnext = <<buf>> \o @,
                                ![PoolOf(buf)].bpsem  = SemSignal(@)]
    /\ holds'  = [holds EXCEPT ![p] = @ \ {buf}]
    /\ UNCHANGED <<memvars, bpcall, stack>>

\* Buffers are passed between processes, as netin and ip_enqueue do.
Pass(p, q, buf) ==
    /\ PoolCall(p) /\ Alive(q) /\ p # q
    /\ buf \in holds[p]
    /\ holds' = [holds EXCEPT ![p] = @ \ {buf}, ![q] = @ \cup {buf}]
    /\ UNCHANGED <<memvars, buftab, bpcall, stack>>

KilledInLine(p) ==
    IF bpcall[p].op = "getbuf"
    THEN [buftab EXCEPT ![bpcall[p].pool].bpsem = SemKill(@, p)]
    ELSE buftab

\* kill: the stack is given back, the buffers are not.
KillUser(p) ==
    /\ Alive(p)
    /\ PoolVictims \/ bpcall[p] = BpIdle
    /\ Freemem(stack[p])
    /\ stack'  = [stack EXCEPT ![p] = NoBlock]
    /\ buftab' = KilledInLine(p)
    /\ bpcall' = [bpcall EXCEPT ![p] = BpIdle]
    /\ holds'  = [holds EXCEPT ![p] = {}]

PoolsNext ==
    \/ /\ MemoryNext
       /\ UNCHANGED <<buftab, bpcall, holds, stack>>
       /\ \A b \in blocks \ blocks' :
             b \notin {stack[p] : p \in User} \cup {buftab[i].memory : i \in Pool}
    \/ \E n \in PoolSizes, sem \in {TRUE, SemsLast} : Mkbufpool(n, sem)
    \/ \E p \in User :
          \/ CreateStack(p) \/ KillUser(p) \/ GetbufEnd(p)
          \/ \E i \in Pool : Getbuf(p, i)
          \/ \E buf \in holds[p] : Freebuf(p, buf) \/ \E q \in User : Pass(p, q, buf)

-----------------------------------------------------------------------------
Held    == UNION {holds[p] : p \in User}
Entering(i) == {p \in User : LetIn(p) /\ bpcall[p].pool = i}

\* A process that the semaphore has let in finds a buffer: getbuf.c:31 does
\* not look whether there is one.
BufferForEveryUnit ==
    \A i \in Pool :
        Units(buftab[i].bpsem) + Cardinality(Entering(i)) <= Len(buftab[i].bpnext)

\* A buffer is on the list of the pool it was made in, once, or held by one
\* process; buffers go back where they came from (freebuf.c:22).
BuffersOwned ==
    /\ BufferForEveryUnit
    /\ \A i \in Pool : /\ IsInjective(buftab[i].bpnext)
                       /\ Range(buftab[i].bpnext) \subseteq Bytes(buftab[i].memory)
                       /\ Range(buftab[i].bpnext) \cap Held = {}
    /\ \A p, q \in User : p # q => holds[p] \cap holds[q] = {}
=============================================================================
