------------------------------- MODULE Memory -------------------------------
(***************************************************************************)
(* The memory allocator (system/getmem.c, freemem.c, getstk.c): the free   *)
(* list memlist, in the order of its links.  Addresses and lengths are in  *)
(* units of a memory block (roundmb): every request is rounded up to one.  *)
(* Calls do not wait, so each is one action.                               *)
(***************************************************************************)
EXTENDS Integers, Sequences, SequencesExt, FiniteSets, FiniteSetsExt

CONSTANTS Heap,      \* the first usable regions: <<[addr, len], ...>>, by address
          Sizes      \* the sizes that are asked for

ASSUME MemoryAssumption ==
    /\ Heap \in Seq([addr : Nat \ {0}, len : Nat \ {0}])
    /\ \A i, j \in DOMAIN Heap : i < j => Heap[i].addr + Heap[i].len <= Heap[j].addr
    /\ Sizes \subseteq Nat \ {0}

VARIABLES memlist,   \* the list of free blocks
          mlength,   \* memlist.mlength, the number of free bytes
          blocks     \* the blocks callers hold: they free nothing else, except twice

memvars == <<memlist, mlength, blocks>>

Block(a, n) == [addr |-> a, len |-> n]
Top(b)      == b.addr + b.len
Bytes(b)    == b.addr .. Top(b) - 1
minheap     == Heap[1].addr
maxheap     == Top(Heap[Len(Heap)])

\* What meminit adds up, region by region.
HeapLength == MapThenSumSet(LAMBDA i : Heap[i].len, DOMAIN Heap)

\* meminit
MemoryInit ==
    /\ memlist = Heap
    /\ mlength = HeapLength
    /\ blocks  = {}

\* The blocks of the list that are large enough.
Fits(n) == {i \in DOMAIN memlist : memlist[i].len >= n}

\* Mutant of Getmem: the leftover of a split keeps the address of the block.
GetmemInPlace(n) ==
    /\ Fits(n) # {}
    /\ LET i == Min(Fits(n))
           b == memlist[i]
       IN  /\ memlist' = IF b.len = n THEN RemoveAt(memlist, i)
                                      ELSE ReplaceAt(memlist, i, Block(b.addr, b.len - n))
           /\ blocks'  = blocks \cup {Block(b.addr, n)}
    /\ mlength' = mlength - n

\* The first block that fits; what is left of it takes its place in the list.
Getmem(n) ==
    /\ Fits(n) # {}
    /\ LET i == Min(Fits(n))
           b == memlist[i]
       IN  /\ memlist' = IF b.len = n THEN RemoveAt(memlist, i)
                                      ELSE ReplaceAt(memlist, i, Block(b.addr + n, b.len - n))
           /\ blocks'  = blocks \cup {Block(b.addr, n)}
    /\ mlength' = mlength - n

\* The last block that fits, and of it the top.
Getstk(n) ==
    /\ Fits(n) # {}
    /\ LET i == Max(Fits(n))
           b == memlist[i]
       IN  /\ memlist' = IF b.len = n THEN RemoveAt(memlist, i)
                                      ELSE ReplaceAt(memlist, i, Block(b.addr, b.len - n))
           /\ blocks'  = blocks \cup {Block(Top(b) - n, n)}
    /\ mlength' = mlength - n

\* Where the walk of freemem stops: the number of blocks it passes.
Passed(b) ==
    CHOOSE k \in 0 .. Len(memlist) :
        /\ \A i \in 1 .. k : memlist[i].addr < b.addr
        /\ k < Len(memlist) => memlist[k + 1].addr >= b.addr

\* The checks of freemem.
Refused(b) ==
    LET k == Passed(b)
    IN  \/ b.addr < minheap \/ b.addr > maxheap
        \/ k > 0            /\ b.addr < Top(memlist[k])
        \/ k < Len(memlist) /\ Top(b) > memlist[k + 1].addr

\* The list with b joined to its neighbours, if it touches them.
WithFree(b) ==
    LET k    == Passed(b)
        prev == k > 0 /\ Top(memlist[k]) = b.addr
        next == k < Len(memlist) /\ Top(b) = memlist[k + 1].addr
        low  == IF prev THEN memlist[k].addr ELSE b.addr
        high == IF next THEN Top(memlist[k + 1]) ELSE Top(b)
    IN  SubSeq(memlist, 1, IF prev THEN k - 1 ELSE k)
        \o <<Block(low, high - low)>>
        \o SubSeq(memlist, IF next THEN k + 2 ELSE k + 1, Len(memlist))

\* A call that is refused returns SYSERR and changes nothing.
Freemem(b) ==
    /\ ~Refused(b)
    /\ memlist' = WithFree(b)
    /\ mlength' = mlength + b.len
    /\ blocks'  = blocks \ {b}

\* A caller frees what it holds, or frees again memory that is already free.
MayFree ==
    blocks \cup {Block(a, n) : a \in UNION {Bytes(memlist[i]) : i \in DOMAIN memlist}, n \in Sizes}

MemoryNext ==
    \/ \E n \in Sizes : Getmem(n) \/ Getstk(n)
    \/ \E b \in MayFree : Freemem(b)

-----------------------------------------------------------------------------
FreeBytes == UNION {Bytes(memlist[i]) : i \in DOMAIN memlist}
HeldBytes == UNION {Bytes(b) : b \in blocks}
HeapBytes == UNION {Bytes(Heap[i]) : i \in DOMAIN Heap}

\* The free list is in the order of addresses, its blocks are not empty, and
\* no two of them touch unless the heap began so: freemem joins a block with
\* both neighbours (freemem.c:55-69), and no request can fail for memory that
\* is free in one piece.
ListJoined ==
    /\ \A i \in DOMAIN memlist : memlist[i].len > 0
    /\ \A i \in 1 .. Len(memlist) - 1 : Top(memlist[i]) < memlist[i + 1].addr

\* Memory is free or held by one caller, never both and never neither
\* (getmem.c:28-42, getstk.c:43-48, freemem.c:44), whatever is freed twice;
\* mlength counts the free bytes.
MemoryConserved ==
    /\ ListJoined
    /\ FreeBytes \cup HeldBytes = HeapBytes
    /\ FreeBytes \cap HeldBytes = {}
    /\ \A b, c \in blocks : b # c => Bytes(b) \cap Bytes(c) = {}
    /\ mlength = Cardinality(FreeBytes)
=============================================================================
