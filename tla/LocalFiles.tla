----------------------------- MODULE LocalFiles -----------------------------
(***************************************************************************)
(* The local file system (device/lfs/*.c) and the processes that call it.  *)
(*                                                                         *)
(* open, close, read, write, getc, putc, seek and control go through the   *)
(* device switch, which disables interrupts for the whole call; the disk   *)
(* is the RAM disk, which never blocks.  Such a call is only left where it *)
(* waits for a mutex somebody holds, and where it signals one somebody     *)
(* waits for.  remove and rename call lfscontrol directly, with interrupts *)
(* enabled, and may be preempted anywhere.                                 *)
(*                                                                         *)
(* call[p] is where p is in its call, and what that call remembers in its  *)
(* local variables; cpu is the process that runs with interrupts disabled, *)
(* if any.  A mutex is the line of processes at it: the first one has it.  *)
(***************************************************************************)
EXTENDS FileBlocks

CONSTANTS Proc,      \* the processes
          NoProc,    \* none of them
          Nlfl,      \* pseudo-devices (size of lfltab)
          Names,     \* names of files
          Bytes,     \* bytes written
          MaxSize,   \* bound on the position after a write
          MaxCount,  \* bound on the count of a read or write
          Calls,     \* the calls the processes make
          PerFile,   \* TRUE: the locking of xinu-main, FALSE: of xinu-baseline
          Careless   \* what the callers do not take care of, a subset of Care

\* The code does not check any of these:
Care == {"open_twice",   \* a file is open once at a time
         "open_race",    \* while open waits for lf_mutex, nobody calls open
         "remove_open",  \* remove is called when nobody uses the entries it changes
         "remove_close", \* while remove runs, nobody calls close
         "share_fds"}    \* a process uses its own descriptors only

ASSUME NoProcAssumption == NoProc \notin Proc
ASSUME NlflAssumption   == Nlfl \in Nat \ {0}
ASSUME FilesAssumption  ==
    /\ MaxSize \in Nat /\ MaxCount \in Nat \ {0}
    /\ PerFile \in BOOLEAN /\ Careless \subseteq Care

VARIABLES lfs,     \* Lf_data and the disk: see FileBlocks
          lfltab,  \* the control blocks
          lockq,   \* the mutexes: the processes at each
          call,    \* what each process does
          fds,     \* the descriptors each process was given by open
          got,     \* what each process read last
          cpu,     \* the process that runs with interrupts disabled
          halted   \* the system has stopped, and why

data == <<lfs, lfltab>>
vars == <<lfs, lfltab, lockq, call, fds, got, cpu, halted>>

Slot  == 0 .. Nlfl-1
DIR   == Nlfl                  \* Lf_data.lf_mutex; the others are lfmutex
Mutex == Slot \cup {DIR}

Idle == [op |-> "none", pc |-> "idle", slot |-> 0, ent |-> 0, name |-> "", to |-> "",
         bytes |-> <<>>, n |-> 0, first |-> LF_INULL, ifree |-> LF_INULL, next |-> LF_INULL,
         sector |-> <<>>]

File(p) == lfltab[call[p].slot]
Size(e) == lfs.dir.lfd_files[e].ld_size
At(p, pc) == call[p].pc = pc /\ halted = "no" /\ cpu \in {p, NoProc}

Holds(p, m) == lockq[m] # <<>> /\ Head(lockq[m]) = p

\* remove and rename run with interrupts enabled.
Preemptible(c) == c.op \in {"none", "remove", "rename"}
Runs(p, c)     == IF Preemptible(c) THEN NoProc ELSE p

\* p goes on with c, and nobody else may run if interrupts are disabled.
Goto(p, c) ==
    /\ call' = [call EXCEPT ![p] = c]
    /\ cpu'  = Runs(p, c)
    /\ UNCHANGED lockq

\* wait(m), and then c.
WaitFor(p, m, c) ==
    /\ lockq' = [lockq EXCEPT ![m] = Append(@, p)]
    /\ call'  = [call EXCEPT ![p] = c]
    /\ cpu'   = IF lockq[m] = <<>> THEN Runs(p, c) ELSE NoProc

\* signal(m), and then c: if somebody waits, ready lets him run.
Signal(p, m, c) ==
    /\ lockq' = [lockq EXCEPT ![m] = Tail(@)]
    /\ call'  = [call EXCEPT ![p] = c]
    /\ cpu'   = IF Len(lockq[m]) = 1 THEN Runs(p, c) ELSE NoProc

\* The code goes wrong in a way C leaves undefined, or panics.
Halt(why) == halted' = why /\ UNCHANGED <<lfs, lfltab, lockq, call, fds, got, cpu>>

Start(p, op) == op \in Calls /\ At(p, "idle")
Forget(p)    == got' = [got EXCEPT ![p] = "none"]

\* Mutant of Locks: a write, or a putc, does not take the mutex of the file.
LocksFewer(op) == IF PerFile THEN op = "read" ELSE op # "putc"

\* xinu-main: lflread and lflwrite hold the mutex of the file for all the
\* bytes, lflgetc, lflputc and lflcontrol never take it.  xinu-baseline:
\* lflgetc and lflputc, also for read and write, and lflcontrol take it.
Locks(op) == IF PerFile THEN op \in {"read", "write"} ELSE TRUE

Init ==
    /\ lfs    = [dir |-> Formatted.dir, dirpresent |-> FALSE, dirdirty |-> FALSE,
                 disk |-> Formatted]
    /\ lfltab = [i \in Slot |-> Closed]
    /\ lockq  = [m \in Mutex |-> <<>>]
    /\ call   = [p \in Proc |-> Idle]
    /\ fds    = [p \in Proc |-> {}]
    /\ got    = [p \in Proc |-> "none"]
    /\ cpu    = NoProc
    /\ halted = "no"

-----------------------------------------------------------------------------
\* lfsopen.

OpenSlots    == {i \in Slot : lfltab[i].lfstate = "LF_USED"}

FreeSlots    == Slot \ OpenSlots
OpenNames    == {lfs.dir.lfd_files[lfltab[i].lfdirptr].ld_name : i \in OpenSlots}
InCall(ops)  == {p \in Proc : call[p].op \in ops}
CalledNames  == UNION {{call[p].name, call[p].to} : p \in InCall({"open", "remove", "rename"})}

\* The pseudo-device is chosen before the wait, and used after it.
Lfsopen(p, name, mode) ==
    /\ Start(p, "open")
    /\ "open_twice" \in Careless \/ name \notin OpenNames \cup CalledNames
    /\ "open_race" \in Careless \/ InCall({"open"}) = {}
    /\ FreeSlots # {}
    /\ WaitFor(p, DIR, [Idle EXCEPT !.op = "open", !.pc = "search", !.name = name,
                                    !.to = mode, !.slot = Min(FreeSlots)])
    /\ Forget(p)
    /\ UNCHANGED <<lfs, lfltab, fds, halted>>

LfsopenSearch(p) ==
    /\ At(p, "search") /\ Holds(p, DIR)
    /\ LET s == Present(lfs)
           c == call[p]
           n == s.dir.lfd_nfiles
           old  == Entries(s, c.name)
           give(e) == /\ lfltab' = [lfltab EXCEPT ![c.slot] = Opened(@, e)]
                      /\ fds'    = [fds EXCEPT ![p] = @ \cup {c.slot}]
       IN  \/ /\ old # {} /\ c.to # "n"
              /\ lfs' = s
              /\ give(Min(old))
           \/ /\ old = {} /\ c.to # "o" /\ n < LF_NUM_DIR_ENT
              /\ lfs' = [s EXCEPT !.dir.lfd_nfiles = n + 1,
                                  !.dir.lfd_files[n] = [ld_size |-> 0, ld_ilist |-> LF_INULL,
                                                        ld_name |-> c.name]]
              /\ give(n)
           \/ /\ IF old = {} THEN c.to = "o" \/ n >= LF_NUM_DIR_ENT ELSE c.to = "n"
              /\ lfs' = s
              /\ UNCHANGED <<lfltab, fds>>
    /\ Signal(p, DIR, Idle)
    /\ UNCHANGED <<got, halted>>

-----------------------------------------------------------------------------
\* lflwrite, lflputc, lflread, lflgetc.

Fds(p) == IF "share_fds" \in Careless THEN UNION {fds[q] : q \in Proc} ELSE fds[p]

\* The beginning of a transfer, with the mutex of the file where it is taken.
Transfer(p, c) ==
    /\ IF Locks(c.op) THEN WaitFor(p, c.slot, c) ELSE Goto(p, c)
    /\ Forget(p)
    /\ UNCHANGED <<data, fds, halted>>

Lflwrite(p, i, bytes) ==
    /\ Start(p, "write") /\ i \in Fds(p)
    /\ lfltab[i].lfpos + Len(bytes) <= MaxSize
    /\ Transfer(p, [Idle EXCEPT !.op = "write", !.pc = "byte", !.slot = i,
                                !.bytes = bytes, !.n = Len(bytes)])

Lflputc(p, i, byte) ==
    /\ Start(p, "putc") /\ i \in Fds(p)
    /\ lfltab[i].lfpos < MaxSize
    /\ Transfer(p, [Idle EXCEPT !.op = "putc", !.pc = "byte", !.slot = i,
                                !.bytes = <<byte>>, !.n = 1])

Lflread(p, i, n) ==
    /\ Start(p, "read") /\ i \in Fds(p)
    /\ Transfer(p, [Idle EXCEPT !.op = "read", !.pc = "byte", !.slot = i, !.n = n])

Lflgetc(p, i) ==
    /\ Start(p, "getc") /\ i \in Fds(p)
    /\ Transfer(p, [Idle EXCEPT !.op = "getc", !.pc = "byte", !.slot = i, !.n = 1])

Writing(c) == c.op \in {"write", "putc"}

\* Mutant of Finish: a return at the end of the file does not signal.
FinishEarly(p) ==
    IF Locks(call[p].op) /\ call[p].n = 1 THEN Signal(p, call[p].slot, Idle) ELSE Goto(p, Idle)

\* The end of a transfer.
Finish(p) ==
    IF Locks(call[p].op) THEN Signal(p, call[p].slot, Idle) ELSE Goto(p, Idle)

\* After a byte: the next one, if there is one.
NextByte(p) ==
    LET c == [call[p] EXCEPT !.n = @ - 1, !.bytes = IF @ = <<>> THEN @ ELSE Tail(@)]
    IN  IF c.n = 0 THEN Finish(p)
        ELSE IF PerFile THEN Goto(p, [c EXCEPT !.pc = "byte"])
        ELSE Signal(p, c.slot, [c EXCEPT !.pc = "again"])

\* xinu-baseline: the mutex is taken again for the next byte.
Again(p) ==
    /\ At(p, "again")
    /\ WaitFor(p, call[p].slot, [call[p] EXCEPT !.pc = "byte"])
    /\ UNCHANGED <<data, fds, got, halted>>

\* Mutant of PutByte: a longer file does not make the directory dirty.
PutByteClean(p, e) ==
    LET i == call[p].slot
        f == lfltab[i]
    IN  /\ lfltab' = [lfltab EXCEPT ![i] =
                        [f EXCEPT !.lfdblock[f.lfbyte + 1] = Head(call[p].bytes),
                                  !.lfbyte = @ + 1, !.lfpos = @ + 1, !.lfdbdirty = TRUE]]
        /\ lfs' = IF f.lfpos >= Size(e)
                  THEN [lfs EXCEPT !.dir.lfd_files[e].ld_size = @ + 1]
                  ELSE lfs
        /\ NextByte(p)
        /\ UNCHANGED <<fds, got, halted>>

\* The end of lflputc; e is the directory entry it started with.
PutByte(p, e) ==
    LET i == call[p].slot
        f == lfltab[i]
    IN  /\ lfltab' = [lfltab EXCEPT ![i] =
                        [f EXCEPT !.lfdblock[f.lfbyte + 1] = Head(call[p].bytes),
                                  !.lfbyte = @ + 1, !.lfpos = @ + 1, !.lfdbdirty = TRUE]]
        /\ lfs' = IF f.lfpos >= Size(e)
                  THEN [lfs EXCEPT !.dir.lfd_files[e].ld_size = @ + 1, !.dirdirty = TRUE]
                  ELSE lfs
        /\ NextByte(p)
        /\ UNCHANGED <<fds, got, halted>>

\* The end of lflgetc.
TakeByte(p) ==
    LET i == call[p].slot
        f == lfltab[i]
    IN  /\ lfltab' = [lfltab EXCEPT ![i].lfbyte = @ + 1, ![i].lfpos = @ + 1]
        /\ got' = [got EXCEPT ![p] = f.lfdblock[f.lfbyte + 1]]
        /\ NextByte(p)
        /\ UNCHANGED <<lfs, fds, halted>>

\* The beginning of lflputc and of lflgetc.
Byte(p) ==
    /\ At(p, "byte")
    /\ Locks(call[p].op) => Holds(p, call[p].slot)
    /\ LET c == call[p]
           f == File(p)
           e == f.lfdirptr
           bad == f.lfstate # "LF_USED"
                  \/ IF Writing(c) THEN f.lfpos > Size(e) ELSE f.lfpos >= Size(e)
       IN  \/ /\ bad
              /\ got' = [got EXCEPT ![p] = IF Writing(c) \/ f.lfstate # "LF_USED"
                                           THEN @ ELSE "EOF"]
              /\ Finish(p)
              /\ UNCHANGED <<data, fds, halted>>
           \/ /\ ~bad /\ ~AtEnd(f)
              /\ IF Writing(c) THEN PutByte(p, e) ELSE TakeByte(p)
           \/ /\ ~bad /\ AtEnd(f)
              /\ WaitFor(p, DIR, [c EXCEPT !.pc = "setup", !.ent = e])
              /\ UNCHANGED <<data, fds, got, halted>>

\* After lfsetup nobody looks at lfbyte again: if another process has moved
\* it to the end of lfdblock, the byte goes to what lies behind.
AfterSetup(p) ==
    /\ At(p, "place")
    /\ IF AtEnd(File(p)) THEN Halt("undefined")
       ELSE IF Writing(call[p]) THEN PutByte(p, call[p].ent) ELSE TakeByte(p)

-----------------------------------------------------------------------------
\* lfsetup: the i-block and the d-block of the position.

\* Mutant of Restart: a position in an earlier i-block is not noticed.
RestartNever(f) == f.lfinum = LF_INULL

\* The search begins with the first i-block of the file.
Restart(f) == f.lfinum = LF_INULL \/ f.lfpos < f.lfiblock.ib_offset

SetupFirst(p) ==
    /\ At(p, "setup") /\ Holds(p, DIR)
    /\ LET i == call[p].slot
           dirty == lfltab[i].lfibdirty \/ lfltab[i].lfdbdirty
           s == IF dirty THEN Flush(lfs, lfltab[i]) ELSE lfs
           f == IF dirty THEN Flushed(lfltab[i]) ELSE lfltab[i]
           e == f.lfdirptr
           first == s.dir.lfd_files[e].ld_ilist
           new   == s.dir.lfd_ifree
           go(t, g) == /\ lfs' = t
                       /\ lfltab' = [lfltab EXCEPT ![i] = g]
                       /\ Goto(p, [call[p] EXCEPT !.pc = "walk"])
                       /\ UNCHANGED <<fds, got, halted>>
       IN  \/ ~Restart(f) /\ go(s, f)
           \/ /\ Restart(f) /\ (first # LF_INULL \/ f.lfinum # LF_INULL)
              /\ IF first = LF_INULL THEN Halt("undefined")
                 ELSE go(s, [f EXCEPT !.lfinum = first, !.lfiblock = s.disk.ib[first]])
           \/ /\ f.lfinum = LF_INULL /\ first = LF_INULL
              /\ IF new = LF_INULL THEN Halt("panic")
                 ELSE go([Iballoc(s) EXCEPT !.dir.lfd_files[e].ld_ilist = new],
                         [f EXCEPT !.lfinum = new, !.lfiblock = Iblock(0), !.lfibdirty = TRUE])

\* One round of the walk along the i-blocks.
SetupWalk(p) ==
    /\ At(p, "walk") /\ Beyond(File(p))
    /\ LET i    == call[p].slot
           f    == lfltab[i]
           next == f.lfiblock.ib_next
           new  == lfs.dir.lfd_ifree
           go(t, g) == /\ lfs' = t
                       /\ lfltab' = [lfltab EXCEPT ![i] = [g EXCEPT !.lfdnum = LF_DNULL]]
                       /\ Goto(p, call[p])
                       /\ UNCHANGED <<fds, got, halted>>
       IN  \/ /\ next # LF_INULL
              /\ go(lfs, [f EXCEPT !.lfinum = next, !.lfiblock = lfs.disk.ib[next]])
           \/ /\ next = LF_INULL /\ new # LF_INULL
              /\ go([Iballoc(lfs) EXCEPT
                        !.disk.ib[f.lfinum] = [f.lfiblock EXCEPT !.ib_next = new]],
                    [f EXCEPT !.lfinum = new, !.lfibdirty = TRUE,
                              !.lfiblock = Iblock(f.lfiblock.ib_offset + LF_IDATA)])
           \/ next = LF_INULL /\ new = LF_INULL /\ Halt("panic")

SetupBlock(p) ==
    /\ At(p, "walk") /\ ~Beyond(File(p))
    /\ LET i    == call[p].slot
           f    == lfltab[i]
           dnum == f.lfiblock.ib_dba[DIndex(f)]
           new  == lfs.dir.lfd_dfree
           go(t, g) == /\ lfs' = t
                       /\ lfltab' = [lfltab EXCEPT ![i] = [g EXCEPT !.lfbyte = Offset(f)]]
                       /\ Signal(p, DIR, [call[p] EXCEPT !.pc = "place"])
                       /\ UNCHANGED <<fds, got, halted>>
       IN  \/ dnum # LF_DNULL /\ dnum = f.lfdnum /\ go(lfs, f)
           \/ /\ dnum # LF_DNULL /\ dnum # f.lfdnum
              /\ go(lfs, [f EXCEPT !.lfdnum = dnum, !.lfdbdirty = FALSE,
                                   !.lfdblock = lfs.disk.db[dnum].data])
           \/ /\ dnum = LF_DNULL /\ new # LF_DNULL
              /\ \E next \in NextFree(lfs) :
                    go(Dballoc(lfs, next),
                       [f EXCEPT !.lfdnum = new, !.lfdblock = Filled, !.lfibdirty = TRUE,
                                 !.lfiblock.ib_dba[DIndex(f)] = new])
           \/ dnum = LF_DNULL /\ new = LF_DNULL /\ Halt("panic")

-----------------------------------------------------------------------------
\* lflseek and lflclose.

\* A call that takes the mutex of the file and then does one thing.
Locked(p, op, i, n) ==
    /\ Start(p, op) /\ i \in Fds(p)
    /\ "remove_close" \in Careless \/ op # "close" \/ InCall({"remove"}) = {}
    /\ WaitFor(p, i, [Idle EXCEPT !.op = op, !.pc = op, !.slot = i, !.n = n])
    /\ Forget(p)
    /\ UNCHANGED <<data, fds, halted>>

Lflseek(p) ==
    /\ At(p, "seek") /\ Holds(p, call[p].slot)
    /\ LET f == File(p)
           ok == f.lfstate = "LF_USED" /\ call[p].n <= Size(f.lfdirptr)
       IN  lfltab' = IF ok THEN [lfltab EXCEPT ![call[p].slot].lfpos = call[p].n,
                                               ![call[p].slot].lfbyte = LF_BLKSIZ]
                           ELSE lfltab
    /\ Signal(p, call[p].slot, Idle)
    /\ UNCHANGED <<lfs, fds, got, halted>>

\* lflclose flushes without lf_mutex; lfsopen may take the entry at once.
Lflclose(p) ==
    /\ At(p, "close") /\ Holds(p, call[p].slot)
    /\ LET i == call[p].slot
           f == lfltab[i]
           dirty == lfs.dirdirty \/ f.lfdbdirty \/ f.lfibdirty
       IN  /\ lfs'    = IF dirty THEN Flush(lfs, f) ELSE lfs
           /\ lfltab' = [lfltab EXCEPT ![i] = [(IF dirty THEN Flushed(f) ELSE f)
                                                  EXCEPT !.lfstate = "LF_FREE"]]
           /\ fds'    = [q \in Proc |-> fds[q] \ {i}]
    /\ Signal(p, call[p].slot, Idle)
    /\ UNCHANGED <<got, halted>>

-----------------------------------------------------------------------------
\* lflcontrol (LF_CTL_TRUNC) and lftruncate.

Lflcontrol(p, i) ==
    /\ Start(p, "trunc") /\ i \in Fds(p)
    /\ LET c == [Idle EXCEPT !.op = "trunc", !.slot = i]
       IN  IF PerFile
           THEN lfltab[i].lfstate = "LF_USED" /\ WaitFor(p, DIR, [c EXCEPT !.pc = "trunc"])
           ELSE WaitFor(p, i, [c EXCEPT !.pc = "control"])
    /\ Forget(p)
    /\ UNCHANGED <<data, fds, halted>>

\* xinu-baseline: once it has the mutex of the file.
LflcontrolLocked(p) ==
    /\ At(p, "control") /\ Holds(p, call[p].slot)
    /\ IF File(p).lfstate = "LF_USED"
       THEN WaitFor(p, DIR, [call[p] EXCEPT !.pc = "trunc"])
       ELSE Signal(p, call[p].slot, Idle)
    /\ UNCHANGED <<data, fds, got, halted>>

\* signal(lf_mutex), and in xinu-baseline the mutex of the file next.
LflcontrolEnd(p) ==
    Signal(p, DIR, IF PerFile THEN Idle ELSE [call[p] EXCEPT !.pc = "unlock"])

LflcontrolUnlock(p) ==
    /\ At(p, "unlock")
    /\ Signal(p, call[p].slot, Idle)
    /\ UNCHANGED <<data, fds, got, halted>>

Lftruncate(p) ==
    /\ At(p, "trunc") /\ Holds(p, DIR)
    /\ LET i == call[p].slot
           f == lfltab[i]
           e == f.lfdirptr
           dirty == f.lfibdirty \/ f.lfdbdirty
           s == IF dirty THEN Flush(lfs, f) ELSE lfs
           first == s.dir.lfd_files[e].ld_ilist
       IN  \/ Size(e) = 0 /\ LflcontrolEnd(p) /\ UNCHANGED data
           \/ /\ Size(e) > 0
              /\ lfs' = [s EXCEPT !.dir.lfd_files[e].ld_ilist = LF_INULL,
                                  !.dir.lfd_files[e].ld_size = 0, !.dirdirty = TRUE]
              /\ lfltab' = [lfltab EXCEPT ![i] =
                     [(IF dirty THEN Flushed(f) ELSE f) EXCEPT
                         !.lfpos = 0, !.lfinum = LF_INULL, !.lfdnum = LF_DNULL,
                         !.lfbyte = LF_BLKSIZ]]
              /\ Goto(p, [call[p] EXCEPT !.pc = "free", !.first = first, !.next = first,
                                         !.ifree = s.dir.lfd_ifree])
    /\ UNCHANGED <<fds, got, halted>>

\* One round of the loop, in lftruncate and in lftrunc2, up to the middle of
\* lfibput ...
FreeLoop(p) ==
    /\ At(p, "free") /\ call[p].next # call[p].ifree
    /\ IF call[p].next = LF_INULL THEN Halt("undefined")
       ELSE LET c == call[p]
                s == FreeDblocks(lfs, lfs.disk.ib[c.next])
            IN  /\ lfs' = s
                /\ Goto(p, [c EXCEPT !.pc = "put", !.sector =
                       [ReadSector(s, c.next) EXCEPT ![c.next] = Cleared(@, c.ifree)]])
                /\ UNCHANGED <<lfltab, fds, got, halted>>

\* ... and from there.
FreePut(p) ==
    /\ At(p, "put")
    /\ lfs' = WriteSector(lfs, call[p].sector)
    /\ Goto(p, [call[p] EXCEPT !.pc = "free", !.next = call[p].sector[@].ib_next,
                               !.sector = <<>>])
    /\ UNCHANGED <<lfltab, fds, got, halted>>

\* The end of both: the i-blocks of the file are the new free list.
FreeEnd(p) ==
    /\ At(p, "free") /\ call[p].next = call[p].ifree
    /\ lfs' = [lfs EXCEPT !.dir.lfd_ifree = call[p].first, !.dirdirty = TRUE]
    /\ IF call[p].op = "trunc" THEN LflcontrolEnd(p)
                               ELSE Goto(p, [call[p] EXCEPT !.pc = "move"])
    /\ UNCHANGED <<lfltab, fds, got, halted>>

-----------------------------------------------------------------------------
\* lfscontrol: remove (LF_CTL_DEL) and rename (F_CTL_RENAME).

\* remove moves the last entry of the directory: neither it nor the one that
\* is removed should be in use.
LastName       == lfs.dir.lfd_files[lfs.dir.lfd_nfiles-1].ld_name
Unused(name)   == /\ InCall({"open", "remove"}) = {}
                  /\ lfs.dir.lfd_nfiles > 0 => {name, LastName} \cap OpenNames = {}

Lfscontrol(p, op, old, new) ==
    /\ Start(p, op)
    /\ "remove_open" \in Careless \/ op = "rename" \/ Unused(old)
    /\ "remove_close" \in Careless \/ op = "rename" \/ InCall({"close"}) = {}
    /\ "open_twice" \in Careless \/ {old, new} \cap CalledNames = {}
    /\ WaitFor(p, DIR, [Idle EXCEPT !.op = op, !.pc = op, !.name = old, !.to = new])
    /\ Forget(p)
    /\ UNCHANGED <<data, fds, halted>>

\* The entry is found, and lftrunc2 begins if the file is not empty.
LfscontrolDel(p) ==
    /\ At(p, "remove") /\ Holds(p, DIR)
    /\ LET s   == Present(lfs)
           old == Entries(s, call[p].name)
           e   == Min(old)
           c   == [call[p] EXCEPT !.ent = e]
           first == s.dir.lfd_files[e].ld_ilist
       IN  /\ lfs' = s
           /\ IF old = {} THEN Signal(p, DIR, Idle)
              ELSE IF s.dir.lfd_files[e].ld_size = 0 THEN Goto(p, [c EXCEPT !.pc = "move"])
              ELSE Goto(p, [c EXCEPT !.pc = "free", !.first = first, !.next = first,
                                     !.ifree = s.dir.lfd_ifree])
    /\ UNCHANGED <<lfltab, fds, got, halted>>

\* The last entry moves to the place of the removed one ...
RemoveMove(p) ==
    /\ At(p, "move")
    /\ lfs' = [lfs EXCEPT !.dir.lfd_files[call[p].ent] = lfs.dir.lfd_files[lfs.dir.lfd_nfiles-1]]
    /\ Goto(p, [call[p] EXCEPT !.pc = "clear"])
    /\ UNCHANGED <<lfltab, fds, got, halted>>

\* Mutant of RemoveClear: the entry that was moved to is cleared.
RemoveClearMoved(p) ==
    /\ At(p, "clear")
    /\ lfs' = [lfs EXCEPT !.dir.lfd_files[call[p].ent] = NoEntry, !.dir.lfd_nfiles = @ - 1,
                          !.dirdirty = TRUE]
    /\ Signal(p, DIR, Idle)
    /\ UNCHANGED <<lfltab, fds, got, halted>>

\* ... and is cleared.
RemoveClear(p) ==
    /\ At(p, "clear")
    /\ LET last == lfs.dir.lfd_nfiles - 1
       IN  lfs' = [lfs EXCEPT !.dir.lfd_files[last] = NoEntry, !.dir.lfd_nfiles = last,
                              !.dirdirty = TRUE]
    /\ Signal(p, DIR, Idle)
    /\ UNCHANGED <<lfltab, fds, got, halted>>

LfscontrolRename(p) ==
    /\ At(p, "rename") /\ Holds(p, DIR)
    /\ LET s   == Present(lfs)
           old == Entries(s, call[p].name)
       IN  lfs' = IF old # {} /\ Entries(s, call[p].to) = {}
                  THEN [s EXCEPT !.dir.lfd_files[Min(old)].ld_name = call[p].to,
                                 !.dirdirty = TRUE]
                  ELSE s
    /\ Signal(p, DIR, Idle)
    /\ UNCHANGED <<lfltab, fds, got, halted>>

-----------------------------------------------------------------------------
\* A process goes on with its call.
Step(p) ==
    \/ LfsopenSearch(p)
    \/ Byte(p) \/ Again(p) \/ AfterSetup(p)
    \/ SetupFirst(p) \/ SetupWalk(p) \/ SetupBlock(p)
    \/ Lflseek(p) \/ Lflclose(p)
    \/ LflcontrolLocked(p) \/ LflcontrolUnlock(p) \/ Lftruncate(p)
    \/ FreeLoop(p) \/ FreePut(p) \/ FreeEnd(p)
    \/ LfscontrolDel(p) \/ RemoveMove(p) \/ RemoveClear(p) \/ LfscontrolRename(p)

\* A process makes a call.
Enter(p) ==
    \/ \E name \in Names, mode \in {"", "o", "n"} : Lfsopen(p, name, mode)
    \/ \E i \in Slot :
          \/ \E n \in 1 .. MaxCount :
                Lflread(p, i, n) \/ \E bytes \in [1 .. n -> Bytes] : Lflwrite(p, i, bytes)
          \/ \E byte \in Bytes : Lflputc(p, i, byte)
          \/ Lflgetc(p, i) \/ Locked(p, "close", i, 0) \/ Lflcontrol(p, i)
          \/ \E n \in 0 .. MaxSize : Locked(p, "seek", i, n)
    \/ \E name \in Names : Lfscontrol(p, "remove", name, name)
    \/ \E old, new \in Names : Lfscontrol(p, "rename", old, new)

Next == \E p \in Proc : Enter(p) \/ Step(p)

Spec == Init /\ [][Next]_vars
-----------------------------------------------------------------------------
\* The disk with the blocks in memory that are not written yet; a null pointer
\* leads to an empty block.
IbView(i) ==
    LET at == {s \in OpenSlots : lfltab[s].lfinum = i /\ lfltab[s].lfibdirty}
    IN  CASE i \notin IB -> Iblock(0)
          [] i \in IB /\ at = {} -> lfs.disk.ib[i]
          [] OTHER -> lfltab[Min(at)].lfiblock
DbView(d) ==
    LET at == {s \in OpenSlots : lfltab[s].lfdnum = d /\ lfltab[s].lfdbdirty}
    IN  CASE d \notin DB -> Junk
          [] d \in DB /\ at = {} -> lfs.disk.db[d].data
          [] OTHER -> lfltab[Min(at)].lfdblock

\* Nobody is in the middle of a change to the lists.
Quiet == \A p \in Proc : call[p].pc \notin {"walk", "free", "put", "move", "clear"}

\* What a list of blocks goes through.
OnList(first, next) ==
    LET on[n \in Nat] == IF n = 0 THEN {first}
                         ELSE on[n-1] \cup {next[b] : b \in on[n-1] \cap DOMAIN next}
    IN  on[Cardinality(DOMAIN next)] \cap DOMAIN next

Ilist(e)    == lfs.dir.lfd_files[e].ld_ilist
InDir       == 0 .. lfs.dir.lfd_nfiles-1
One(b)      == IF b THEN 1 ELSE 0
NextIb      == [i \in IB |-> IbView(i).ib_next]
NextDb      == [d \in DB |-> lfs.disk.db[d].lf_nextdb]
FreeIb      == OnList(lfs.dir.lfd_ifree, NextIb)
FreeDb      == OnList(lfs.dir.lfd_dfree, NextDb)

\* How often an i-block, a d-block is referred to.
IbRefs(i) == One(lfs.dir.lfd_ifree = i) + Cardinality({e \in InDir : Ilist(e) = i})
             + Cardinality({j \in IB : NextIb[j] = i})
DbRefs(d) == One(lfs.dir.lfd_dfree = d) + Cardinality({b \in FreeDb : NextDb[b] = d})
             + Cardinality({r \in IB \X (1 .. LF_IBLEN) : IbView(r[1]).ib_dba[r[2]] = d})

TypeOK ==
    /\ lfs.dir.lfd_nfiles \in 0 .. LF_NUM_DIR_ENT
    /\ \A e \in DOMAIN lfs.dir.lfd_files :
          lfs.dir.lfd_files[e] \in [ld_size : 0 .. MaxSize, ld_ilist : IB \cup {LF_INULL},
                                    ld_name : Names \cup {""}]
    /\ \A i \in Slot :
          /\ lfltab[i].lfstate \in {"LF_FREE", "LF_USED"}
          /\ lfltab[i].lfdirptr \in 0 .. LF_NUM_DIR_ENT-1
          /\ lfltab[i].lfpos \in 0 .. MaxSize
          /\ lfltab[i].lfbyte \in 0 .. LF_BLKSIZ
    /\ \A m \in Mutex : lockq[m] \in SeqOf(Proc, Cardinality(Proc))
    /\ cpu \in Proc \cup {NoProc}
    /\ halted \in {"no", "panic", "undefined"}

\* Every i-block and every d-block is part of one file or on its free list,
\* and is there once (lfilesys.h:15-17): allocating, truncating, removing and
\* the blocks kept in memory never lose a block nor give it to two files.
BlocksOwned ==
    /\ TypeOK
    /\ lfs.dirpresent /\ Quiet =>
        /\ \A i \in IB : IbRefs(i) = 1
        /\ \A d \in DB : DbRefs(d) = 1
        /\ IB = FreeIb \cup UNION {OnList(Ilist(e), NextIb) : e \in InDir}

\* A descriptor is given to one process: lfsopen chooses an unused
\* pseudo-device (lfsopen.c:20-21).
SlotOwner ==
    \A p, q \in Proc : p # q => fds[p] \cap fds[q] = {}

\* A descriptor refers to the directory entry of the file that was opened
\* (lfilesys.h:151): the entry is in use, and no other descriptor has it.
EntryIsOwn ==
    /\ \A i \in OpenSlots : lfltab[i].lfdirptr < lfs.dir.lfd_nfiles
    /\ \A i, j \in OpenSlots : i # j => lfltab[i].lfdirptr # lfltab[j].lfdirptr

\* Open files are kept apart, whatever is removed or renamed under them: a
\* descriptor has one owner and an entry of its own.
OpenFilesApart == SlotOwner /\ EntryIsOwn

\* The code does not do what C leaves undefined: run off a list of blocks or
\* put a byte behind lfdblock.
NoUndefined == halted # "undefined"

\* While lf_dirdirty is false the directory on the disk is good: it has the
\* free lists and all the files that have bytes.  (A new file without bytes may
\* be missing: lfsopen adds its entry and does not set lf_dirdirty.)
CleanMeansWritten ==
    (lfs.dirpresent /\ ~lfs.dirdirty /\ Quiet) =>
        LET d == lfs.disk.dir
        IN  /\ d.lfd_ifree = lfs.dir.lfd_ifree /\ d.lfd_dfree = lfs.dir.lfd_dfree
            /\ \A e \in InDir : Size(e) > 0 =>
                  e < d.lfd_nfiles /\ d.lfd_files[e] = lfs.dir.lfd_files[e]
            /\ \A e \in 0 .. d.lfd_nfiles-1 :
                  e \in InDir /\ d.lfd_files[e].ld_name = lfs.dir.lfd_files[e].ld_name

\* The processes go on with their calls: they have one priority and take
\* turns, so one that can run again and again does run.
FairSpec == Spec /\ \A p \in Proc : SF_vars(Step(p))

\* A call returns, unless the system stops: nobody waits for a mutex for ever
\* and the loops over the lists of blocks come to an end (lftruncate.c:50-52).
CallsReturn == \A p \in Proc : call[p].pc # "idle" ~> (call[p].pc = "idle" \/ halted # "no")
=============================================================================
