----------------------------- MODULE FileBlocks -----------------------------
(***************************************************************************)
(* The disk of the local file system and what the kernel keeps of it in    *)
(* memory: the directory in Lf_data, and the index block and data block in *)
(* the control block of an open file (device/lfs/lf*.c).  An operator on   *)
(* the record                                                              *)
(*                                                                         *)
(*   s = [dir, dirpresent, dirdirty, disk]   with disk = [dir, ib, db]     *)
(*                                                                         *)
(* is a function of the code; f is a control block, an element of lfltab.  *)
(***************************************************************************)
EXTENDS Integers, Sequences, SequencesExt, FiniteSetsExt

CONSTANTS LF_NUM_DIR_ENT,  \* entries in the directory
          NIBLK,           \* i-blocks on the disk
          NDBLK,           \* d-blocks on the disk
          IBPERSECT,       \* i-blocks in a sector of the disk
          LF_IBLEN,        \* d-blocks per i-block
          LF_BLKSIZ        \* bytes per d-block

ASSUME DiskAssumption ==
    /\ LF_NUM_DIR_ENT \in Nat \ {0} /\ NIBLK \in Nat \ {0} /\ NDBLK \in Nat \ {0}
    /\ IBPERSECT \in Nat \ {0} /\ LF_IBLEN \in Nat \ {0} /\ LF_BLKSIZ \in Nat \ {0}

LF_INULL == -1
LF_DNULL == -1
LF_IDATA == LF_IBLEN * LF_BLKSIZ
IB == 0 .. NIBLK-1
DB == 0 .. NDBLK-1

\* An empty directory entry is all zeros: its i-block is number 0, not null.
NoEntry == [ld_size |-> 0, ld_ilist |-> 0, ld_name |-> ""]

\* lfibclear
Iblock(offset) == [ib_next |-> LF_INULL, ib_offset |-> offset,
                   ib_dba |-> [k \in 1 .. LF_IBLEN |-> LF_DNULL]]

\* A d-block on the free list holds a link; in the bytes of a file a link
\* reads as anything (garbled).
garbled == -2
Filled  == [k \in 1 .. LF_BLKSIZ |-> "+"]
Junk    == [k \in 1 .. LF_BLKSIZ |-> "?"]
Link(d) == [lf_nextdb |-> d, data |-> Junk]
Data(b) == [lf_nextdb |-> garbled, data |-> b]

\* lfscreate: both free lists go through all the blocks.
Formatted ==
    [dir |-> [lfd_files  |-> [e \in 0 .. LF_NUM_DIR_ENT-1 |-> NoEntry],
              lfd_nfiles |-> 0, lfd_ifree |-> 0, lfd_dfree |-> 0],
     ib  |-> [i \in IB |-> [Iblock(0) EXCEPT !.ib_next =
                                IF i = NIBLK-1 THEN LF_INULL ELSE i + 1]],
     db  |-> [d \in DB |-> Link(IF d = NDBLK-1 THEN LF_DNULL ELSE d + 1)]]

-----------------------------------------------------------------------------
\* The directory is read when it is not present.
Present(s) == IF s.dirpresent THEN s
              ELSE [s EXCEPT !.dir = s.disk.dir, !.dirpresent = TRUE]

WriteDir(s) == [s EXCEPT !.disk.dir = s.dir, !.dirdirty = FALSE]

\* The entries of a name: at most one unless renaming or opening goes wrong.
Entries(s, name) == {e \in 0 .. s.dir.lfd_nfiles-1 : s.dir.lfd_files[e].ld_name = name}

\* The d-block and the i-block in a control block are written if they changed.
FlushBlocks(s, f) ==
    [s EXCEPT !.disk.db = IF f.lfdbdirty THEN [@ EXCEPT ![f.lfdnum] = Data(f.lfdblock)] ELSE @,
              !.disk.ib = IF f.lfibdirty THEN [@ EXCEPT ![f.lfinum] = f.lfiblock] ELSE @]

\* lfflush: the directory, the data block and the i-block, if they changed.
Flush(s, f) ==
    IF f.lfstate = "LF_FREE" THEN s
    ELSE FlushBlocks(IF s.dirdirty THEN WriteDir(s) ELSE s, f)
Flushed(f) ==
    IF f.lfstate = "LF_FREE" THEN f
    ELSE [f EXCEPT !.lfdbdirty = FALSE, !.lfibdirty = FALSE]

\* lfiballoc, when there is a free i-block: the first of the list.
Iballoc(s) == WriteDir([s EXCEPT !.dir.lfd_ifree = s.disk.ib[@].ib_next])

\* lfdballoc, when there is a free d-block whose link reads as next.
Dballoc(s, next) == WriteDir([s EXCEPT !.dir.lfd_dfree = next])
NextFree(s) ==
    LET next == s.disk.db[s.dir.lfd_dfree].lf_nextdb
    IN  IF next = garbled THEN DB \cup {LF_DNULL} ELSE {next}

\* Mutant of Dbfree: the head of the list is changed before the link is made.
DbfreeSwapped(s, d) ==
    LET t == [s EXCEPT !.dir.lfd_dfree = d, !.disk.db[d] = Link(d)]
    IN  [t EXCEPT !.disk.dir = t.dir]

\* lfdbfree writes the directory but does not count it as clean.
Dbfree(s, d) ==
    LET t == [s EXCEPT !.dir.lfd_dfree = d, !.disk.db[d] = Link(s.dir.lfd_dfree)]
    IN  [t EXCEPT !.disk.dir = t.dir]

\* What the loops of lftruncate and lftrunc2 do to an i-block: its d-blocks
\* are freed one by one; freed[k] is the disk once the first k are, ...
FreeDblocks(s, iblock) ==
    LET freed[k \in 0 .. LF_IBLEN] ==
          CASE k = 0                                    -> s
            [] k > 0 /\ iblock.ib_dba[k] = LF_DNULL     -> freed[k-1]
            [] k > 0 /\ iblock.ib_dba[k] # LF_DNULL     -> Dbfree(freed[k-1], iblock.ib_dba[k])
    IN  freed[LF_IBLEN]

\* ... and it is cleared, the last one leading to the free list.
Cleared(iblock, ifree) ==
    [Iblock(0) EXCEPT !.ib_next = IF iblock.ib_next = LF_INULL THEN ifree ELSE iblock.ib_next]

\* lfibput reads the sector of an i-block, changes the i-block and writes the
\* sector: the other i-blocks in it are written with what was read.
Sector(i)        == {j \in IB : j \div IBPERSECT = i \div IBPERSECT}
ReadSector(s, i) == [j \in Sector(i) |-> s.disk.ib[j]]
WriteSector(s, sector) == [s EXCEPT !.disk.ib = sector @@ @]

-----------------------------------------------------------------------------
\* Positions in a file.

\* The i-block in memory is one that comes before the position.
Beyond(f) == f.lfpos - (f.lfpos % LF_IDATA) > f.lfiblock.ib_offset

\* Index into ib_dba of the d-block, and into the d-block, of the position.
DIndex(f) == (f.lfpos % LF_IDATA) \div LF_BLKSIZ + 1
Offset(f) == f.lfpos % LF_BLKSIZ

\* lfbyte is an offset into lfdblock; LF_BLKSIZ is the byte beyond it.
AtEnd(f) == f.lfbyte >= LF_BLKSIZ

\* lflinit: a control block that was never opened.
Closed == [lfstate |-> "LF_FREE", lfdirptr |-> 0, lfpos |-> 0,
           lfinum |-> LF_INULL,
           lfiblock |-> [ib_next |-> 0, ib_offset |-> 0, ib_dba |-> [k \in 1 .. LF_IBLEN |-> 0]],
           lfdnum |-> 0, lfdblock |-> Junk,
           lfbyte |-> LF_BLKSIZ, lfibdirty |-> FALSE, lfdbdirty |-> FALSE]

\* Mutant of Opened: the entry after the one that was found.
OpenedNext(f, e) ==
    [f EXCEPT !.lfstate = "LF_USED", !.lfdirptr = e + 1, !.lfpos = 0,
              !.lfinum = LF_INULL, !.lfdnum = LF_DNULL, !.lfbyte = LF_BLKSIZ,
              !.lfibdirty = FALSE, !.lfdbdirty = FALSE]

\* lfsopen: what it sets; the two blocks keep what they had.
Opened(f, e) ==
    [f EXCEPT !.lfstate = "LF_USED", !.lfdirptr = e, !.lfpos = 0,
              !.lfinum = LF_INULL, !.lfdnum = LF_DNULL, !.lfbyte = LF_BLKSIZ,
              !.lfibdirty = FALSE, !.lfdbdirty = FALSE]
=============================================================================
