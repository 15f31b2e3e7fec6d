-------------------------- MODULE LocalFilesProofs --------------------------
(***************************************************************************)
(* Open files are kept apart (LocalFiles, OpenFilesApart), for every       *)
(* number of processes, pseudo-devices, entries and blocks.  What makes it *)
(* so is lf_mutex: the processes that open, remove and rename stand in one *)
(* line for it, first come, first served, and what a process found out     *)
(* before it joined the line is still true when it is served.              *)
(* And the directory on the disk is good while it is not said to be dirty  *)
(* (CleanMeansWritten): a file that has no blocks has no bytes, and who    *)
(* gives it blocks or takes them has lf_mutex.                             *)
(***************************************************************************)
EXTENDS LocalFiles, QueuesProofs

-----------------------------------------------------------------------------
\* The calls, and the places where a process waits for lf_mutex or has it.

CallOK(c) ==
    /\ DOMAIN c = {"op", "pc", "slot", "ent", "name", "to", "bytes", "n", "first", "ifree",
                   "next", "sector"}
    /\ c.slot \in Slot
    /\ \/ c.op = "none"   /\ c.pc = "idle"
       \/ c.op = "open"   /\ c.pc = "search"
       \/ c.op \in {"read", "write", "getc", "putc"}
             /\ c.pc \in {"byte", "again", "setup", "walk", "place"}
       \/ c.op = "seek"   /\ c.pc = "seek"
       \/ c.op = "close"  /\ c.pc = "close"
       \/ c.op = "trunc"  /\ c.pc \in {"control", "trunc", "free", "put", "unlock"}
       \/ c.op = "remove" /\ c.pc \in {"remove", "free", "put", "move", "clear"}
       \/ c.op = "rename" /\ c.pc = "rename"

DirPcs == {"search", "setup", "walk", "trunc", "remove", "rename", "free", "put", "move", "clear"}
OwnPcs == {"walk", "free", "put", "move", "clear"}

\* lf_mutex: the line is of those that are at a place in DirPcs, each once, and
\* who is at a place in OwnPcs has come to its head.
LineInv ==
    /\ DOMAIN lockq = Mutex
    /\ lockq[DIR] \in Queue(Proc)
    /\ \A p \in Proc : call[p].pc \in DirPcs <=> p \in Range(lockq[DIR])
    /\ \A p \in Proc : call[p].pc \in OwnPcs => Holds(p, DIR)

\* p is in front of q in the line.
Before(p, q) ==
    \E i, j \in DOMAIN lockq[DIR] : i < j /\ lockq[DIR][i] = p /\ lockq[DIR][j] = q

-----------------------------------------------------------------------------
\* The parts of the directory, of the disk and of the control blocks that
\* matter here, without the types of the others.
DirOK(d) ==
    /\ {"lfd_files", "lfd_nfiles"} \subseteq DOMAIN d
    /\ d.lfd_nfiles \in 0 .. LF_NUM_DIR_ENT
    /\ DOMAIN d.lfd_files = 0 .. LF_NUM_DIR_ENT-1
    /\ \A e \in 0 .. LF_NUM_DIR_ENT-1 : "ld_name" \in DOMAIN d.lfd_files[e]

LfsOK(s) ==
    /\ {"dir", "dirpresent", "dirdirty", "disk"} \subseteq DOMAIN s
    /\ "dir" \in DOMAIN s.disk
    /\ DirOK(s.dir) /\ DirOK(s.disk.dir)

TabOK(t) ==
    /\ DOMAIN t = Slot
    /\ \A i \in Slot : {"lfstate", "lfdirptr"} \subseteq DOMAIN t[i]

\* The same entries with the same names.
SameDir(s, t) ==
    /\ LfsOK(t)
    /\ t.dirpresent = s.dirpresent
    /\ t.dir.lfd_nfiles = s.dir.lfd_nfiles
    /\ \A e \in 0 .. LF_NUM_DIR_ENT-1 :
          t.dir.lfd_files[e].ld_name = s.dir.lfd_files[e].ld_name

\* The same pseudo-devices open for the same entries.
SameTab(t, u) ==
    /\ TabOK(u)
    /\ \A i \in Slot : u[i].lfstate = t[i].lfstate /\ u[i].lfdirptr = t[i].lfdirptr

StateOK ==
    /\ LfsOK(lfs) /\ TabOK(lfltab)
    /\ fds \in [Proc -> SUBSET Slot]
    /\ DOMAIN call = Proc /\ \A p \in Proc : CallOK(call[p])

-----------------------------------------------------------------------------
\* What an open, a remove and a rename know while they are under way.

EntryName(e) == lfs.dir.lfd_files[e].ld_name
EntryOf(i)   == lfltab[i].lfdirptr
LastEntry    == lfs.dir.lfd_nfiles - 1

\* The pseudo-device chosen by open is still free, and its file not open.
OpenInv(p) ==
    /\ call[p].slot \notin OpenSlots
    /\ \A i \in OpenSlots : EntryName(EntryOf(i)) # call[p].name
    /\ \A q \in Proc : call[q].op = "open" => q = p
    /\ \A q \in Proc : call[q].op \in {"remove", "rename"}
                          => call[p].name \notin {call[q].name, call[q].to}

\* Neither the entry that is removed nor the last one is open, and an open that
\* came later comes later.
RemoveInv(p) ==
    /\ \A q \in Proc : call[q].op = "remove" => q = p
    /\ \A q \in Proc : call[q].op = "rename" => call[p].name \notin {call[q].name, call[q].to}
    /\ \A q \in Proc : call[q].op = "open" => Before(p, q)
    /\ \A i \in OpenSlots : EntryOf(i) # LastEntry
    /\ call[p].pc = "remove" => \A i \in OpenSlots : EntryName(EntryOf(i)) # call[p].name
    /\ call[p].pc # "remove" => /\ \A i \in OpenSlots : EntryOf(i) # call[p].ent
                                /\ lfs.dir.lfd_nfiles > 0

FilesInv ==
    /\ ~lfs.dirpresent => OpenSlots = {}
    /\ \A i \in OpenSlots : EntryOf(i) \in Nat
    /\ \A p \in Proc : fds[p] \subseteq OpenSlots
    /\ OpenFilesApart
    /\ \A p \in Proc : /\ call[p].op = "open" => OpenInv(p)
                       /\ call[p].op = "remove" => RemoveInv(p)

IInv == StateOK /\ LineInv /\ FilesInv

-----------------------------------------------------------------------------
\* The directory on the disk is good while it is not said to be dirty.

\* The fields of the directory, and that a file without i-blocks has no bytes.
DirFields(d) ==
    /\ {"lfd_files", "lfd_nfiles", "lfd_ifree", "lfd_dfree"} \subseteq DOMAIN d
    /\ \A e \in 0 .. LF_NUM_DIR_ENT-1 :
          {"ld_size", "ld_ilist", "ld_name"} \subseteq DOMAIN d.lfd_files[e]
SizesOK(d) ==
    \A e \in 0 .. d.lfd_nfiles-1 :
        d.lfd_files[e].ld_ilist = LF_INULL => d.lfd_files[e].ld_size = 0
DirsOK(s) == DirFields(s.dir) /\ DirFields(s.disk.dir) /\ SizesOK(s.dir) /\ SizesOK(s.disk.dir)

\* The directory d on the disk is good for D.
GoodFor(d, D) ==
    /\ d.lfd_ifree = D.lfd_ifree /\ d.lfd_dfree = D.lfd_dfree
    /\ \A e \in 0 .. D.lfd_nfiles-1 :
          D.lfd_files[e].ld_size > 0 => e < d.lfd_nfiles /\ d.lfd_files[e] = D.lfd_files[e]
    /\ \A e \in 0 .. d.lfd_nfiles-1 :
          e \in 0 .. D.lfd_nfiles-1 /\ d.lfd_files[e].ld_name = D.lfd_files[e].ld_name
Good(s) == s.dirpresent /\ ~s.dirdirty => GoodFor(s.disk.dir, s.dir)

\* A control block has an i-block or a d-block of its file.
Loaded(f) == f.lfinum # LF_INULL \/ ~AtEnd(f)

UseOps == {"read", "write", "getc", "putc", "seek", "close", "trunc"}

\* Who is in a call on a descriptor has it for his own; what lfsetup has begun
\* with is still the entry of the file; and a file has i-blocks from lfsetup on.
UseInv(p) ==
    /\ call[p].op \in UseOps => call[p].slot \in fds[p]
    /\ call[p].pc \in {"setup", "walk", "place"} => call[p].ent = File(p).lfdirptr
    /\ call[p].pc = "walk" => Ilist(File(p).lfdirptr) # LF_INULL

LoadedInv ==
    /\ \A i \in Slot : {"lfinum", "lfbyte"} \subseteq DOMAIN lfltab[i]
    /\ \A i \in OpenSlots : Loaded(lfltab[i]) => Ilist(EntryOf(i)) # LF_INULL

\* Only between the two steps of a removal may it be otherwise.
CleanInv ==
    /\ DirsOK(lfs) /\ LoadedInv
    /\ \A p \in Proc : UseInv(p)
    /\ (\A p \in Proc : call[p].pc # "clear") => Good(lfs)

-----------------------------------------------------------------------------
\* Writing blocks and allocating them leaves the names of the entries alone.

\* Steps that leave the names alone can be put one after the other.
LEMMA SameDirTrans ==
  ASSUME NEW s, NEW t, NEW u, SameDir(s, t), SameDir(t, u)
  PROVE  SameDir(s, u)
BY DEF SameDir

\* Writing the directory to the disk changes no name in memory.
LEMMA WriteDirSame ==
  ASSUME NEW s, LfsOK(s)
  PROVE  SameDir(s, s) /\ SameDir(s, WriteDir(s))
BY DEF SameDir, WriteDir, LfsOK

\* lfflush writes blocks of one file.
LEMMA FlushSame ==
  ASSUME NEW s, LfsOK(s), NEW f
  PROVE  SameDir(s, Flush(s, f))
<1>1. ASSUME NEW t, LfsOK(t)  PROVE SameDir(t, FlushBlocks(t, f))
  BY <1>1 DEF SameDir, FlushBlocks, LfsOK
<1>2. SameDir(s, s) /\ SameDir(s, WriteDir(s))
  BY WriteDirSame
<1>3. LfsOK(s) /\ LfsOK(WriteDir(s))
  BY <1>2 DEF SameDir
<1>4. SameDir(s, FlushBlocks(s, f)) /\ SameDir(WriteDir(s), FlushBlocks(WriteDir(s), f))
  BY <1>1, <1>3
<1>5. SameDir(s, FlushBlocks(WriteDir(s), f))
  BY <1>2, <1>4, SameDirTrans
<1> QED  BY <1>2, <1>4, <1>5 DEF Flush

\* The head of a free list is not among the names either.
LEMMA FreeListSame ==
  ASSUME NEW s, LfsOK(s), NEW x
  PROVE  /\ SameDir(s, [s EXCEPT !.dir.lfd_ifree = x])
         /\ SameDir(s, [s EXCEPT !.dir.lfd_dfree = x])
BY DEF SameDir, LfsOK, DirOK

\* lfiballoc and lfdballoc take a block off a free list.
LEMMA AllocSame ==
  ASSUME NEW s, LfsOK(s), NEW next
  PROVE  SameDir(s, Iballoc(s)) /\ SameDir(s, Dballoc(s, next))
<1> DEFINE t == [s EXCEPT !.dir.lfd_ifree = s.disk.ib[s.dir.lfd_ifree].ib_next]
           u == [s EXCEPT !.dir.lfd_dfree = next]
<1>1. SameDir(s, t) /\ SameDir(s, u)
  BY FreeListSame
<1>2. Iballoc(s) = WriteDir(t) /\ Dballoc(s, next) = WriteDir(u)
  BY DEF Iballoc, Dballoc
<1> HIDE DEF t, u
<1>3. SameDir(t, WriteDir(t)) /\ SameDir(u, WriteDir(u))
  BY <1>1, WriteDirSame DEF SameDir
<1> QED  BY <1>1, <1>2, <1>3, SameDirTrans

\* lfdbfree puts a data block on its free list.
LEMMA DbfreeSame ==
  ASSUME NEW s, LfsOK(s), NEW d
  PROVE  SameDir(s, Dbfree(s, d))
<1> DEFINE t == [s EXCEPT !.dir.lfd_dfree = d, !.disk.db[d] = Link(s.dir.lfd_dfree)]
<1>1. SameDir(s, t)
  BY DEF SameDir, LfsOK, DirOK
<1>2. Dbfree(s, d) = [t EXCEPT !.disk.dir = t.dir]
  BY DEF Dbfree
<1> HIDE DEF t
<1>3. LfsOK(t)
  BY <1>1 DEF SameDir
<1>4. SameDir(t, [t EXCEPT !.disk.dir = t.dir])
  BY <1>3 DEF SameDir, LfsOK
<1> QED  BY <1>1, <1>2, <1>4, SameDirTrans

\* A sector that is written is a data or an index block.
LEMMA WriteSectorSame ==
  ASSUME NEW s, LfsOK(s), NEW sector
  PROVE  SameDir(s, WriteSector(s, sector))
BY DEF SameDir, WriteSector, LfsOK

-----------------------------------------------------------------------------
\* Nor does it make the directory on the disk a bad one.

\* The entries have the i-blocks they had.
SameLists(s, t) ==
    \A e \in 0 .. LF_NUM_DIR_ENT-1 : t.dir.lfd_files[e].ld_ilist = s.dir.lfd_files[e].ld_ilist

\* A step that keeps what is claimed of the directories.
Calm(s, t) == DirsOK(t) /\ (Good(s) => Good(t)) /\ SameLists(s, t)

\* What is on the disk is good when it is what is in memory.
LEMMA GoodSelf ==
  ASSUME NEW d, d.lfd_nfiles \in 0 .. LF_NUM_DIR_ENT
  PROVE  GoodFor(d, d)
BY DiskAssumption DEF GoodFor

\* Steps of this kind can be put one after the other.
LEMMA CalmTrans ==
  ASSUME NEW s, NEW t, NEW u, Calm(s, t), Calm(t, u)
  PROVE  Calm(s, u)
BY DEF Calm, SameLists

\* Writing the directory makes the disk good.
LEMMA WriteDirCalm ==
  ASSUME NEW s, LfsOK(s), DirsOK(s)
  PROVE  /\ Calm(s, s) /\ Calm(s, WriteDir(s)) /\ Good(WriteDir(s))
         /\ WriteDir(s).dir = s.dir
<1>1. WriteDir(s).dir = s.dir /\ WriteDir(s).disk.dir = s.dir
  BY DEF WriteDir, LfsOK
<1>2. Good(WriteDir(s))
  BY <1>1, GoodSelf DEF Good, LfsOK, DirOK
<1> QED  BY <1>1, <1>2 DEF Calm, SameLists, DirsOK

\* lfflush writes the directory if it is dirty.
LEMMA FlushCalm ==
  ASSUME NEW s, LfsOK(s), DirsOK(s), NEW f
  PROVE  Calm(s, Flush(s, f)) /\ Flush(s, f).dir = s.dir
<1>1. ASSUME NEW t, LfsOK(t), DirsOK(t)  PROVE Calm(t, FlushBlocks(t, f)) /\ FlushBlocks(t, f).dir = t.dir
  <2> DEFINE u == FlushBlocks(t, f)
  <2>1. u.dir = t.dir /\ u.disk.dir = t.disk.dir /\ u.dirpresent = t.dirpresent /\ u.dirdirty = t.dirdirty
    BY <1>1 DEF FlushBlocks, LfsOK
  <2> HIDE DEF u
  <2> QED  BY <1>1, <2>1 DEF Calm, SameLists, DirsOK, Good, u
<1>2. Calm(s, s) /\ Calm(s, WriteDir(s)) /\ LfsOK(WriteDir(s)) /\ DirsOK(WriteDir(s)) /\ WriteDir(s).dir = s.dir
  BY WriteDirCalm, WriteDirSame DEF SameDir, Calm
<1>3. /\ Calm(s, FlushBlocks(s, f)) /\ FlushBlocks(s, f).dir = s.dir
      /\ Calm(WriteDir(s), FlushBlocks(WriteDir(s), f)) /\ FlushBlocks(WriteDir(s), f).dir = s.dir
  BY <1>1, <1>2
<1>4. Calm(s, FlushBlocks(WriteDir(s), f))
  BY <1>2, <1>3, CalmTrans
<1> QED  BY <1>2, <1>3, <1>4 DEF Flush

\* An allocation writes the directory, with the new head of the free list.
LEMMA AllocCalm ==
  ASSUME NEW s, LfsOK(s), DirsOK(s), NEW next
  PROVE  /\ Calm(s, Iballoc(s)) /\ Good(Iballoc(s)) /\ Iballoc(s).dir.lfd_files = s.dir.lfd_files
         /\ Iballoc(s).disk.dir = Iballoc(s).dir
         /\ Calm(s, Dballoc(s, next)) /\ Good(Dballoc(s, next))
<1>1. ASSUME NEW x, NEW t, t \in {[s EXCEPT !.dir.lfd_ifree = x], [s EXCEPT !.dir.lfd_dfree = x]}
      PROVE  /\ Calm(s, WriteDir(t)) /\ Good(WriteDir(t)) /\ WriteDir(t).dir.lfd_files = s.dir.lfd_files
             /\ WriteDir(t).disk.dir = WriteDir(t).dir
  <2>1. /\ t.dir.lfd_files = s.dir.lfd_files /\ t.dir.lfd_nfiles = s.dir.lfd_nfiles
        /\ DOMAIN t.dir = DOMAIN s.dir /\ t.disk = s.disk
    BY <1>1 DEF LfsOK, DirOK
  <2>2. LfsOK(t)
    <3>1. /\ LfsOK([s EXCEPT !.dir.lfd_ifree = x]) /\ LfsOK([s EXCEPT !.dir.lfd_dfree = x])
      BY FreeListSame DEF SameDir
    <3> QED  BY <1>1, <3>1
  <2>3. DirsOK(t)
    BY <2>1 DEF DirsOK, DirFields, SizesOK
  <2>4. Good(WriteDir(t)) /\ Calm(t, WriteDir(t)) /\ WriteDir(t).dir = t.dir /\ WriteDir(t).disk.dir = t.dir
    BY <2>2, <2>3, WriteDirCalm DEF WriteDir, LfsOK
  <2> QED  BY <2>1, <2>4 DEF Calm, SameLists
<1> QED  BY <1>1 DEF Iballoc, Dballoc

\* So does freeing a data block.
LEMMA DbfreeCalm ==
  ASSUME NEW s, LfsOK(s), DirsOK(s), NEW d
  PROVE  Calm(s, Dbfree(s, d))
<1> DEFINE t == [s EXCEPT !.dir.lfd_dfree = d, !.disk.db[d] = Link(s.dir.lfd_dfree)]
<1>1. Dbfree(s, d) = [t EXCEPT !.disk.dir = t.dir]
  BY DEF Dbfree
<1>2. /\ t.dir.lfd_files = s.dir.lfd_files /\ t.dir.lfd_nfiles = s.dir.lfd_nfiles
      /\ DOMAIN t.dir = DOMAIN s.dir /\ "dir" \in DOMAIN t.disk /\ DOMAIN t = DOMAIN s
  BY DEF LfsOK, DirOK
<1> HIDE DEF t
<1>3. Dbfree(s, d).dir = t.dir /\ Dbfree(s, d).disk.dir = t.dir
  BY <1>1, <1>2 DEF LfsOK
<1>4. Good(Dbfree(s, d))
  BY <1>2, <1>3, GoodSelf DEF Good, LfsOK, DirOK
<1> QED  BY <1>2, <1>3, <1>4 DEF Calm, SameLists, DirsOK, DirFields, SizesOK

\* The other sectors are not of the directory.
LEMMA WriteSectorCalm ==
  ASSUME NEW s, LfsOK(s), DirsOK(s), NEW sector
  PROVE  Calm(s, WriteSector(s, sector))
<1> DEFINE u == WriteSector(s, sector)
<1>1. u.dir = s.dir /\ u.disk.dir = s.disk.dir /\ u.dirpresent = s.dirpresent /\ u.dirdirty = s.dirdirty
  BY DEF WriteSector, LfsOK
<1> HIDE DEF u
<1> QED  BY <1>1 DEF Calm, SameLists, DirsOK, Good, u

\* One entry of a directory is changed.
Changed(d, e, r) == [d EXCEPT !.lfd_files[e] = r]

\* The rest of the directory stays.
LEMMA EntryDir ==
  ASSUME NEW d, DirOK(d), NEW e \in 0 .. LF_NUM_DIR_ENT-1, NEW r, NEW D,
         D = Changed(d, e, r)
  PROVE  /\ DOMAIN D = DOMAIN d /\ D.lfd_nfiles = d.lfd_nfiles
         /\ D.lfd_ifree = d.lfd_ifree /\ D.lfd_dfree = d.lfd_dfree
         /\ DOMAIN D.lfd_files = 0 .. LF_NUM_DIR_ENT-1 /\ D.lfd_files[e] = r
         /\ \A x \in 0 .. LF_NUM_DIR_ENT-1 : x # e => D.lfd_files[x] = d.lfd_files[x]
         /\ d.lfd_nfiles \in Nat /\ 0 .. d.lfd_nfiles-1 \subseteq 0 .. LF_NUM_DIR_ENT-1
BY DiskAssumption DEF DirOK, Changed

\* What freeing d-blocks leaves alone.
Freed(s, t) == SameDir(s, t) /\ (DirsOK(s) => Calm(s, t))

\* One more d-block is freed.
LEMMA DbfreeFreed ==
  ASSUME NEW s, NEW t, Freed(s, t), NEW d
  PROVE  Freed(s, Dbfree(t, d))
<1>1. LfsOK(t) /\ (DirsOK(s) => DirsOK(t))
  BY DEF Freed, SameDir, Calm
<1>2. SameDir(s, Dbfree(t, d))
  BY <1>1, DbfreeSame, SameDirTrans DEF Freed
<1>3. ASSUME DirsOK(s)  PROVE Calm(s, Dbfree(t, d))
  <2>1. Calm(s, t) /\ Calm(t, Dbfree(t, d))
    BY <1>1, <1>3, DbfreeCalm DEF Freed
  <2> QED  BY <2>1, CalmTrans
<1> QED  BY <1>2, <1>3 DEF Freed

\* The loop over the blocks of an i-block: its stages exist, by the least number
\* of rounds for which they would not, and each leaves that alone.
LEMMA FreeDblocksFreed ==
  ASSUME NEW s, LfsOK(s), NEW iblock
  PROVE  Freed(s, FreeDblocks(s, iblock))
<1> DEFINE n == LF_IBLEN
           Round(f, k) ==
             CASE k = 0                                    -> s
               [] k > 0 /\ iblock.ib_dba[k] = LF_DNULL     -> f[k-1]
               [] k > 0 /\ iblock.ib_dba[k] # LF_DNULL     -> Dbfree(f[k-1], iblock.ib_dba[k])
           Stages(m, f) == f = [k \in 0..m |-> Round(f, k)]
           Kept(m, f)   == \A k \in 0..m : Freed(s, f[k])
           T == {m \in 0..n : ~ \E f : Stages(m, f) /\ Kept(m, f)}
<1>1. n \in Nat
  BY DiskAssumption
<1>2. Freed(s, s)
  BY WriteDirSame, WriteDirCalm DEF Freed
<1>3. T = {}
  <2> SUFFICES ASSUME T # {}  PROVE FALSE
    OBVIOUS
  <2> DEFINE m == Min(T)
  <2>1. m \in T /\ (\A y \in T : m <= y) /\ m \in 0..n
    <3>1. T \subseteq Nat
      BY <1>1
    <3> HIDE DEF T
    <3>2. m \in T /\ (\A y \in T : m <= y)
      BY <3>1, MinNat
    <3> QED  BY <3>2 DEF T
  <2> HIDE DEF m
  <2>2. CASE m = 0
    <3> DEFINE f == [k \in 0..0 |-> s]
    <3>1. Stages(0, f)
      OBVIOUS
    <3>2. Kept(0, f)
      BY <1>2
    <3> QED  BY <2>1, <2>2, <3>1, <3>2
  <2>3. CASE m # 0
    <3>1. m-1 \in 0..n /\ m \in 1..n
      BY <1>1, <2>1, <2>3
    <3> HIDE DEF Stages, Kept
    <3>2. m-1 \notin T
      <4> HIDE DEF T
      <4> QED  BY <2>1, <3>1
    <3>3. PICK f : Stages(m-1, f) /\ Kept(m-1, f)
      BY <3>1, <3>2
    <3> USE DEF Stages, Kept
    <3> DEFINE last == Round(f, m)
               g == [k \in 0..m |-> IF k < m THEN f[k] ELSE last]
    <3>4. Freed(s, last)
      <4>1. Freed(s, f[m-1])
        <5> HIDE DEF T, Stages
        <5> QED  BY <3>1, <3>3
      <4>2. Freed(s, Dbfree(f[m-1], iblock.ib_dba[m]))
        BY <4>1, DbfreeFreed
      <4> QED  BY <3>1, <4>1, <4>2
    <3>5. Kept(m, g)
      <4> HIDE DEF last
      <4> QED  BY <3>1, <3>3, <3>4
    <3>6. ASSUME NEW k \in 0..m  PROVE g[k] = Round(g, k)
      <4>1. CASE k < m
        <5>1. k \in 0..m-1 /\ f[k] = Round(f, k) /\ g[k] = f[k]
          BY <3>1, <3>3, <4>1
        <5>2. k > 0 => g[k-1] = f[k-1]
          BY <3>1, <4>1
        <5>3. Round(g, k) = Round(f, k)
          BY <5>1, <5>2
        <5> QED  BY <5>1, <5>3
      <4>2. CASE k = m
        <5>1. g[m-1] = f[m-1] /\ g[k] = last
          BY <3>1, <4>2
        <5> QED  BY <3>1, <4>2, <5>1
      <4> QED  BY <3>1, <4>1, <4>2
    <3>7. Stages(m, g)
      <4> HIDE DEF Round
      <4>1. g = [k \in 0..m |-> g[k]]
        OBVIOUS
      <4> QED  BY <3>6, <4>1
    <3> QED  BY <2>1, <3>5, <3>7
  <2> QED  BY <2>2, <2>3
<1> HIDE DEF Stages, Kept
<1>4. PICK f : Stages(n, f) /\ Kept(n, f)
  <2>1. n \in 0..n
    BY <1>1
  <2> QED  BY <1>3, <2>1
<1> DEFINE freed[k \in 0 .. LF_IBLEN] ==
          CASE k = 0                                    -> s
            [] k > 0 /\ iblock.ib_dba[k] = LF_DNULL     -> freed[k-1]
            [] k > 0 /\ iblock.ib_dba[k] # LF_DNULL     -> Dbfree(freed[k-1], iblock.ib_dba[k])
<1>5. freed = [k \in 0..n |-> Round(freed, k)]
  BY <1>4 DEF Stages
<1>6. FreeDblocks(s, iblock) = freed[n]
  BY DEF FreeDblocks
<1> HIDE DEF freed
<1> DEFINE U == {k \in 0..n : ~ Freed(s, freed[k])}
<1>7. U = {}
  <2> SUFFICES ASSUME U # {}  PROVE FALSE
    OBVIOUS
  <2> DEFINE m == Min(U)
  <2>1. m \in U /\ (\A y \in U : m <= y) /\ m \in 0..n
    <3>1. U \subseteq Nat
      BY <1>1
    <3> HIDE DEF U
    <3>2. m \in U /\ (\A y \in U : m <= y)
      BY <3>1, MinNat
    <3> QED  BY <3>2 DEF U
  <2> HIDE DEF m
  <2>2. freed[m] = Round(freed, m)
    BY <1>5, <2>1
  <2>3. m # 0
    BY <1>2, <2>1, <2>2
  <2>4. m-1 \in 0..n /\ m-1 \notin U /\ m \in 1..n
    BY <1>1, <2>1, <2>3
  <2>5. Freed(s, freed[m-1])
    BY <2>4
  <2>6. Freed(s, Dbfree(freed[m-1], iblock.ib_dba[m]))
    BY <2>5, DbfreeFreed
  <2> QED  BY <1>1, <2>1, <2>2, <2>4, <2>5, <2>6
<1>8. n \in 0..n
  BY <1>1
<1> QED  BY <1>6, <1>7, <1>8

\* It leaves the names alone, ...
LEMMA FreeDblocksSame ==
  ASSUME NEW s, LfsOK(s), NEW iblock
  PROVE  SameDir(s, FreeDblocks(s, iblock))
BY FreeDblocksFreed DEF Freed

\* ... and what is claimed of the directories.
LEMMA FreeDblocksCalm ==
  ASSUME NEW s, LfsOK(s), DirsOK(s), NEW iblock
  PROVE  Calm(s, FreeDblocks(s, iblock))
BY FreeDblocksFreed DEF Freed

-----------------------------------------------------------------------------
\* The line for lf_mutex.

\* The step of p to c as lf_mutex sees it: p joins the line, leaves it from its
\* head, or stays in it or out of it.
LineStep(p, c) ==
    \/ /\ call[p].pc \notin DirPcs /\ c.pc \in DirPcs \ OwnPcs
       /\ lockq'[DIR] = Append(lockq[DIR], p)
    \/ /\ Holds(p, DIR) /\ c.pc \notin DirPcs
       /\ lockq'[DIR] = Tail(lockq[DIR])
    \/ /\ call[p].pc \in DirPcs <=> c.pc \in DirPcs
       /\ c.pc \in OwnPcs => Holds(p, DIR)
       /\ lockq'[DIR] = lockq[DIR]

Step1(p, c) ==
    /\ call' = [call EXCEPT ![p] = c] /\ CallOK(c)
    /\ DOMAIN lockq' = Mutex /\ LineStep(p, c)

\* A step of p moves p alone in the line for lf_mutex: those that stay in line
\* keep their order.
LEMMA LineKept ==
  ASSUME IInv, NEW p \in Proc, NEW c, Step1(p, c)
  PROVE  /\ LineInv'
         /\ \A q, r \in Proc :
               Before(q, r) /\ call'[q].pc \in DirPcs => Before(q, r)'
<1>1. /\ lockq[DIR] \in Queue(Proc) /\ lockq[DIR] \in Seq(Proc) /\ DOMAIN lockq' = Mutex
      /\ DOMAIN call = Proc
      /\ \A q \in Proc : call[q].pc \in DirPcs <=> q \in Range(lockq[DIR])
      /\ \A q \in Proc : call[q].pc \in OwnPcs => Holds(q, DIR)
  BY DEF IInv, StateOK, LineInv, Queue, Step1
<1>2. call'[p] = c /\ \A q \in Proc \ {p} : call'[q] = call[q]
  BY <1>1 DEF Step1
<1> DEFINE line == lockq[DIR]
<1>3. line \in Queue(Proc) /\ line \in Seq(Proc) /\ DOMAIN line = 1 .. Len(line) /\ Len(line) \in Nat
  BY <1>1
<1>4. \A q \in Proc : Holds(q, DIR) <=> line # <<>> /\ Head(line) = q
  BY DEF Holds
<1>5. \A q \in Proc : Holds(q, DIR)' <=> lockq'[DIR] # <<>> /\ Head(lockq'[DIR]) = q
  BY DEF Holds
<1>6. OwnPcs \subseteq DirPcs
  BY DEF OwnPcs, DirPcs
<1> HIDE DEF line
<1>7. CASE /\ call[p].pc \notin DirPcs /\ c.pc \in DirPcs \ OwnPcs
           /\ lockq'[DIR] = Append(line, p)
  <2>1. p \notin Range(line)
    BY <1>1, <1>7 DEF line
  <2>2. /\ lockq'[DIR] \in Queue(Proc) /\ Range(lockq'[DIR]) = Range(line) \cup {p}
    BY <1>3, <1>7, <2>1, EnqueueQueue DEF Enqueue
  <2>3. /\ DOMAIN lockq'[DIR] = 1 .. Len(line)+1
        /\ \A j \in 1 .. Len(line) : lockq'[DIR][j] = line[j]
    BY <1>3, <1>7, AppendProperties
  <2>4. line # <<>> => lockq'[DIR] # <<>> /\ Head(lockq'[DIR]) = Head(line)
    BY <1>3, <1>7, <2>3
  <2>5. \A q \in Proc : call'[q].pc \in DirPcs <=> q \in Range(lockq'[DIR])
    BY <1>1, <1>2, <1>7, <2>2 DEF line
  <2>6. \A q \in Proc : call'[q].pc \in OwnPcs => Holds(q, DIR)'
    BY <1>1, <1>2, <1>4, <1>5, <1>7, <2>4
  <2>7. LineInv'
    BY <1>1, <2>2, <2>5, <2>6 DEF LineInv
  <2>8. ASSUME NEW q \in Proc, NEW r \in Proc, Before(q, r)  PROVE Before(q, r)'
    <3>1. PICK i, j \in DOMAIN line : i < j /\ line[i] = q /\ line[j] = r
      BY <2>8 DEF Before, line
    <3>2. i \in DOMAIN lockq'[DIR] /\ j \in DOMAIN lockq'[DIR] /\ lockq'[DIR][i] = q /\ lockq'[DIR][j] = r
      BY <1>3, <2>3, <3>1
    <3> QED  BY <3>1, <3>2 DEF Before
  <2> QED  BY <2>7, <2>8
<1>8. CASE /\ Holds(p, DIR) /\ c.pc \notin DirPcs
           /\ lockq'[DIR] = Tail(line)
  <2>1. line # <<>> /\ Head(line) = p
    BY <1>4, <1>8
  <2>2. lockq'[DIR] \in Queue(Proc) /\ Range(lockq'[DIR]) = Range(line) \ {p}
    BY <1>3, <1>8, <2>1, DequeueQueue DEF IsEmpty
  <2>3. \A q \in Proc : call'[q].pc \in DirPcs <=> q \in Range(lockq'[DIR])
    BY <1>1, <1>2, <1>8, <2>2 DEF line
  <2>4. \A q \in Proc \ {p} : call[q].pc \notin OwnPcs
    BY <1>1, <1>4, <2>1
  <2>5. LineInv'
    BY <1>1, <1>2, <1>6, <1>8, <2>2, <2>3, <2>4 DEF LineInv
  <2>6. ASSUME NEW q \in Proc, NEW r \in Proc, Before(q, r), call'[q].pc \in DirPcs
        PROVE  Before(q, r)'
    <3>1. PICK i, j \in DOMAIN line : i < j /\ line[i] = q /\ line[j] = r
      BY <2>6 DEF Before, line
    <3>2. q # p /\ line[1] = p
      BY <1>2, <1>3, <1>8, <2>1, <2>6
    <3>3. i-1 \in 1 .. Len(line)-1 /\ j-1 \in 1 .. Len(line)-1 /\ i-1 < j-1
      BY <1>3, <3>1, <3>2
    <3>4. DOMAIN Tail(line) = 1 .. Len(line)-1 /\ \A k \in 1 .. Len(line)-1 : Tail(line)[k] = line[k+1]
      BY <1>3, <2>1, HeadTailProperties
    <3>5. Tail(line)[i-1] = q /\ Tail(line)[j-1] = r
      BY <1>3, <3>1, <3>3, <3>4
    <3> QED  BY <1>8, <3>3, <3>4, <3>5 DEF Before
  <2> QED  BY <2>5, <2>6
<1>9. CASE /\ call[p].pc \in DirPcs <=> c.pc \in DirPcs
           /\ c.pc \in OwnPcs => Holds(p, DIR)
           /\ lockq'[DIR] = line
  <2>1. \A q \in Proc : Holds(q, DIR)' <=> Holds(q, DIR)
    BY <1>4, <1>5, <1>9
  <2>2. LineInv'
    BY <1>1, <1>2, <1>3, <1>9, <2>1 DEF LineInv, line
  <2>3. \A q, r \in Proc : Before(q, r) => Before(q, r)'
    BY <1>9 DEF Before, line
  <2> QED  BY <2>2, <2>3
<1> QED  BY <1>7, <1>8, <1>9 DEF Step1, LineStep, line

-----------------------------------------------------------------------------
\* Steps that change neither the names of entries nor which are open.

\* The entry of an open file is one of those in use.
LEMMA OpenEntries ==
  ASSUME IInv
  PROVE  /\ \A i \in OpenSlots : /\ i \in Slot /\ EntryOf(i) \in 0 .. LF_NUM_DIR_ENT-1
                                 /\ EntryOf(i) < lfs.dir.lfd_nfiles
         /\ lfs.dir.lfd_nfiles \in Nat /\ LF_NUM_DIR_ENT \in Nat
         /\ DIR \in Mutex \ Slot
BY DiskAssumption, NlflAssumption
   DEF IInv, StateOK, LfsOK, DirOK, FilesInv, OpenFilesApart, EntryIsOwn, OpenSlots, EntryOf,
       DIR, Mutex, Slot

\* Where p goes in such a step: out of the calls that matter, or on in one.
GoesOn(p, c) ==
    \/ c.op \notin {"open", "remove", "rename"}
    \/ /\ c.op = call[p].op /\ c.name = call[p].name /\ c.to = call[p].to
       /\ c.slot = call[p].slot /\ c.ent = call[p].ent
       /\ c.pc = "remove" <=> call[p].pc = "remove"

\* A step that leaves names, entries and descriptors alone and keeps to the
\* order of the call keeps the invariant.
LEMMA QuietKept ==
  ASSUME IInv, NEW p \in Proc, NEW c, Step1(p, c), GoesOn(p, c),
         SameDir(lfs, lfs'), SameTab(lfltab, lfltab'), fds' = fds
  PROVE  IInv'
<1>1. LineInv' /\ \A q, r \in Proc : Before(q, r) /\ call'[q].pc \in DirPcs => Before(q, r)'
  BY LineKept
<1>2. DOMAIN call = Proc /\ (\A q \in Proc : CallOK(call[q])) /\ fds \in [Proc -> SUBSET Slot]
  BY DEF IInv, StateOK
<1>3. call'[p] = c /\ DOMAIN call' = Proc /\ \A q \in Proc \ {p} : call'[q] = call[q]
  BY <1>2 DEF Step1
<1>4. StateOK'
  BY <1>2, <1>3 DEF StateOK, Step1, SameDir, SameTab, CallOK
<1>5. /\ OpenSlots' = OpenSlots
      /\ lfs'.dir.lfd_nfiles = lfs.dir.lfd_nfiles
      /\ lfs'.dirpresent = lfs.dirpresent
      /\ \A i \in OpenSlots : lfltab'[i].lfdirptr = lfltab[i].lfdirptr
      /\ \A i \in OpenSlots : lfs'.dir.lfd_files[lfltab[i].lfdirptr].ld_name
                              = lfs.dir.lfd_files[lfltab[i].lfdirptr].ld_name
  BY OpenEntries DEF SameDir, SameTab, OpenSlots, EntryOf
<1>6. /\ \A i \in OpenSlots : EntryOf(i)' = EntryOf(i) /\ EntryName(EntryOf(i))' = EntryName(EntryOf(i))
      /\ LastEntry' = LastEntry
  BY <1>5 DEF EntryOf, EntryName, LastEntry
<1>7. /\ ~lfs.dirpresent => OpenSlots = {}
      /\ \A i \in OpenSlots : EntryOf(i) \in Nat
      /\ \A q \in Proc : fds[q] \subseteq OpenSlots
      /\ OpenFilesApart
      /\ \A q \in Proc : /\ call[q].op = "open" => OpenInv(q)
                         /\ call[q].op = "remove" => RemoveInv(q)
  BY DEF IInv, FilesInv
<1>8. OpenFilesApart'
  BY <1>5, <1>7 DEF OpenFilesApart, SlotOwner, EntryIsOwn
<1>9. \A q \in Proc : call'[q].op \in {"open", "remove", "rename"} =>
           /\ call'[q].op = call[q].op /\ call'[q].name = call[q].name /\ call'[q].to = call[q].to
           /\ call'[q].slot = call[q].slot /\ call'[q].ent = call[q].ent
           /\ call'[q].pc = "remove" <=> call[q].pc = "remove"
  BY <1>3 DEF GoesOn
<1>10. ASSUME NEW q \in Proc, call'[q].op = "open"  PROVE OpenInv(q)'
  <2>1. OpenInv(q) /\ call[q].op = "open"
    BY <1>7, <1>9, <1>10
  <2> QED  BY <1>5, <1>6, <1>9, <1>10, <2>1 DEF OpenInv
<1>11. ASSUME NEW q \in Proc, call'[q].op = "remove"  PROVE RemoveInv(q)'
  <2>1. RemoveInv(q) /\ call[q].op = "remove"
    BY <1>7, <1>9, <1>11
  <2>2. call'[q].pc \in DirPcs
    BY <1>4, <1>11 DEF StateOK, CallOK, DirPcs
  <2>3. \A r \in Proc : call'[r].op = "open" => Before(q, r)'
    BY <1>1, <1>9, <2>1, <2>2 DEF RemoveInv
  <2>4. \A r \in Proc : call'[r].op = "remove" => r = q
    BY <1>9, <2>1 DEF RemoveInv
  <2>5. \A r \in Proc : call'[r].op = "rename" => call'[q].name \notin {call'[r].name, call'[r].to}
    BY <1>9, <1>11, <2>1 DEF RemoveInv
  <2>6. /\ \A i \in OpenSlots' : EntryOf(i)' # LastEntry'
        /\ call'[q].pc = "remove" => \A i \in OpenSlots' : EntryName(EntryOf(i))' # call'[q].name
        /\ call'[q].pc # "remove" => /\ \A i \in OpenSlots' : EntryOf(i)' # call'[q].ent
                                     /\ lfs'.dir.lfd_nfiles > 0
    BY <1>5, <1>6, <1>9, <1>11, <2>1 DEF RemoveInv
  <2> QED  BY <2>3, <2>4, <2>5, <2>6 DEF RemoveInv
<1>12. FilesInv'
  <2>1. \A i \in OpenSlots' : EntryOf(i)' \in Nat
    BY <1>5, <1>6, <1>7
  <2> QED  BY <1>5, <1>7, <1>8, <1>10, <1>11, <2>1 DEF FilesInv
<1> QED  BY <1>1, <1>4, <1>12 DEF IInv

\* What the calls do at the mutexes: only wait and signal for lf_mutex move its
\* line, and the others leave it as it is.
LEMMA Steps ==
  ASSUME IInv, NEW p \in Proc, NEW c, CallOK(c),
         \/ /\ Goto(p, c) \/ \E m \in Slot : WaitFor(p, m, c) \/ Signal(p, m, c)
            /\ call[p].pc \in DirPcs <=> c.pc \in DirPcs
            /\ c.pc \in OwnPcs => Holds(p, DIR)
         \/ WaitFor(p, DIR, c) /\ call[p].pc \notin DirPcs /\ c.pc \in DirPcs \ OwnPcs
         \/ Signal(p, DIR, c) /\ Holds(p, DIR) /\ c.pc \notin DirPcs
  PROVE  Step1(p, c)
<1>1. DOMAIN lockq = Mutex /\ DIR \in Mutex /\ DIR \notin Slot
  BY OpenEntries DEF IInv, LineInv
<1> QED  BY <1>1 DEF Goto, WaitFor, Signal, Step1, LineStep

\* The invariant speaks of these variables only.
LEMMA Stutters ==
  ASSUME IInv, UNCHANGED <<lfs, lfltab, lockq, call, fds>>
  PROVE  IInv'
<1>1. StateOK' /\ OpenFilesApart'
  BY DEF IInv, StateOK, FilesInv, OpenFilesApart, SlotOwner, EntryIsOwn, OpenSlots
<1>2. LineInv' /\ \A q, r \in Proc : Before(q, r)' <=> Before(q, r)
  BY DEF IInv, LineInv, Holds, Before
<1>3. /\ OpenSlots' = OpenSlots /\ LastEntry' = LastEntry
      /\ \A i : EntryOf(i)' = EntryOf(i) /\ EntryName(EntryOf(i))' = EntryName(EntryOf(i))
  BY DEF OpenSlots, LastEntry, EntryOf, EntryName
<1>4. \A q \in Proc : (OpenInv(q) => OpenInv(q)') /\ (RemoveInv(q) => RemoveInv(q)')
  BY <1>2, <1>3 DEF OpenInv, RemoveInv
<1>5. FilesInv'
  BY <1>1, <1>3, <1>4 DEF IInv, FilesInv
<1> QED  BY <1>1, <1>2, <1>5 DEF IInv

\* The calls of one byte, of seek and of the truncation change the size, the
\* blocks and the position of the file.
LEMMA EntrySame ==
  ASSUME NEW s, LfsOK(s), NEW e, NEW x, NEW y, NEW z
  PROVE  /\ SameDir(s, [s EXCEPT !.dir.lfd_files[e].ld_size = x, !.dirdirty = y])
         /\ SameDir(s, [s EXCEPT !.dir.lfd_files[e].ld_ilist = x])
         /\ SameDir(s, [s EXCEPT !.dir.lfd_files[e].ld_ilist = x,
                                 !.dir.lfd_files[e].ld_size = z, !.dirdirty = y])
BY ZenonT(60) DEF SameDir, LfsOK, DirOK

\* A control block rewritten with its state and entry as they were.
LEMMA TabSame ==
  ASSUME NEW t, TabOK(t), NEW i \in Slot, NEW g, {"lfstate", "lfdirptr"} \subseteq DOMAIN g,
         g.lfstate = t[i].lfstate, g.lfdirptr = t[i].lfdirptr
  PROVE  SameTab(t, t) /\ SameTab(t, [t EXCEPT ![i] = g])
BY DEF SameTab, TabOK

\* A step that changes nothing is such a step.
LEMMA SamesHold ==
  ASSUME IInv
  PROVE  /\ SameDir(lfs, lfs) /\ SameTab(lfltab, lfltab) /\ LfsOK(lfs) /\ TabOK(lfltab)
         /\ \A q \in Proc : CallOK(call[q]) /\ call[q].slot \in Slot
BY WriteDirSame DEF IInv, StateOK, SameTab, TabOK, CallOK

-----------------------------------------------------------------------------
\* Reading and writing.

\* A read or a write begins.
LEMMA TransferKept ==
  ASSUME IInv, NEW p \in Proc, call[p].pc = "idle", NEW c, Transfer(p, c),
         DOMAIN c = DOMAIN Idle, c.op \in {"read", "write", "getc", "putc"}, c.pc = "byte",
         c.slot \in Slot
  PROVE  IInv'
<1>1. CallOK(c)
  BY DEF CallOK, Idle
<1>2. Goto(p, c) \/ WaitFor(p, c.slot, c)
  BY DEF Transfer
<1>3. lfs' = lfs /\ lfltab' = lfltab /\ fds' = fds
  BY DEF Transfer, data
<1>4. Step1(p, c)
  BY <1>1, <1>2, Steps DEF DirPcs, OwnPcs
<1>5. GoesOn(p, c)
  BY DEF GoesOn
<1> QED  BY <1>3, <1>4, <1>5, QuietKept, SamesHold

\* The descriptors of a process are open.
LEMMA FdsInSlot ==
  ASSUME IInv, NEW p \in Proc
  PROVE  Fds(p) \subseteq OpenSlots /\ Fds(p) \subseteq Slot
<1>1. \A q \in Proc : fds[q] \subseteq OpenSlots
  BY DEF IInv, FilesInv
<1> QED  BY <1>1 DEF Fds, OpenSlots

\* A call on an open file ends.
LEMMA FinishKept ==
  ASSUME IInv, NEW p \in Proc, call[p].pc \in {"byte", "place"}, Finish(p),
         SameDir(lfs, lfs'), SameTab(lfltab, lfltab'), fds' = fds
  PROVE  IInv'
<1>1. call[p].slot \in Slot /\ call[p].pc \notin DirPcs /\ 0 \in Slot
  BY SamesHold, NlflAssumption DEF DirPcs, Slot
<1>2. CallOK(Idle) /\ Idle.pc \notin DirPcs /\ Idle.pc \notin OwnPcs
  BY <1>1 DEF Idle, CallOK, DirPcs, OwnPcs
<1>3. Goto(p, Idle) \/ Signal(p, call[p].slot, Idle)
  BY DEF Finish
<1>4. Step1(p, Idle)
  BY <1>1, <1>2, <1>3, Steps
<1>5. GoesOn(p, Idle)
  BY DEF GoesOn, Idle
<1> QED  BY <1>4, <1>5, QuietKept

\* A transfer goes on to its next byte, or ends.
LEMMA NextByteKept ==
  ASSUME IInv, NEW p \in Proc, call[p].pc \in {"byte", "place"}, NextByte(p),
         SameDir(lfs, lfs'), SameTab(lfltab, lfltab'), fds' = fds
  PROVE  IInv'
<1>1. CASE Finish(p)
  BY <1>1, FinishKept
<1>2. CASE ~Finish(p)
  <2> DEFINE c == [call[p] EXCEPT !.n = @ - 1, !.bytes = IF @ = <<>> THEN @ ELSE Tail(@)]
             on == [c EXCEPT !.pc = "byte"]
             go == [c EXCEPT !.pc = "again"]
  <2>1. Goto(p, on) \/ Signal(p, c.slot, go)
    BY <1>2 DEF NextByte
  <2>2. CallOK(call[p]) /\ call[p].slot \in Slot /\ call[p].op \in {"read", "write", "getc", "putc"}
        /\ call[p].pc \notin DirPcs
    BY SamesHold DEF CallOK, DirPcs
  <2>3. /\ c.slot = call[p].slot /\ on.op = call[p].op /\ go.op = call[p].op
        /\ on.pc = "byte" /\ go.pc = "again"
        /\ CallOK(on) /\ CallOK(go)
    BY <2>2 DEF CallOK
  <2> HIDE DEF c, on, go
  <2>4. Step1(p, on) \/ Step1(p, go)
    BY <2>1, <2>2, <2>3, Steps DEF DirPcs, OwnPcs
  <2>5. GoesOn(p, on) /\ GoesOn(p, go)
    BY <2>2, <2>3 DEF GoesOn
  <2> QED  BY <2>4, <2>5, QuietKept
<1> QED  BY <1>1, <1>2

\* lflputc stores a byte.
LEMMA PutByteKept ==
  ASSUME IInv, NEW p \in Proc, call[p].pc \in {"byte", "place"}, NEW e, PutByte(p, e)
  PROVE  IInv'
<1> DEFINE i == call[p].slot
           f == lfltab[i]
           g == [f EXCEPT !.lfdblock[f.lfbyte + 1] = Head(call[p].bytes),
                          !.lfbyte = @ + 1, !.lfpos = @ + 1, !.lfdbdirty = TRUE]
           s == [lfs EXCEPT !.dir.lfd_files[e].ld_size = @ + 1, !.dirdirty = TRUE]
<1>1. i \in Slot /\ TabOK(lfltab) /\ LfsOK(lfs) /\ SameDir(lfs, lfs)
  BY SamesHold
<1>2. {"lfstate", "lfdirptr"} \subseteq DOMAIN g /\ g.lfstate = f.lfstate /\ g.lfdirptr = f.lfdirptr
  BY <1>1 DEF TabOK
<1>3. lfltab' = [lfltab EXCEPT ![i] = g] /\ lfs' \in {s, lfs} /\ NextByte(p) /\ fds' = fds
  BY DEF PutByte
<1>4. SameTab(lfltab, lfltab')
  <2> HIDE DEF g
  <2> QED  BY <1>1, <1>2, <1>3, TabSame
<1>5. SameDir(lfs, s)
  BY <1>1 DEF SameDir, LfsOK, DirOK
<1> QED  BY <1>1, <1>3, <1>4, <1>5, NextByteKept

\* lflgetc fetches a byte.
LEMMA TakeByteKept ==
  ASSUME IInv, NEW p \in Proc, call[p].pc \in {"byte", "place"}, TakeByte(p)
  PROVE  IInv'
<1>1. call[p].slot \in Slot /\ TabOK(lfltab) /\ SameDir(lfs, lfs)
  BY SamesHold
<1>2. /\ lfltab' = [lfltab EXCEPT ![call[p].slot].lfbyte = @ + 1, ![call[p].slot].lfpos = @ + 1]
      /\ lfs' = lfs /\ NextByte(p) /\ fds' = fds
  BY DEF TakeByte
<1>3. SameTab(lfltab, lfltab')
  BY <1>1, <1>2 DEF SameTab, TabOK
<1> QED  BY <1>1, <1>2, <1>3, NextByteKept

\* A transfer that goes on to wait for lf_mutex.
LEMMA ByteKept ==
  ASSUME IInv, NEW p \in Proc, Byte(p)
  PROVE  IInv'
<1>1. call[p].pc = "byte" /\ CallOK(call[p]) /\ call[p].slot \in Slot
  BY SamesHold DEF Byte, At
<1> DEFINE e == File(p).lfdirptr
           c == [call[p] EXCEPT !.pc = "setup", !.ent = e]
<1>2. CASE Finish(p) /\ UNCHANGED <<data, fds, halted>>
  BY <1>1, <1>2, FinishKept, SamesHold DEF data
<1>3. CASE PutByte(p, e) \/ TakeByte(p)
  BY <1>1, <1>3, PutByteKept, TakeByteKept
<1>4. CASE WaitFor(p, DIR, c) /\ UNCHANGED <<data, fds, got, halted>>
  <2>1. /\ call[p].op \in {"read", "write", "getc", "putc"} /\ call[p].pc \notin DirPcs
        /\ c.op = call[p].op /\ c.pc = "setup" /\ CallOK(c)
    BY <1>1 DEF CallOK, DirPcs
  <2> HIDE DEF c
  <2>2. Step1(p, c) /\ GoesOn(p, c)
    BY <1>4, <2>1, Steps DEF DirPcs, OwnPcs, GoesOn
  <2> QED  BY <1>4, <2>2, QuietKept, SamesHold DEF data
<1>5. \/ Finish(p) /\ UNCHANGED <<data, fds, halted>>
      \/ PutByte(p, e) \/ TakeByte(p)
      \/ WaitFor(p, DIR, c) /\ UNCHANGED <<data, fds, got, halted>>
  BY DEF Byte
<1> QED  BY <1>2, <1>3, <1>4, <1>5

\* A transfer that found no block goes to lfsetup.
LEMMA AgainKept ==
  ASSUME IInv, NEW p \in Proc, Again(p)
  PROVE  IInv'
<1> DEFINE c == [call[p] EXCEPT !.pc = "byte"]
<1>1. /\ call[p].pc = "again" /\ CallOK(call[p]) /\ call[p].slot \in Slot
      /\ WaitFor(p, call[p].slot, c) /\ UNCHANGED <<data, fds, got, halted>>
  BY SamesHold DEF Again, At
<1>2. /\ call[p].op \in {"read", "write", "getc", "putc"} /\ call[p].pc \notin DirPcs
      /\ c.op = call[p].op /\ c.pc = "byte" /\ CallOK(c)
  BY <1>1 DEF CallOK, DirPcs
<1> HIDE DEF c
<1>3. Step1(p, c) /\ GoesOn(p, c)
  BY <1>1, <1>2, Steps DEF DirPcs, OwnPcs, GoesOn
<1> QED  BY <1>1, <1>3, QuietKept, SamesHold DEF data

\* It comes back from lfsetup with the block in place.
LEMMA AfterSetupKept ==
  ASSUME IInv, NEW p \in Proc, AfterSetup(p)
  PROVE  IInv'
<1>1. call[p].pc = "place"
  BY DEF AfterSetup, At
<1>2. CASE Halt("undefined")
  BY <1>2, Stutters DEF Halt
<1>3. CASE PutByte(p, call[p].ent) \/ TakeByte(p)
  BY <1>1, <1>3, PutByteKept, TakeByteKept
<1> QED  BY <1>2, <1>3 DEF AfterSetup

-----------------------------------------------------------------------------
\* lfsetup works on the blocks, and on the directory for the free lists.

\* Where a transfer goes on from within lfsetup: lf_mutex is kept, and given
\* back with the block in place.
LEMMA SetupKept ==
  ASSUME IInv, NEW p \in Proc, call[p].pc \in {"setup", "walk"}, Holds(p, DIR),
         \/ Goto(p, [call[p] EXCEPT !.pc = "walk"])
         \/ call[p].pc = "walk" /\ Goto(p, call[p])
         \/ Signal(p, DIR, [call[p] EXCEPT !.pc = "place"]),
         SameDir(lfs, lfs'), NEW g, lfltab' = [lfltab EXCEPT ![call[p].slot] = g],
         {"lfstate", "lfdirptr"} \subseteq DOMAIN g,
         g.lfstate = File(p).lfstate, g.lfdirptr = File(p).lfdirptr, fds' = fds
  PROVE  IInv'
<1> DEFINE on  == [call[p] EXCEPT !.pc = "walk"]
           out == [call[p] EXCEPT !.pc = "place"]
<1>1. CallOK(call[p]) /\ call[p].slot \in Slot /\ TabOK(lfltab)
  BY SamesHold
<1>2. /\ call[p].op \in {"read", "write", "getc", "putc"} /\ call[p].pc \in DirPcs
      /\ on.op = call[p].op /\ on.pc = "walk" /\ CallOK(on)
      /\ out.op = call[p].op /\ out.pc = "place" /\ CallOK(out)
  BY <1>1 DEF CallOK, DirPcs
<1>3. Goto(p, on) \/ (call[p].pc = "walk" /\ Goto(p, call[p])) \/ Signal(p, DIR, out)
  OBVIOUS
<1> HIDE DEF on, out
<1>4. Step1(p, on) \/ Step1(p, call[p]) \/ Step1(p, out)
  BY <1>1, <1>2, <1>3, Steps DEF DirPcs, OwnPcs
<1>5. GoesOn(p, on) /\ GoesOn(p, call[p]) /\ GoesOn(p, out)
  BY <1>2 DEF GoesOn
<1>6. SameTab(lfltab, lfltab')
  BY <1>1, TabSame DEF File
<1> QED  BY <1>4, <1>5, <1>6, QuietKept

\* What lfflush does to a control block leaves its state and entry alone.
LEMMA FlushedSame ==
  ASSUME NEW f, {"lfstate", "lfdirptr"} \subseteq DOMAIN f
  PROVE  /\ {"lfstate", "lfdirptr"} \subseteq DOMAIN Flushed(f)
         /\ Flushed(f).lfstate = f.lfstate /\ Flushed(f).lfdirptr = f.lfdirptr
BY DEF Flushed

\* lfsetup reads or makes the first index block.
LEMMA SetupFirstKept ==
  ASSUME IInv, NEW p \in Proc, SetupFirst(p)
  PROVE  IInv'
<1> DEFINE i == call[p].slot
           dirty == lfltab[i].lfibdirty \/ lfltab[i].lfdbdirty
           s == IF dirty THEN Flush(lfs, lfltab[i]) ELSE lfs
           f == IF dirty THEN Flushed(lfltab[i]) ELSE lfltab[i]
           e == f.lfdirptr
           first == s.dir.lfd_files[e].ld_ilist
           new   == s.dir.lfd_ifree
           t == [Iballoc(s) EXCEPT !.dir.lfd_files[e].ld_ilist = new]
           f2 == [f EXCEPT !.lfinum = first, !.lfiblock = s.disk.ib[first]]
           f3 == [f EXCEPT !.lfinum = new, !.lfiblock = Iblock(0), !.lfibdirty = TRUE]
           go(u, g) == /\ lfs' = u
                       /\ lfltab' = [lfltab EXCEPT ![i] = g]
                       /\ Goto(p, [call[p] EXCEPT !.pc = "walk"])
                       /\ UNCHANGED <<fds, got, halted>>
<1>1. call[p].pc = "setup" /\ Holds(p, DIR)
  BY ZenonT(60) DEF SetupFirst, At
<1>2. go(s, f) \/ go(s, f2) \/ go(t, f3) \/ Halt("undefined") \/ Halt("panic")
  BY DEF SetupFirst
<1>3. i \in Slot /\ LfsOK(lfs) /\ SameDir(lfs, lfs) /\ TabOK(lfltab)
      /\ {"lfstate", "lfdirptr"} \subseteq DOMAIN lfltab[i]
  BY SamesHold DEF TabOK
<1>4. SameDir(lfs, s) /\ LfsOK(s)
  BY <1>3, FlushSame DEF SameDir
<1>5. SameDir(lfs, t)
  <2> HIDE DEF s
  <2>1. SameDir(s, Iballoc(s)) /\ LfsOK(Iballoc(s))
    BY <1>4, AllocSame DEF SameDir
  <2>2. SameDir(Iballoc(s), t)
    BY <2>1, EntrySame
  <2> QED  BY <1>4, <2>1, <2>2, SameDirTrans
<1>6. {"lfstate", "lfdirptr"} \subseteq DOMAIN f /\ f.lfstate = File(p).lfstate /\ f.lfdirptr = File(p).lfdirptr
  BY <1>3, FlushedSame DEF File
<1>7. \A g \in {f2, f3} : DOMAIN g = DOMAIN f /\ g.lfstate = f.lfstate /\ g.lfdirptr = f.lfdirptr
  <2> HIDE DEF f, s
  <2> QED  BY <1>6
<1> HIDE DEF s, f, t, f2, f3
<1>8. CASE Halt("undefined") \/ Halt("panic")
  BY <1>8, Stutters DEF Halt
<1>9. ASSUME NEW u \in {s, t}, NEW g \in {f, f2, f3}, go(u, g)  PROVE IInv'
  BY <1>1, <1>4, <1>5, <1>6, <1>7, <1>9, SetupKept
<1> QED  BY <1>2, <1>8, <1>9

\* lfsetup walks the list of index blocks.
LEMMA SetupWalkKept ==
  ASSUME IInv, NEW p \in Proc, SetupWalk(p)
  PROVE  IInv'
<1> DEFINE i    == call[p].slot
           f    == lfltab[i]
           next == f.lfiblock.ib_next
           new  == lfs.dir.lfd_ifree
           f2 == [f EXCEPT !.lfinum = next, !.lfiblock = lfs.disk.ib[next]]
           f3 == [f EXCEPT !.lfinum = new, !.lfibdirty = TRUE,
                           !.lfiblock = Iblock(f.lfiblock.ib_offset + LF_IDATA)]
           t  == [Iballoc(lfs) EXCEPT !.disk.ib[f.lfinum] = [f.lfiblock EXCEPT !.ib_next = new]]
           go(u, g) == /\ lfs' = u
                       /\ lfltab' = [lfltab EXCEPT ![i] = [g EXCEPT !.lfdnum = LF_DNULL]]
                       /\ Goto(p, call[p])
                       /\ UNCHANGED <<fds, got, halted>>
<1>1. call[p].pc = "walk"
  BY DEF SetupWalk, At
<1>2. go(lfs, f2) \/ go(t, f3) \/ Halt("panic")
  BY DEF SetupWalk
<1>3. i \in Slot /\ LfsOK(lfs) /\ SameDir(lfs, lfs) /\ TabOK(lfltab) /\ CallOK(call[p])
      /\ {"lfstate", "lfdirptr"} \subseteq DOMAIN lfltab[i]
  BY SamesHold DEF TabOK
<1>4. Holds(p, DIR)
  BY <1>1 DEF IInv, LineInv, OwnPcs
<1>5. SameDir(lfs, t)
  <2>1. SameDir(lfs, Iballoc(lfs)) /\ LfsOK(Iballoc(lfs))
    BY <1>3, AllocSame DEF SameDir
  <2> DEFINE u == Iballoc(lfs)
  <2> HIDE DEF u
  <2>2. SameDir(u, [u EXCEPT !.disk.ib[f.lfinum] = [f.lfiblock EXCEPT !.ib_next = new]])
    BY <2>1 DEF SameDir, LfsOK, u
  <2> QED  BY <2>1, <2>2, SameDirTrans DEF u
<1>6. ASSUME NEW g \in {f2, f3}
      PROVE  LET h == [g EXCEPT !.lfdnum = LF_DNULL]
             IN  /\ {"lfstate", "lfdirptr"} \subseteq DOMAIN h
                 /\ h.lfstate = File(p).lfstate /\ h.lfdirptr = File(p).lfdirptr
  BY <1>3 DEF File
<1> HIDE DEF f, t, f2, f3
<1>7. CASE Halt("panic")
  BY <1>7, Stutters DEF Halt
<1>8. ASSUME NEW u \in {lfs, t}, NEW g \in {f2, f3}, go(u, g)  PROVE IInv'
  <2> DEFINE h == [g EXCEPT !.lfdnum = LF_DNULL]
  <2>1. /\ {"lfstate", "lfdirptr"} \subseteq DOMAIN h
        /\ h.lfstate = File(p).lfstate /\ h.lfdirptr = File(p).lfdirptr
    BY <1>6
  <2>2. SameDir(lfs, lfs') /\ lfltab' = [lfltab EXCEPT ![call[p].slot] = h] /\ fds' = fds
        /\ Goto(p, call[p])
    BY <1>3, <1>4, <1>5, <1>8
  <2> HIDE DEF h
  <2> QED  BY <1>1, <1>4, <2>1, <2>2, SetupKept
<1> QED  BY <1>2, <1>7, <1>8

\* lfsetup finds or makes the data block.
LEMMA SetupBlockKept ==
  ASSUME IInv, NEW p \in Proc, SetupBlock(p)
  PROVE  IInv'
<1> DEFINE i    == call[p].slot
           f    == lfltab[i]
           dnum == f.lfiblock.ib_dba[DIndex(f)]
           new  == lfs.dir.lfd_dfree
           f2 == [f EXCEPT !.lfdnum = dnum, !.lfdbdirty = FALSE,
                           !.lfdblock = lfs.disk.db[dnum].data]
           f3 == [f EXCEPT !.lfdnum = new, !.lfdblock = Filled, !.lfibdirty = TRUE,
                           !.lfiblock.ib_dba[DIndex(f)] = new]
           go(t, g) == /\ lfs' = t
                       /\ lfltab' = [lfltab EXCEPT ![i] = [g EXCEPT !.lfbyte = Offset(f)]]
                       /\ Signal(p, DIR, [call[p] EXCEPT !.pc = "place"])
                       /\ UNCHANGED <<fds, got, halted>>
<1>1. call[p].pc = "walk"
  BY ZenonT(60) DEF SetupBlock, At
<1>2. \/ go(lfs, f) \/ go(lfs, f2) \/ Halt("panic")
      \/ \E next : go(Dballoc(lfs, next), f3)
  BY DEF SetupBlock
<1>3. i \in Slot /\ LfsOK(lfs) /\ SameDir(lfs, lfs) /\ TabOK(lfltab)
      /\ {"lfstate", "lfdirptr"} \subseteq DOMAIN lfltab[i]
  BY SamesHold DEF TabOK
<1>4. Holds(p, DIR)
  BY <1>1 DEF IInv, LineInv, OwnPcs
<1>5. \A next : SameDir(lfs, Dballoc(lfs, next))
  BY <1>3, AllocSame
<1>6. ASSUME NEW g \in {f, f2, f3}
      PROVE  LET h == [g EXCEPT !.lfbyte = Offset(f)]
             IN  /\ {"lfstate", "lfdirptr"} \subseteq DOMAIN h
                 /\ h.lfstate = File(p).lfstate /\ h.lfdirptr = File(p).lfdirptr
  BY <1>3 DEF File
<1> HIDE DEF f, f2, f3
<1>7. CASE Halt("panic")
  BY <1>7, Stutters DEF Halt
<1>8. ASSUME NEW t, SameDir(lfs, t), NEW g \in {f, f2, f3}, go(t, g)  PROVE IInv'
  <2> DEFINE h == [g EXCEPT !.lfbyte = Offset(f)]
  <2>1. /\ {"lfstate", "lfdirptr"} \subseteq DOMAIN h
        /\ h.lfstate = File(p).lfstate /\ h.lfdirptr = File(p).lfdirptr
    BY <1>6
  <2>2. SameDir(lfs, lfs') /\ lfltab' = [lfltab EXCEPT ![call[p].slot] = h] /\ fds' = fds
        /\ Signal(p, DIR, [call[p] EXCEPT !.pc = "place"])
    BY <1>8
  <2> HIDE DEF h
  <2> QED  BY <1>1, <1>4, <2>1, <2>2, SetupKept
<1> QED  BY <1>2, <1>3, <1>5, <1>7, <1>8

-----------------------------------------------------------------------------
\* seek, and the calls that end with signal for the mutex of the file.

\* A call begins that takes the mutex of its file, and gets in its line.
LEMMA LockedKept ==
  ASSUME IInv, NEW p \in Proc, NEW op \in {"seek", "close"}, NEW i \in Slot, NEW n, Locked(p, op, i, n)
  PROVE  IInv'
<1> DEFINE c == [Idle EXCEPT !.op = op, !.pc = op, !.slot = i, !.n = n]
<1>1. call[p].pc = "idle" /\ WaitFor(p, i, c) /\ UNCHANGED <<data, fds, halted>>
  BY DEF Locked, Start, At
<1>2. c.op = op /\ c.pc = op /\ CallOK(c)
  BY DEF CallOK, Idle
<1> HIDE DEF c
<1>3. Step1(p, c) /\ GoesOn(p, c)
  BY <1>1, <1>2, Steps DEF DirPcs, OwnPcs, GoesOn
<1> QED  BY <1>1, <1>3, QuietKept, SamesHold DEF data

\* A process without a call is nowhere in the line for lf_mutex.
LEMMA IdleOK ==
  /\ CallOK(Idle) /\ Idle.op = "none" /\ Idle.pc = "idle"
  /\ Idle.pc \notin DirPcs /\ Idle.pc \notin OwnPcs /\ \A p : GoesOn(p, Idle)
BY NlflAssumption DEF Idle, CallOK, DirPcs, OwnPcs, Slot, GoesOn

\* lflseek moves the position.
LEMMA LflseekKept ==
  ASSUME IInv, NEW p \in Proc, Lflseek(p)
  PROVE  IInv'
<1>1. /\ call[p].pc = "seek" /\ Signal(p, call[p].slot, Idle) /\ lfs' = lfs /\ fds' = fds
      /\ lfltab' \in {[lfltab EXCEPT ![call[p].slot].lfpos = call[p].n,
                                     ![call[p].slot].lfbyte = LF_BLKSIZ], lfltab}
  BY DEF Lflseek, At
<1>2. call[p].slot \in Slot /\ TabOK(lfltab) /\ SameDir(lfs, lfs) /\ SameTab(lfltab, lfltab)
  BY SamesHold
<1>3. SameTab(lfltab, lfltab')
  BY <1>1, <1>2 DEF SameTab, TabOK
<1>4. Step1(p, Idle)
  BY <1>1, <1>2, IdleOK, Steps DEF DirPcs
<1> QED  BY <1>1, <1>2, <1>3, <1>4, IdleOK, QuietKept

-----------------------------------------------------------------------------
\* lflcontrol and lftruncate.

\* lflcontrol takes the mutex of the file.
LEMMA LflcontrolKept ==
  ASSUME IInv, NEW p \in Proc, NEW i \in Slot, Lflcontrol(p, i)
  PROVE  IInv'
<1> DEFINE c == [Idle EXCEPT !.op = "trunc", !.slot = i]
           c1 == [c EXCEPT !.pc = "trunc"]
           c2 == [c EXCEPT !.pc = "control"]
<1>1. /\ call[p].pc = "idle" /\ UNCHANGED <<data, fds, halted>>
      /\ WaitFor(p, DIR, c1) \/ WaitFor(p, i, c2)
  BY DEF Lflcontrol, Start, At
<1>2. c1.op = "trunc" /\ c1.pc = "trunc" /\ CallOK(c1) /\ c2.op = "trunc" /\ c2.pc = "control" /\ CallOK(c2)
  BY DEF CallOK, Idle
<1> HIDE DEF c, c1, c2
<1>3. Step1(p, c1) \/ Step1(p, c2)
  BY <1>1, <1>2, Steps DEF DirPcs, OwnPcs
<1>4. GoesOn(p, c1) /\ GoesOn(p, c2)
  BY <1>2 DEF GoesOn
<1> QED  BY <1>1, <1>3, <1>4, QuietKept, SamesHold DEF data

\* lflcontrol has the mutex of the file, takes lf_mutex next, and at the end
\* gives it back.
LEMMA LflcontrolLockedKept ==
  ASSUME IInv, NEW p \in Proc, LflcontrolLocked(p) \/ LflcontrolUnlock(p)
  PROVE  IInv'
<1> DEFINE c == [call[p] EXCEPT !.pc = "trunc"]
<1>1. /\ call[p].pc \in {"control", "unlock"} /\ UNCHANGED <<data, fds, got, halted>>
      /\ \/ call[p].pc = "control" /\ WaitFor(p, DIR, c)
         \/ Signal(p, call[p].slot, Idle)
  BY DEF LflcontrolLocked, LflcontrolUnlock, At
<1>2. CallOK(call[p]) /\ call[p].slot \in Slot
  BY SamesHold
<1>3. call[p].op = "trunc" /\ c.op = "trunc" /\ c.pc = "trunc" /\ CallOK(c)
  BY <1>1, <1>2 DEF CallOK
<1> HIDE DEF c
<1>4. Step1(p, c) \/ Step1(p, Idle)
  BY <1>1, <1>2, <1>3, IdleOK, Steps DEF DirPcs, OwnPcs
<1>5. GoesOn(p, c) /\ GoesOn(p, Idle)
  BY <1>3, IdleOK DEF GoesOn
<1> QED  BY <1>1, <1>4, <1>5, QuietKept, SamesHold DEF data

\* A truncation that has lf_mutex ends.
LEMMA LflcontrolEndStep ==
  ASSUME IInv, NEW p \in Proc, call[p].op = "trunc", Holds(p, DIR), LflcontrolEnd(p)
  PROVE  \E c : Step1(p, c) /\ GoesOn(p, c)
<1> DEFINE c == [call[p] EXCEPT !.pc = "unlock"]
<1>1. Signal(p, DIR, Idle) \/ Signal(p, DIR, c)
  BY DEF LflcontrolEnd
<1>2. c.op = "trunc" /\ c.pc = "unlock" /\ CallOK(c)
  <2>1. CallOK(call[p])
    BY SamesHold
  <2> QED  BY <2>1 DEF CallOK
<1> HIDE DEF c
<1>3. Step1(p, c) \/ Step1(p, Idle)
  BY <1>1, <1>2, IdleOK, Steps DEF DirPcs, OwnPcs
<1>4. GoesOn(p, c) /\ GoesOn(p, Idle)
  BY <1>2, IdleOK DEF GoesOn
<1> QED  BY <1>3, <1>4

\* lftruncate empties the file.
LEMMA LftruncateKept ==
  ASSUME IInv, NEW p \in Proc, Lftruncate(p)
  PROVE  IInv'
<1> DEFINE i == call[p].slot
           f == lfltab[i]
           e == f.lfdirptr
           dirty == f.lfibdirty \/ f.lfdbdirty
           s == IF dirty THEN Flush(lfs, f) ELSE lfs
           t == [s EXCEPT !.dir.lfd_files[e].ld_ilist = LF_INULL,
                          !.dir.lfd_files[e].ld_size = 0, !.dirdirty = TRUE]
           f1 == IF dirty THEN Flushed(f) ELSE f
           g == [f1 EXCEPT !.lfpos = 0, !.lfinum = LF_INULL, !.lfdnum = LF_DNULL,
                           !.lfbyte = LF_BLKSIZ]
           first == s.dir.lfd_files[e].ld_ilist
           c == [call[p] EXCEPT !.pc = "free", !.first = first, !.next = first,
                                !.ifree = s.dir.lfd_ifree]
<1>1. /\ call[p].pc = "trunc" /\ Holds(p, DIR) /\ fds' = fds
      /\ \/ LflcontrolEnd(p) /\ UNCHANGED data
         \/ lfs' = t /\ lfltab' = [lfltab EXCEPT ![i] = g] /\ Goto(p, c)
  BY DEF Lftruncate, At
<1>2. i \in Slot /\ LfsOK(lfs) /\ SameDir(lfs, lfs) /\ TabOK(lfltab)
      /\ {"lfstate", "lfdirptr"} \subseteq DOMAIN lfltab[i]
      /\ CallOK(call[p])
  BY SamesHold DEF TabOK
<1>3. call[p].op = "trunc"
  BY <1>1, <1>2 DEF CallOK
<1>4. c.op = "trunc" /\ c.pc = "free" /\ CallOK(c)
  BY <1>2, <1>3 DEF CallOK
<1>5. SameDir(lfs, t)
  <2>1. SameDir(lfs, s) /\ LfsOK(s)
    BY <1>2, FlushSame DEF SameDir
  <2> HIDE DEF s
  <2>2. SameDir(s, t)
    BY <2>1, EntrySame
  <2> QED  BY <2>1, <2>2, SameDirTrans
<1>6. {"lfstate", "lfdirptr"} \subseteq DOMAIN g /\ g.lfstate = lfltab[i].lfstate
      /\ g.lfdirptr = lfltab[i].lfdirptr
  <2>1. {"lfstate", "lfdirptr"} \subseteq DOMAIN f1 /\ f1.lfstate = f.lfstate /\ f1.lfdirptr = f.lfdirptr
    BY <1>2, FlushedSame
  <2> HIDE DEF f1
  <2> QED  BY <2>1
<1> HIDE DEF s, t, f1, g, c
<1>7. CASE LflcontrolEnd(p) /\ UNCHANGED data
  BY <1>1, <1>3, <1>7, LflcontrolEndStep, QuietKept, SamesHold DEF data
<1>8. CASE lfs' = t /\ lfltab' = [lfltab EXCEPT ![i] = g] /\ Goto(p, c)
  <2>1. SameTab(lfltab, lfltab')
    BY <1>2, <1>6, <1>8, TabSame
  <2>2. Step1(p, c) /\ GoesOn(p, c)
    BY <1>1, <1>4, <1>8, Steps DEF DirPcs, OwnPcs, GoesOn
  <2> QED  BY <1>1, <1>5, <1>8, <2>1, <2>2, QuietKept
<1> QED  BY <1>1, <1>7, <1>8

\* The loop over the i-blocks, of a truncation or of a removal.
LEMMA FreeKept ==
  ASSUME IInv, NEW p \in Proc, FreeLoop(p) \/ FreePut(p) \/ FreeEnd(p)
  PROVE  IInv'
<1>1. /\ SameDir(lfs, lfs) /\ SameTab(lfltab, lfltab) /\ LfsOK(lfs) /\ CallOK(call[p])
      /\ call[p].slot \in Slot /\ call[p].pc \in {"free", "put"}
  BY SamesHold DEF FreeLoop, FreePut, FreeEnd, At
<1>2. Holds(p, DIR) /\ call[p].op \in {"trunc", "remove"} /\ call[p].pc \in DirPcs
  BY <1>1 DEF IInv, LineInv, OwnPcs, DirPcs, CallOK
<1>3. CASE FreeLoop(p)
  <2> DEFINE s == FreeDblocks(lfs, lfs.disk.ib[call[p].next])
             sector == [ReadSector(s, call[p].next) EXCEPT
                            ![call[p].next] = Cleared(@, call[p].ifree)]
             c == [call[p] EXCEPT !.pc = "put", !.sector = sector]
  <2>1. Halt("undefined") \/ (lfs' = s /\ Goto(p, c) /\ UNCHANGED <<lfltab, fds, got, halted>>)
    BY <1>3 DEF FreeLoop
  <2>2. CASE Halt("undefined")
    BY <2>2, Stutters DEF Halt
  <2>3. CASE lfs' = s /\ Goto(p, c) /\ UNCHANGED <<lfltab, fds, got, halted>>
    <3>1. SameDir(lfs, s)
      BY <1>1, FreeDblocksSame
    <3> HIDE DEF s, sector
    <3>2. CallOK(c) /\ c.pc = "put" /\ GoesOn(p, c)
      BY <1>1, <1>2, <1>3 DEF CallOK, GoesOn, FreeLoop, At
    <3> HIDE DEF c
    <3>3. Step1(p, c)
      BY <1>2, <2>3, <3>2, Steps DEF DirPcs, OwnPcs
    <3> QED  BY <1>1, <2>3, <3>1, <3>2, <3>3, QuietKept
  <2> QED  BY <2>1, <2>2, <2>3
<1>4. CASE FreePut(p)
  <2> DEFINE sector == call[p].sector
             c == [call[p] EXCEPT !.pc = "free", !.next = sector[@].ib_next, !.sector = <<>>]
  <2>1. /\ lfs' = WriteSector(lfs, sector) /\ Goto(p, c) /\ UNCHANGED <<lfltab, fds, got, halted>>
        /\ call[p].pc = "put"
    BY <1>4 DEF FreePut, At
  <2>2. SameDir(lfs, lfs')
    BY <1>1, <2>1, WriteSectorSame
  <2>3. CallOK(c) /\ c.pc = "free" /\ GoesOn(p, c)
    BY <1>1, <1>2, <2>1 DEF CallOK, GoesOn
  <2> HIDE DEF c
  <2>4. Step1(p, c)
    BY <1>2, <2>1, <2>3, Steps DEF DirPcs, OwnPcs
  <2> QED  BY <1>1, <2>1, <2>2, <2>3, <2>4, QuietKept
<1>5. CASE FreeEnd(p)
  <2> DEFINE c == [call[p] EXCEPT !.pc = "move"]
  <2>1. /\ lfs' = [lfs EXCEPT !.dir.lfd_ifree = call[p].first, !.dirdirty = TRUE]
        /\ IF call[p].op = "trunc" THEN LflcontrolEnd(p) ELSE Goto(p, c)
        /\ UNCHANGED <<lfltab, fds, got, halted>> /\ call[p].pc = "free"
    BY <1>5 DEF FreeEnd, At
  <2>2. SameDir(lfs, lfs')
    BY <1>1, <2>1 DEF SameDir, LfsOK, DirOK
  <2>3. CASE call[p].op = "trunc"
    BY <1>1, <1>2, <2>1, <2>2, <2>3, LflcontrolEndStep, QuietKept
  <2>4. CASE call[p].op = "remove"
    <3>1. CallOK(c) /\ c.pc = "move" /\ GoesOn(p, c)
      BY <1>1, <1>2, <2>1, <2>4 DEF CallOK, GoesOn
    <3> HIDE DEF c
    <3>2. Step1(p, c)
      BY <1>2, <2>1, <2>4, <3>1, Steps DEF DirPcs, OwnPcs
    <3> QED  BY <1>1, <2>1, <2>2, <3>1, <3>2, QuietKept
  <2> QED  BY <1>2, <2>3, <2>4
<1> QED  BY <1>3, <1>4, <1>5

-----------------------------------------------------------------------------
\* Steps that change the names of entries, close a file, or begin a call that
\* others have to know of.

\* The calls of the others allow that p goes on with c.
OthersAllow(p, c) ==
    \A q \in Proc \ {p} :
        /\ call[q].op = "open" =>
              /\ c.op # "open"
              /\ c.op \in {"remove", "rename"} => call[q].name \notin {c.name, c.to}
        /\ call[q].op = "remove" =>
              /\ c.op # "remove"
              /\ c.op = "rename" => call[q].name \notin {c.name, c.to}
              /\ c.op = "open" => Before(q, p)'

\* What a step that may change entries and descriptors has to keep for the
\* calls of the others.
LEMMA FilesKept ==
  ASSUME IInv, NEW p \in Proc, NEW c, Step1(p, c), OthersAllow(p, c),
         LfsOK(lfs'), TabOK(lfltab'), fds' \in [Proc -> SUBSET Slot],
         lfs.dirpresent => lfs'.dirpresent,
         OpenSlots' \subseteq OpenSlots,
         \A i \in OpenSlots' : EntryOf(i)' = EntryOf(i) /\ EntryOf(i) < lfs'.dir.lfd_nfiles,
         \A q \in Proc : fds'[q] \subseteq fds[q] \cap OpenSlots',
         \A q \in Proc \ {p}, i \in OpenSlots' :
            call[q].op \in {"open", "remove"} /\ EntryName(EntryOf(i))' = call[q].name
               => EntryName(EntryOf(i)) = call[q].name,
         \A q \in Proc \ {p} : call[q].op = "remove" =>
            \/ lfs'.dir.lfd_nfiles = lfs.dir.lfd_nfiles
            \/ OpenSlots' = {} /\ call[q].pc = "remove",
         c.op = "open" => OpenInv(p)',
         c.op = "remove" => RemoveInv(p)'
  PROVE  IInv'
<1>1. LineInv' /\ \A q, r \in Proc : Before(q, r) /\ call'[q].pc \in DirPcs => Before(q, r)'
  BY LineKept
<1>2. DOMAIN call = Proc /\ (\A q \in Proc : CallOK(call[q])) /\ fds \in [Proc -> SUBSET Slot]
  BY DEF IInv, StateOK
<1>3. call'[p] = c /\ DOMAIN call' = Proc /\ CallOK(c) /\ \A q \in Proc \ {p} : call'[q] = call[q]
  BY <1>2 DEF Step1
<1>4. StateOK'
  BY <1>2, <1>3 DEF StateOK, CallOK
<1>5. /\ ~lfs.dirpresent => OpenSlots = {}
      /\ \A i \in OpenSlots : EntryOf(i) \in Nat
      /\ OpenFilesApart
      /\ \A q \in Proc : /\ call[q].op = "open" => OpenInv(q)
                         /\ call[q].op = "remove" => RemoveInv(q)
  BY DEF IInv, FilesInv
<1>6. OpenFilesApart'
  <2>1. SlotOwner'
    BY <1>5 DEF OpenFilesApart, SlotOwner
  <2>2. EntryIsOwn'
    BY <1>5 DEF OpenFilesApart, EntryIsOwn, EntryOf
  <2> QED  BY <2>1, <2>2 DEF OpenFilesApart
<1>7. ASSUME NEW q \in Proc, call'[q].op = "open"  PROVE OpenInv(q)'
  <2>1. CASE q = p
    BY <1>3, <1>7, <2>1
  <2>2. CASE q # p
    <3>1. OpenInv(q) /\ call[q].op = "open" /\ call'[q] = call[q]
      BY <1>3, <1>5, <1>7, <2>2
    <3>2. \A r \in Proc : call'[r].op = "open" => r = q
      BY <1>3, <2>2, <3>1 DEF OpenInv, OthersAllow
    <3>3. \A r \in Proc : call'[r].op \in {"remove", "rename"}
                             => call'[q].name \notin {call'[r].name, call'[r].to}
      BY <1>3, <2>2, <3>1 DEF OpenInv, OthersAllow
    <3>4. call'[q].slot \notin OpenSlots'
      BY <3>1 DEF OpenInv
    <3>5. \A i \in OpenSlots' : EntryName(EntryOf(i))' # call'[q].name
      BY <2>2, <3>1 DEF OpenInv
    <3> QED  BY <3>2, <3>3, <3>4, <3>5 DEF OpenInv
  <2> QED  BY <2>1, <2>2
<1>8. ASSUME NEW q \in Proc, call'[q].op = "remove"  PROVE RemoveInv(q)'
  <2>1. CASE q = p
    BY <1>3, <1>8, <2>1
  <2>2. CASE q # p
    <3>1. RemoveInv(q) /\ call[q].op = "remove" /\ call'[q] = call[q]
      BY <1>3, <1>5, <1>8, <2>2
    <3>2. call'[q].pc \in DirPcs
      BY <1>2, <3>1 DEF CallOK, DirPcs
    <3>3. \A r \in Proc : call'[r].op = "open" => Before(q, r)'
      BY <1>1, <1>3, <2>2, <3>1, <3>2 DEF RemoveInv, OthersAllow
    <3>4. \A r \in Proc : call'[r].op = "remove" => r = q
      BY <1>3, <2>2, <3>1 DEF RemoveInv, OthersAllow
    <3>5. \A r \in Proc : call'[r].op = "rename" => call'[q].name \notin {call'[r].name, call'[r].to}
      BY <1>3, <2>2, <3>1 DEF RemoveInv, OthersAllow
    <3>6. \/ LastEntry' = LastEntry /\ lfs'.dir.lfd_nfiles = lfs.dir.lfd_nfiles
          \/ OpenSlots' = {} /\ call[q].pc = "remove"
      BY <2>2, <3>1 DEF LastEntry
    <3>7. \A i \in OpenSlots' : EntryOf(i)' # LastEntry'
      BY <3>1, <3>6 DEF RemoveInv
    <3>8. call'[q].pc = "remove" => \A i \in OpenSlots' : EntryName(EntryOf(i))' # call'[q].name
      BY <2>2, <3>1 DEF RemoveInv
    <3>9. call'[q].pc # "remove" => /\ \A i \in OpenSlots' : EntryOf(i)' # call'[q].ent
                                    /\ lfs'.dir.lfd_nfiles > 0
      BY <3>1, <3>6 DEF RemoveInv
    <3> QED  BY <3>3, <3>4, <3>5, <3>7, <3>8, <3>9 DEF RemoveInv
  <2> QED  BY <2>1, <2>2
<1>9. FilesInv'
  <2>1. \A i \in OpenSlots' : EntryOf(i)' \in Nat
    BY <1>5
  <2> QED  BY <1>5, <1>6, <1>7, <1>8, <2>1 DEF FilesInv
<1> QED  BY <1>1, <1>4, <1>9 DEF IInv

-----------------------------------------------------------------------------
\* lfsopen.

\* An open checks its file and pseudo-device and gets in line for lf_mutex.
LEMMA LfsopenKept ==
  ASSUME IInv, NEW p \in Proc, NEW name, NEW mode, Lfsopen(p, name, mode),
         {"open_twice", "open_race"} \cap Careless = {}
  PROVE  IInv'
<1> DEFINE i == Min(FreeSlots)
           c == [Idle EXCEPT !.op = "open", !.pc = "search", !.name = name, !.to = mode, !.slot = i]
<1>1. /\ call[p].pc = "idle" /\ WaitFor(p, DIR, c) /\ UNCHANGED <<lfs, lfltab, fds, halted>>
      /\ name \notin OpenNames \cup CalledNames /\ InCall({"open"}) = {} /\ FreeSlots # {}
  BY DEF Lfsopen, Start, At
<1>2. i \in FreeSlots
  <2>1. FreeSlots \subseteq Nat
    BY NlflAssumption DEF FreeSlots, Slot
  <2> QED  BY <1>1, <2>1, MinNat
<1>3. c.op = "open" /\ c.pc = "search" /\ c.name = name /\ c.slot = i /\ CallOK(c)
  BY <1>2 DEF Idle, CallOK, FreeSlots
<1> HIDE DEF i, c
<1>4. Step1(p, c)
  BY <1>1, <1>3, Steps DEF DirPcs, OwnPcs
<1>5. call' = [call EXCEPT ![p] = c] /\ lockq'[DIR] = Append(lockq[DIR], p)
  BY <1>1 DEF WaitFor, IInv, LineInv, Mutex
<1>6. /\ DOMAIN call = Proc /\ (\A q \in Proc : CallOK(call[q])) /\ fds \in [Proc -> SUBSET Slot]
      /\ lockq[DIR] \in Queue(Proc)
      /\ \A q \in Proc : call[q].pc \in DirPcs => q \in Range(lockq[DIR])
      /\ \A q \in Proc : fds[q] \subseteq OpenSlots
  BY DEF IInv, StateOK, LineInv, FilesInv
<1>7. ASSUME NEW q \in Proc, call[q].op = "remove"  PROVE Before(q, p)'
  <2>1. q \in Range(lockq[DIR])
    BY <1>6, <1>7 DEF CallOK, DirPcs
  <2>2. lockq[DIR] \in Seq(Proc) /\ DOMAIN lockq[DIR] = 1 .. Len(lockq[DIR]) /\ Len(lockq[DIR]) \in Nat
    BY <1>6 DEF Queue
  <2>3. PICK j \in 1 .. Len(lockq[DIR]) : lockq[DIR][j] = q
    BY <2>1, <2>2 DEF Range
  <2>4. lockq'[DIR][j] = q /\ lockq'[DIR][Len(lockq[DIR]) + 1] = p
        /\ DOMAIN lockq'[DIR] = 1 .. Len(lockq[DIR]) + 1
    BY <1>5, <2>2, <2>3, AppendProperties
  <2>5. j < Len(lockq[DIR]) + 1 /\ j \in DOMAIN lockq'[DIR] /\ Len(lockq[DIR]) + 1 \in DOMAIN lockq'[DIR]
    BY <2>2, <2>3, <2>4
  <2> QED  BY <2>4, <2>5 DEF Before
<1>8. \A q \in Proc : /\ call[q].op # "open"
                      /\ call[q].op \in {"remove", "rename"} => name \notin {call[q].name, call[q].to}
  BY <1>1 DEF InCall, CalledNames
<1>9. OthersAllow(p, c)
  BY <1>3, <1>7, <1>8 DEF OthersAllow
<1>10. /\ OpenSlots' = OpenSlots
       /\ \A j : EntryOf(j)' = EntryOf(j) /\ EntryName(EntryOf(j))' = EntryName(EntryOf(j))
  BY <1>1 DEF OpenSlots, EntryOf, EntryName
<1>11. OpenInv(p)'
  <2>1. call'[p] = c /\ \A q \in Proc \ {p} : call'[q] = call[q]
    BY <1>5, <1>6
  <2>2. i \notin OpenSlots /\ \A j \in OpenSlots : EntryName(EntryOf(j)) # name
    BY <1>1, <1>2 DEF FreeSlots, OpenNames, EntryName, EntryOf
  <2>3. call'[p].slot \notin OpenSlots' /\ \A j \in OpenSlots' : EntryName(EntryOf(j))' # call'[p].name
    BY <1>3, <1>10, <2>1, <2>2
  <2>4. \A q \in Proc : call'[q].op = "open" => q = p
    BY <1>8, <2>1
  <2>5. \A q \in Proc : call'[q].op \in {"remove", "rename"}
                          => call'[p].name \notin {call'[q].name, call'[q].to}
    BY <1>3, <1>8, <2>1
  <2> QED  BY <2>3, <2>4, <2>5 DEF OpenInv
<1>12. \A j \in OpenSlots : EntryOf(j) < lfs.dir.lfd_nfiles
  BY OpenEntries
<1>13. LfsOK(lfs') /\ TabOK(lfltab') /\ fds' = fds /\ lfs' = lfs
  BY <1>1, SamesHold
<1> QED  BY <1>3, <1>4, <1>6, <1>9, <1>10, <1>11, <1>12, <1>13, FilesKept

\* While an open searches, no other open and no remove is under way.
LEMMA SearchAlone ==
  ASSUME IInv, NEW p \in Proc, call[p].op = "open", Holds(p, DIR)
  PROVE  \A q \in Proc \ {p} : call[q].op \notin {"open", "remove"}
<1>1. OpenInv(p) /\ \A q \in Proc : call[q].op = "remove" => RemoveInv(q)
  BY DEF IInv, FilesInv
<1>2. lockq[DIR] \in Queue(Proc)
  BY DEF IInv, LineInv
<1>3. /\ DOMAIN lockq[DIR] = 1 .. Len(lockq[DIR]) /\ Len(lockq[DIR]) \in Nat
      /\ lockq[DIR] \in Seq(Proc) /\ IsInjective(lockq[DIR])
  BY <1>2 DEF Queue
<1>4. 1 \in DOMAIN lockq[DIR] /\ lockq[DIR][1] = p
  BY <1>3 DEF Holds
<1>5. \A q \in Proc : ~Before(q, p)
  BY <1>3, <1>4 DEF Before, IsInjective
<1> QED  BY <1>1, <1>5 DEF OpenInv, RemoveInv

\* The pseudo-device that was chosen is given for an entry nobody else has.
LEMMA GivenKept ==
  ASSUME IInv, NEW p \in Proc, Step1(p, Idle),
         \A q \in Proc \ {p} : call[q].op \notin {"open", "remove"},
         NEW i \in Slot \ OpenSlots, NEW e \in Nat,
         LfsOK(lfs'), lfs'.dirpresent, e < lfs'.dir.lfd_nfiles,
         \A j \in OpenSlots : EntryOf(j) # e /\ EntryOf(j) < lfs'.dir.lfd_nfiles,
         lfltab' = [lfltab EXCEPT ![i] = Opened(@, e)],
         fds' = [fds EXCEPT ![p] = @ \cup {i}]
  PROVE  IInv'
<1>1. LineInv'
  BY LineKept
<1>2. DOMAIN call = Proc /\ (\A q \in Proc : CallOK(call[q])) /\ fds \in [Proc -> SUBSET Slot]
      /\ TabOK(lfltab)
  BY DEF IInv, StateOK
<1>3. call'[p] = Idle /\ DOMAIN call' = Proc /\ \A q \in Proc \ {p} : call'[q] = call[q]
  BY <1>2 DEF Step1
<1>4. TabOK(lfltab') /\ lfltab'[i].lfstate = "LF_USED" /\ lfltab'[i].lfdirptr = e
      /\ \A j \in Slot \ {i} : lfltab'[j] = lfltab[j]
  BY <1>2 DEF TabOK, Opened
<1>5. fds' \in [Proc -> SUBSET Slot] /\ fds'[p] = fds[p] \cup {i}
      /\ \A q \in Proc \ {p} : fds'[q] = fds[q]
  BY <1>2
<1>6. StateOK'
  BY <1>2, <1>3, <1>4, <1>5, IdleOK DEF StateOK, CallOK
<1>7. OpenSlots' = OpenSlots \cup {i}
  BY <1>4 DEF OpenSlots
<1>8. /\ \A j \in OpenSlots : EntryOf(j)' = EntryOf(j) /\ EntryOf(j) \in Nat
      /\ EntryOf(i)' = e /\ OpenSlots \subseteq Slot
      /\ \A q \in Proc : fds[q] \subseteq OpenSlots
      /\ OpenFilesApart
  BY <1>4 DEF EntryOf, OpenSlots, IInv, FilesInv
<1>9. OpenFilesApart'
  <2>1. SlotOwner'
    BY <1>5, <1>8 DEF OpenFilesApart, SlotOwner
  <2>2. EntryIsOwn'
    <3>1. \A j \in OpenSlots' : EntryOf(j)' < lfs'.dir.lfd_nfiles
      BY <1>7, <1>8
    <3>2. \A j, k \in OpenSlots' : j # k => EntryOf(j)' # EntryOf(k)'
      <4>1. \A j, k \in OpenSlots : j # k => EntryOf(j) # EntryOf(k)
        BY <1>8 DEF OpenFilesApart, EntryIsOwn, EntryOf
      <4> QED  BY <1>7, <1>8, <4>1
    <3> QED  BY <3>1, <3>2 DEF EntryIsOwn, EntryOf
  <2> QED  BY <2>1, <2>2 DEF OpenFilesApart
<1>10. \A q \in Proc : call'[q].op # "open" /\ call'[q].op # "remove"
  BY <1>3, IdleOK
<1>11. FilesInv'
  BY <1>5, <1>7, <1>8, <1>9, <1>10 DEF FilesInv
<1> QED  BY <1>1, <1>6, <1>11 DEF IInv

\* What reading the directory changes: nothing while a file is open.
LEMMA PresentKept ==
  ASSUME IInv
  PROVE  /\ LfsOK(Present(lfs)) /\ Present(lfs).dirpresent
         /\ Present(lfs).dir.lfd_nfiles \in 0 .. LF_NUM_DIR_ENT
         /\ Present(lfs) = lfs \/ OpenSlots = {}
<1>1. LfsOK(lfs) /\ (~lfs.dirpresent => OpenSlots = {})
  BY DEF IInv, StateOK, FilesInv
<1> QED  BY <1>1 DEF Present, LfsOK, DirOK

\* The search of the directory finds the first entry of a name.
LEMMA MinEntry ==
  ASSUME NEW s, LfsOK(s), NEW name, Entries(s, name) # {}
  PROVE  /\ Min(Entries(s, name)) \in 0 .. s.dir.lfd_nfiles-1
         /\ s.dir.lfd_files[Min(Entries(s, name))].ld_name = name
         /\ Min(Entries(s, name)) \in 0 .. LF_NUM_DIR_ENT-1
         /\ s.dir.lfd_nfiles > 0 /\ s.dir.lfd_nfiles \in Nat
<1>1. s.dir.lfd_nfiles \in 0 .. LF_NUM_DIR_ENT /\ LF_NUM_DIR_ENT \in Nat
  BY DiskAssumption DEF LfsOK, DirOK
<1>2. Entries(s, name) \subseteq Nat
  BY <1>1 DEF Entries
<1>3. Min(Entries(s, name)) \in Entries(s, name)
  BY <1>2, MinNat
<1> DEFINE m == Min(Entries(s, name))
<1> HIDE DEF m
<1>4. m \in 0 .. s.dir.lfd_nfiles-1 /\ s.dir.lfd_files[m].ld_name = name
  BY <1>3 DEF Entries, m
<1>5. m \in 0 .. LF_NUM_DIR_ENT-1 /\ s.dir.lfd_nfiles > 0 /\ s.dir.lfd_nfiles \in Nat
  BY <1>1, <1>4
<1> QED  BY <1>4, <1>5 DEF m

\* An open has come to the head of the line: what it checked before still
\* holds.
LEMMA LfsopenSearchKept ==
  ASSUME IInv, NEW p \in Proc, LfsopenSearch(p)
  PROVE  IInv'
<1> DEFINE s == Present(lfs)
           c == call[p]
           n == s.dir.lfd_nfiles
           old == Entries(s, c.name)
           t == [s EXCEPT !.dir.lfd_nfiles = n + 1,
                          !.dir.lfd_files[n] = [ld_size |-> 0, ld_ilist |-> LF_INULL,
                                                ld_name |-> c.name]]
           give(e) == /\ lfltab' = [lfltab EXCEPT ![c.slot] = Opened(@, e)]
                      /\ fds'    = [fds EXCEPT ![p] = @ \cup {c.slot}]
<1>1. c.pc = "search" /\ Holds(p, DIR) /\ Signal(p, DIR, Idle)
  BY DEF LfsopenSearch, At
<1>2. c.op = "open" /\ c.slot \in Slot
  BY <1>1, SamesHold DEF CallOK
<1>3. OpenInv(p)
  BY <1>2 DEF IInv, FilesInv
<1>4. \A q \in Proc \ {p} : call[q].op \notin {"open", "remove"}
  BY <1>1, <1>2, SearchAlone
<1>5. LfsOK(s) /\ s.dirpresent /\ n \in 0 .. LF_NUM_DIR_ENT /\ (s = lfs \/ OpenSlots = {})
  BY PresentKept
<1>6. Step1(p, Idle)
  BY <1>1, IdleOK, Steps
<1>7. /\ \A j \in OpenSlots : j \in Slot /\ EntryOf(j) \in Nat /\ EntryOf(j) < lfs.dir.lfd_nfiles
      /\ LF_NUM_DIR_ENT \in Nat /\ n \in Nat
  BY <1>5, OpenEntries
<1>8. c.slot \in Slot \ OpenSlots
  BY <1>2, <1>3 DEF OpenInv
<1>9. \A j \in OpenSlots : EntryOf(j) < n /\ lfs.dir.lfd_files[EntryOf(j)].ld_name # c.name
  BY <1>3, <1>5, <1>7 DEF OpenInv, EntryName
<1>10. CASE old # {} /\ lfs' = s /\ give(Min(old))
  <2> DEFINE e == Min(old)
  <2>1. e \in 0 .. n-1 /\ s.dir.lfd_files[e].ld_name = c.name
    BY <1>5, <1>10, MinEntry
  <2> HIDE DEF e
  <2>2. e \in Nat /\ e < n
    BY <1>7, <2>1
  <2>3. \A j \in OpenSlots : EntryOf(j) # e
    BY <1>5, <1>9, <2>1
  <2>4. lfltab' = [lfltab EXCEPT ![c.slot] = Opened(@, e)]
        /\ fds' = [fds EXCEPT ![p] = @ \cup {c.slot}] /\ lfs' = s
    BY <1>10 DEF e
  <2> HIDE DEF s, c, n
  <2>5. LfsOK(lfs') /\ lfs'.dirpresent /\ n = lfs'.dir.lfd_nfiles
    BY <1>5, <2>4 DEF n
  <2> QED  BY <1>4, <1>6, <1>8, <1>9, <2>2, <2>3, <2>4, <2>5, GivenKept
<1>11. CASE n < LF_NUM_DIR_ENT /\ lfs' = t /\ give(n)
  <2>1. LfsOK(t) /\ t.dirpresent /\ t.dir.lfd_nfiles = n + 1
    <3>1. n \in 0 .. LF_NUM_DIR_ENT-1 /\ n+1 \in 0 .. LF_NUM_DIR_ENT
      BY <1>5, <1>7, <1>11
    <3> HIDE DEF s, n, c
    <3> QED  BY <1>5, <3>1 DEF LfsOK, DirOK
  <2> HIDE DEF s, c, n, t
  <2>2. \A j \in OpenSlots : EntryOf(j) # n /\ EntryOf(j) < lfs'.dir.lfd_nfiles
    BY <1>7, <1>9, <1>11, <2>1
  <2>3. n < lfs'.dir.lfd_nfiles /\ LfsOK(lfs') /\ lfs'.dirpresent
    BY <1>7, <1>11, <2>1
  <2> QED  BY <1>4, <1>6, <1>7, <1>8, <1>11, <2>2, <2>3, GivenKept
<1>12. CASE lfs' = s /\ UNCHANGED <<lfltab, fds>>
  <2>1. \/ OpenSlots' = OpenSlots /\ OpenSlots = {}
        \/ OpenSlots' = OpenSlots /\ s = lfs
    BY <1>5, <1>12 DEF OpenSlots
  <2>2. OpenSlots' = OpenSlots /\ \A j : EntryOf(j)' = EntryOf(j)
    BY <1>12, <2>1 DEF EntryOf
  <2>3. OthersAllow(p, Idle) /\ Idle.op # "open" /\ Idle.op # "remove"
    BY <1>4 DEF OthersAllow, Idle
  <2>4. fds \in [Proc -> SUBSET Slot] /\ (\A q \in Proc : fds[q] \subseteq OpenSlots) /\ TabOK(lfltab)
    BY DEF IInv, StateOK, FilesInv
  <2>5. LfsOK(lfs') /\ lfs'.dirpresent /\ n = lfs'.dir.lfd_nfiles
    BY <1>5, <1>12
  <2> HIDE DEF s, c, n
  <2> QED  BY <1>4, <1>6, <1>9, <1>12, <2>2, <2>3, <2>4, <2>5, FilesKept
<1>13. \/ old # {} /\ lfs' = s /\ give(Min(old))
       \/ n < LF_NUM_DIR_ENT /\ lfs' = t /\ give(n)
       \/ lfs' = s /\ UNCHANGED <<lfltab, fds>>
  BY DEF LfsopenSearch
<1> QED  BY <1>10, <1>11, <1>12, <1>13

-----------------------------------------------------------------------------
\* lflclose.

\* lflclose lets a descriptor go.
LEMMA LflcloseKept ==
  ASSUME IInv, NEW p \in Proc, Lflclose(p)
  PROVE  IInv'
<1> DEFINE i == call[p].slot
           f == lfltab[i]
           dirty == lfs.dirdirty \/ f.lfdbdirty \/ f.lfibdirty
           f1 == IF dirty THEN Flushed(f) ELSE f
           g == [f1 EXCEPT !.lfstate = "LF_FREE"]
<1>1. /\ call[p].pc = "close" /\ Signal(p, i, Idle)
      /\ lfs' = (IF dirty THEN Flush(lfs, f) ELSE lfs)
      /\ lfltab' = [lfltab EXCEPT ![i] = g]
      /\ fds' = [q \in Proc |-> fds[q] \ {i}]
  BY DEF Lflclose, At
<1>2. i \in Slot /\ LfsOK(lfs) /\ SameDir(lfs, lfs) /\ TabOK(lfltab)
      /\ {"lfstate", "lfdirptr"} \subseteq DOMAIN f
  BY SamesHold DEF TabOK
<1>3. SameDir(lfs, lfs')
  BY <1>1, <1>2, FlushSame
<1>4. {"lfstate", "lfdirptr"} \subseteq DOMAIN g /\ g.lfstate = "LF_FREE"
  <2>1. {"lfstate", "lfdirptr"} \subseteq DOMAIN f1
    BY <1>2, FlushedSame
  <2> HIDE DEF f1
  <2> QED  BY <2>1
<1> HIDE DEF f, f1, g
<1>5. TabOK(lfltab') /\ lfltab'[i] = g /\ \A j \in Slot \ {i} : lfltab'[j] = lfltab[j]
  BY <1>1, <1>2, <1>4 DEF TabOK
<1>6. OpenSlots' = OpenSlots \ {i}
  BY <1>2, <1>4, <1>5 DEF OpenSlots
<1>7. \A j \in OpenSlots : j \in Slot /\ EntryOf(j) \in 0 .. LF_NUM_DIR_ENT-1
                           /\ EntryOf(j) < lfs.dir.lfd_nfiles
  BY OpenEntries
<1>8. \A j \in OpenSlots' : /\ EntryOf(j)' = EntryOf(j)
                            /\ EntryOf(j) < lfs'.dir.lfd_nfiles
                            /\ EntryName(EntryOf(j))' = EntryName(EntryOf(j))
  BY <1>3, <1>5, <1>6, <1>7 DEF EntryOf, EntryName, SameDir
<1>9. Step1(p, Idle)
  BY <1>1, <1>2, IdleOK, Steps DEF DirPcs
<1>10. OthersAllow(p, Idle) /\ Idle.op # "open" /\ Idle.op # "remove"
  BY IdleOK DEF OthersAllow
<1>11. fds \in [Proc -> SUBSET Slot] /\ \A q \in Proc : fds[q] \subseteq OpenSlots
  BY DEF IInv, StateOK, FilesInv
<1>12. fds' \in [Proc -> SUBSET Slot] /\ \A q \in Proc : fds'[q] \subseteq fds[q] \cap OpenSlots'
  BY <1>1, <1>6, <1>11
<1>13. LfsOK(lfs') /\ (lfs.dirpresent => lfs'.dirpresent)
       /\ lfs'.dir.lfd_nfiles = lfs.dir.lfd_nfiles
  BY <1>3 DEF SameDir
<1> QED  BY <1>5, <1>6, <1>8, <1>9, <1>10, <1>12, <1>13, FilesKept

-----------------------------------------------------------------------------
\* remove and rename.

\* A remove or a rename gets in line for lf_mutex.
LEMMA LfscontrolKept ==
  ASSUME IInv, NEW p \in Proc, NEW op \in {"remove", "rename"}, NEW old, NEW new,
         Lfscontrol(p, op, old, new), {"open_twice", "remove_open"} \cap Careless = {}
  PROVE  IInv'
<1> DEFINE c == [Idle EXCEPT !.op = op, !.pc = op, !.name = old, !.to = new]
<1>1. /\ call[p].pc = "idle" /\ WaitFor(p, DIR, c) /\ UNCHANGED <<data, fds, halted>>
      /\ op = "remove" => Unused(old)
      /\ {old, new} \cap CalledNames = {}
  BY DEF Lfscontrol, Start, At
<1>2. c.op = op /\ c.pc = op /\ c.name = old /\ c.to = new /\ CallOK(c)
  BY IdleOK DEF CallOK, Idle
<1> HIDE DEF c
<1>3. Step1(p, c)
  BY <1>1, <1>2, Steps DEF DirPcs, OwnPcs
<1>4. DOMAIN call = Proc /\ call' = [call EXCEPT ![p] = c]
      /\ fds \in [Proc -> SUBSET Slot] /\ \A q \in Proc : fds[q] \subseteq OpenSlots
  BY <1>3 DEF Step1, IInv, StateOK, FilesInv
<1>5. call'[p] = c /\ \A q \in Proc \ {p} : call'[q] = call[q]
  BY <1>4
<1>6. \A q \in Proc : call[q].op \in {"open", "remove", "rename"} =>
            {old, new} \cap {call[q].name, call[q].to} = {}
  BY <1>1 DEF InCall, CalledNames
<1>7. op = "remove" => \A q \in Proc : call[q].op \notin {"open", "remove"}
  BY <1>1 DEF Unused, InCall
<1>8. OthersAllow(p, c)
  BY <1>2, <1>6, <1>7 DEF OthersAllow
<1>9. /\ OpenSlots' = OpenSlots /\ LastEntry' = LastEntry
      /\ \A j : EntryOf(j)' = EntryOf(j) /\ EntryName(EntryOf(j))' = EntryName(EntryOf(j))
  BY <1>1 DEF OpenSlots, EntryOf, EntryName, LastEntry, data
<1>10. \A j \in OpenSlots : /\ EntryOf(j) \in 0 .. LF_NUM_DIR_ENT-1
                            /\ EntryOf(j) < lfs.dir.lfd_nfiles /\ lfs.dir.lfd_nfiles \in Nat
  BY OpenEntries
<1>11. ASSUME op = "remove"  PROVE RemoveInv(p)'
  <2>1. \A j \in OpenSlots : EntryName(EntryOf(j)) \notin {old, LastName}
    BY <1>1, <1>10, <1>11 DEF Unused, OpenNames, EntryName, EntryOf
  <2>2. \A j \in OpenSlots : EntryOf(j) # LastEntry
    BY <2>1 DEF LastName, LastEntry, EntryName
  <2>3. /\ \A q \in Proc : call'[q].op = "remove" => q = p
        /\ \A q \in Proc : call'[q].op # "open"
    BY <1>2, <1>5, <1>7, <1>11
  <2>4. \A q \in Proc : call'[q].op = "rename" => call'[p].name \notin {call'[q].name, call'[q].to}
    BY <1>2, <1>5, <1>6, <1>11
  <2>5. call'[p].pc = "remove" /\ call'[p].name = old
    BY <1>2, <1>5, <1>11
  <2> QED  BY <1>9, <2>1, <2>2, <2>3, <2>4, <2>5 DEF RemoveInv
<1>12. LfsOK(lfs') /\ TabOK(lfltab') /\ fds' = fds /\ lfs' = lfs
  BY <1>1, SamesHold DEF data
<1> QED  BY <1>2, <1>3, <1>4, <1>8, <1>9, <1>10, <1>11, <1>12, FilesKept

\* A remove that has found its entry goes on with it.
LEMMA RemoveGoes ==
  ASSUME IInv, NEW p \in Proc, NEW c, Step1(p, c), call[p].op = "remove",
         c.op = "remove", c.pc # "remove", c.name = call[p].name, c.to = call[p].to,
         \A i \in OpenSlots' : EntryOf(i)' # LastEntry' /\ EntryOf(i)' # c.ent,
         lfs'.dir.lfd_nfiles > 0
  PROVE  OthersAllow(p, c) /\ RemoveInv(p)'
<1>1. /\ RemoveInv(p) /\ \A q \in Proc : call[q].op = "open" => OpenInv(q)
      /\ DOMAIN call = Proc
  BY DEF IInv, StateOK, FilesInv
<1>2. call'[p] = c /\ CallOK(c) /\ \A q \in Proc \ {p} : call'[q] = call[q]
  BY <1>1 DEF Step1
<1>3. OthersAllow(p, c)
  BY <1>1 DEF OthersAllow, OpenInv, RemoveInv
<1>4. call'[p].pc \in DirPcs
  BY <1>2 DEF CallOK, DirPcs
<1>5. \A q \in Proc : call'[q].op = "open" => Before(p, q)'
  <2>1. \A q, r \in Proc : Before(q, r) /\ call'[q].pc \in DirPcs => Before(q, r)'
    BY LineKept
  <2> QED  BY <1>1, <1>2, <1>4, <2>1 DEF RemoveInv
<1>6. /\ \A q \in Proc : call'[q].op = "remove" => q = p
      /\ \A q \in Proc : call'[q].op = "rename" => call'[p].name \notin {call'[q].name, call'[q].to}
  BY <1>1, <1>2 DEF RemoveInv
<1> QED  BY <1>2, <1>3, <1>5, <1>6 DEF RemoveInv

\* What holds of the steps of remove and rename: they leave lfltab and fds alone.
LEMMA TabLeft ==
  ASSUME IInv, UNCHANGED <<lfltab, fds>>
  PROVE  /\ OpenSlots' = OpenSlots /\ \A j : EntryOf(j)' = EntryOf(j)
         /\ TabOK(lfltab') /\ fds' \in [Proc -> SUBSET Slot]
         /\ \A q \in Proc : fds'[q] \subseteq fds[q] \cap OpenSlots'
BY DEF OpenSlots, EntryOf, IInv, StateOK, FilesInv

\* A remove finds its entry, frees the blocks of the file and moves the last
\* entry into the place.
LEMMA LfscontrolDelKept ==
  ASSUME IInv, NEW p \in Proc, LfscontrolDel(p)
  PROVE  IInv'
<1> DEFINE s   == Present(lfs)
           old == Entries(s, call[p].name)
           e   == Min(old)
           first == s.dir.lfd_files[e].ld_ilist
           c1  == [call[p] EXCEPT !.ent = e, !.pc = "move"]
           c2  == [[call[p] EXCEPT !.ent = e] EXCEPT !.pc = "free", !.first = first, !.next = first,
                                                     !.ifree = s.dir.lfd_ifree]
<1>1. /\ call[p].pc = "remove" /\ Holds(p, DIR) /\ lfs' = s /\ UNCHANGED <<lfltab, fds>>
      /\ \/ old = {} /\ Signal(p, DIR, Idle)
         \/ old # {} /\ (Goto(p, c1) \/ Goto(p, c2))
  BY DEF LfscontrolDel, At
<1>2. call[p].op = "remove" /\ CallOK(call[p])
  BY <1>1, SamesHold DEF CallOK
<1>3. RemoveInv(p)
  BY <1>2 DEF IInv, FilesInv
<1>4. LfsOK(s) /\ s.dirpresent /\ s.dir.lfd_nfiles \in 0 .. LF_NUM_DIR_ENT
      /\ (s = lfs \/ OpenSlots = {})
  BY PresentKept
<1>5. /\ OpenSlots' = OpenSlots /\ \A j : EntryOf(j)' = EntryOf(j)
      /\ TabOK(lfltab') /\ fds' \in [Proc -> SUBSET Slot]
      /\ \A q \in Proc : fds'[q] \subseteq fds[q] \cap OpenSlots'
  BY <1>1, TabLeft
<1>6. \A j \in OpenSlots : /\ s = lfs /\ EntryOf(j) < s.dir.lfd_nfiles
                           /\ EntryName(EntryOf(j))' = EntryName(EntryOf(j))
                           /\ EntryOf(j) # LastEntry /\ LastEntry' = LastEntry
                           /\ s.dir.lfd_files[EntryOf(j)].ld_name # call[p].name
  <2>1. \A j \in OpenSlots : s = lfs
    BY <1>4
  <2>2. s = lfs => LastEntry' = LastEntry /\ \A j : EntryName(EntryOf(j))' = EntryName(EntryOf(j))
    BY <1>1, <1>5 DEF LastEntry, EntryName
  <2> HIDE DEF s
  <2> QED  BY <1>1, <1>3, <2>1, <2>2, OpenEntries DEF RemoveInv, EntryName
<1>7. \A q \in Proc \ {p} : call[q].op # "remove"
  BY <1>3 DEF RemoveInv
<1> HIDE DEF s
<1>8. LfsOK(lfs') /\ lfs'.dirpresent
      /\ \A j \in OpenSlots' : EntryOf(j)' = EntryOf(j) /\ EntryOf(j) < lfs'.dir.lfd_nfiles
  BY <1>1, <1>4, <1>5, <1>6
<1>9. CASE old = {} /\ Signal(p, DIR, Idle)
  <2>1. Step1(p, Idle) /\ OthersAllow(p, Idle) /\ Idle.op = "none"
    BY <1>1, <1>9, IdleOK, Steps DEF OthersAllow
  <2> QED  BY <1>5, <1>6, <1>7, <1>8, <2>1, FilesKept
<1>10. ASSUME NEW c \in {c1, c2}, old # {}, Goto(p, c)  PROVE IInv'
  <2>1. e \in 0 .. s.dir.lfd_nfiles-1 /\ s.dir.lfd_files[e].ld_name = call[p].name
        /\ s.dir.lfd_nfiles > 0
    BY <1>4, <1>10, MinEntry
  <2> HIDE DEF e, first, old
  <2>2. /\ c.op = "remove" /\ c.pc \in {"move", "free"} /\ c.ent = e /\ CallOK(c)
        /\ c.name = call[p].name /\ c.to = call[p].to
    BY <1>2, ZenonT(60) DEF CallOK
  <2> HIDE DEF c1, c2
  <2>3. Step1(p, c)
    BY <1>1, <1>10, <2>2, Steps DEF DirPcs, OwnPcs
  <2>4. \A j \in OpenSlots' : EntryOf(j)' # LastEntry' /\ EntryOf(j)' # c.ent
    BY <1>5, <1>6, <2>1, <2>2
  <2>5. OthersAllow(p, c) /\ RemoveInv(p)'
    BY <1>1, <1>2, <2>1, <2>2, <2>3, <2>4, RemoveGoes
  <2> QED  BY <1>5, <1>6, <1>7, <1>8, <2>2, <2>3, <2>5, FilesKept
<1> QED  BY <1>1, <1>9, <1>10

\* The entry that is moved over and the one that is cleared are not open.
LEMMA RemoveKept ==
  ASSUME IInv, NEW p \in Proc, RemoveMove(p) \/ RemoveClear(p)
  PROVE  IInv'
<1> DEFINE n == lfs.dir.lfd_nfiles
           moved == [lfs EXCEPT !.dir.lfd_files[call[p].ent] = lfs.dir.lfd_files[n-1]]
           cleared == [lfs EXCEPT !.dir.lfd_files[n-1] = NoEntry, !.dir.lfd_nfiles = n-1,
                                  !.dirdirty = TRUE]
           c == [call[p] EXCEPT !.pc = "clear"]
<1>1. /\ UNCHANGED <<lfltab, fds>> /\ call[p].pc \in {"move", "clear"}
      /\ \/ lfs' = moved /\ Goto(p, c)
         \/ lfs' = cleared /\ Signal(p, DIR, Idle)
  BY DEF RemoveMove, RemoveClear, At
<1>2. call[p].op = "remove" /\ CallOK(call[p]) /\ Holds(p, DIR) /\ call[p].pc \in DirPcs /\ LfsOK(lfs)
  BY <1>1, SamesHold DEF CallOK, IInv, LineInv, OwnPcs, DirPcs
<1>3. /\ RemoveInv(p) /\ n > 0 /\ n \in 1 .. LF_NUM_DIR_ENT /\ n-1 \in 0 .. LF_NUM_DIR_ENT-1
      /\ \A q \in Proc \ {p} : call[q].op # "remove"
  <2>1. RemoveInv(p) /\ n > 0
    BY <1>1, <1>2 DEF IInv, FilesInv, RemoveInv
  <2>2. n \in 0 .. LF_NUM_DIR_ENT /\ LF_NUM_DIR_ENT \in Nat
    BY <1>2, DiskAssumption DEF LfsOK, DirOK
  <2>3. \A q \in Proc \ {p} : call[q].op # "remove"
    BY <2>1 DEF RemoveInv
  <2> QED  BY <2>1, <2>2, <2>3
<1>4. /\ OpenSlots' = OpenSlots /\ \A j : EntryOf(j)' = EntryOf(j)
      /\ TabOK(lfltab') /\ fds' \in [Proc -> SUBSET Slot]
      /\ \A q \in Proc : fds'[q] \subseteq fds[q] \cap OpenSlots'
  BY <1>1, TabLeft
<1>5. \A j \in OpenSlots : /\ EntryOf(j) \in 0 .. LF_NUM_DIR_ENT-1 /\ EntryOf(j) < n
                           /\ EntryOf(j) # n-1 /\ EntryOf(j) # call[p].ent
  BY <1>1, <1>3, OpenEntries DEF RemoveInv, LastEntry
<1>6. CASE lfs' = moved /\ Goto(p, c)
  <2>1. /\ LfsOK(moved) /\ moved.dirpresent = lfs.dirpresent /\ moved.dir.lfd_nfiles = n
        /\ \A k \in 0 .. LF_NUM_DIR_ENT-1 :
              k # call[p].ent => moved.dir.lfd_files[k] = lfs.dir.lfd_files[k]
    BY <1>2, <1>3 DEF LfsOK, DirOK
  <2> HIDE DEF moved
  <2>2. /\ c.op = "remove" /\ c.pc = "clear" /\ CallOK(c) /\ c.ent = call[p].ent
        /\ c.name = call[p].name /\ c.to = call[p].to
    BY <1>2 DEF CallOK
  <2> HIDE DEF c
  <2>3. Step1(p, c)
    BY <1>2, <1>6, <2>2, Steps DEF DirPcs, OwnPcs
  <2>4. /\ LfsOK(lfs') /\ (lfs.dirpresent => lfs'.dirpresent) /\ lfs'.dir.lfd_nfiles = n
        /\ LastEntry' = n-1
    BY <1>6, <2>1 DEF LastEntry
  <2>5. \A j \in OpenSlots' : /\ EntryOf(j) < lfs'.dir.lfd_nfiles
                              /\ EntryName(EntryOf(j))' = EntryName(EntryOf(j))
                              /\ EntryOf(j)' # LastEntry' /\ EntryOf(j)' # c.ent
    BY <1>4, <1>5, <1>6, <2>1, <2>2, <2>4 DEF EntryName
  <2>6. OthersAllow(p, c) /\ RemoveInv(p)'
    BY <1>2, <1>3, <2>2, <2>3, <2>4, <2>5, RemoveGoes
  <2> HIDE DEF n
  <2> QED  BY <1>3, <1>4, <2>2, <2>3, <2>4, <2>5, <2>6, FilesKept
<1>7. CASE lfs' = cleared /\ Signal(p, DIR, Idle)
  <2>1. /\ LfsOK(cleared) /\ cleared.dirpresent = lfs.dirpresent
        /\ cleared.dir.lfd_nfiles = n-1
        /\ \A k \in 0 .. LF_NUM_DIR_ENT-1 :
              k # n-1 => cleared.dir.lfd_files[k] = lfs.dir.lfd_files[k]
    <3> HIDE DEF n
    <3>1. ASSUME NEW k, k = n-1
          PROVE  LET t == [lfs EXCEPT !.dir.lfd_files[k] = NoEntry, !.dir.lfd_nfiles = k,
                                      !.dirdirty = TRUE]
                 IN  /\ LfsOK(t) /\ t.dirpresent = lfs.dirpresent /\ t.dir.lfd_nfiles = k
                     /\ \A j \in 0 .. LF_NUM_DIR_ENT-1 :
                           j # k => t.dir.lfd_files[j] = lfs.dir.lfd_files[j]
      <4>1. k \in 0 .. LF_NUM_DIR_ENT-1 /\ k \in 0 .. LF_NUM_DIR_ENT
        BY <1>3, <3>1, DiskAssumption
      <4> QED  BY <1>2, <4>1 DEF LfsOK, DirOK, NoEntry
    <3> QED  BY <3>1
  <2> HIDE DEF cleared
  <2>2. Step1(p, Idle) /\ OthersAllow(p, Idle) /\ Idle.op = "none"
    <3>1. OthersAllow(p, Idle)
      BY IdleOK DEF OthersAllow
    <3> QED  BY <1>2, <1>7, <3>1, IdleOK, Steps
  <2>3. \A j \in OpenSlots' : /\ EntryOf(j) < lfs'.dir.lfd_nfiles
                              /\ EntryName(EntryOf(j))' = EntryName(EntryOf(j))
    BY <1>3, <1>4, <1>5, <1>7, <2>1 DEF EntryName
  <2>4. LfsOK(lfs') /\ (lfs.dirpresent => lfs'.dirpresent)
    BY <1>7, <2>1
  <2> QED  BY <1>3, <1>4, <2>2, <2>3, <2>4, FilesKept
<1> QED  BY <1>1, <1>6, <1>7

\* A name is changed that no open waits for, nor a remove, to another such name.
LEMMA LfscontrolRenameKept ==
  ASSUME IInv, NEW p \in Proc, LfscontrolRename(p)
  PROVE  IInv'
<1> DEFINE s   == Present(lfs)
           e   == Min(Entries(s, call[p].name))
           t   == [s EXCEPT !.dir.lfd_files[e].ld_name = call[p].to, !.dirdirty = TRUE]
<1>1. /\ call[p].pc = "rename" /\ Holds(p, DIR) /\ lfs' \in {s, t} /\ UNCHANGED <<lfltab, fds>>
      /\ Signal(p, DIR, Idle)
  BY DEF LfscontrolRename, At
<1>2. call[p].op = "rename"
  BY <1>1, SamesHold DEF CallOK
<1>3. LfsOK(s) /\ s.dirpresent /\ (s = lfs \/ OpenSlots = {})
  BY PresentKept
<1>4. /\ OpenSlots' = OpenSlots /\ \A j : EntryOf(j)' = EntryOf(j)
      /\ TabOK(lfltab') /\ fds' \in [Proc -> SUBSET Slot]
      /\ \A q \in Proc : fds'[q] \subseteq fds[q] \cap OpenSlots'
  BY <1>1, TabLeft
<1> HIDE DEF s, e
<1>5. /\ LfsOK(t) /\ t.dirpresent /\ t.dir.lfd_nfiles = s.dir.lfd_nfiles
      /\ \A k \in 0 .. LF_NUM_DIR_ENT-1 :
            t.dir.lfd_files[k].ld_name \in {s.dir.lfd_files[k].ld_name, call[p].to}
  BY <1>3 DEF LfsOK, DirOK
<1> HIDE DEF t
<1>6. \A j \in OpenSlots : /\ EntryOf(j) \in 0 .. LF_NUM_DIR_ENT-1
                           /\ EntryOf(j) < lfs.dir.lfd_nfiles
  BY OpenEntries
<1>7. \A j \in OpenSlots' : /\ EntryOf(j) < lfs'.dir.lfd_nfiles
                            /\ EntryName(EntryOf(j))' \in {EntryName(EntryOf(j)), call[p].to}
  BY <1>1, <1>3, <1>4, <1>5, <1>6 DEF EntryName
<1>8. /\ \A q \in Proc : call[q].op = "open" => OpenInv(q)
      /\ \A q \in Proc : call[q].op = "remove" => RemoveInv(q)
  BY DEF IInv, FilesInv
<1>9. \A q \in Proc : call[q].op \in {"open", "remove"} => call[q].name # call[p].to
  BY <1>2, <1>8 DEF OpenInv, RemoveInv
<1>10. ASSUME NEW q \in Proc \ {p}, call[q].op = "remove"
       PROVE  lfs'.dir.lfd_nfiles = lfs.dir.lfd_nfiles \/ (OpenSlots' = {} /\ call[q].pc = "remove")
  <2>1. ~Holds(q, DIR)
    BY <1>1 DEF Holds
  <2>2. call[q].pc = "remove"
    BY <1>10, <2>1, SamesHold DEF IInv, LineInv, OwnPcs, CallOK
  <2> QED  BY <1>1, <1>3, <1>4, <1>5, <2>2
<1>11. Step1(p, Idle) /\ OthersAllow(p, Idle) /\ Idle.op = "none"
  <2>1. OthersAllow(p, Idle)
    BY IdleOK DEF OthersAllow
  <2> QED  BY <1>1, <2>1, IdleOK, Steps
<1>12. LfsOK(lfs') /\ lfs'.dirpresent
  BY <1>1, <1>3, <1>5
<1> QED  BY <1>4, <1>7, <1>9, <1>10, <1>11, <1>12, FilesKept

-----------------------------------------------------------------------------
\* The invariant holds at first, and no step breaks it.

\* At the start nothing is open and nobody is in line.
LEMMA InitIInv == Init => IInv
<1> SUFFICES ASSUME Init  PROVE IInv
  OBVIOUS
<1>1. LF_NUM_DIR_ENT \in Nat \ {0} /\ Nlfl \in Nat \ {0}
  BY DiskAssumption, NlflAssumption
<1>2. LfsOK(lfs) /\ ~lfs.dirpresent
  <2> DEFINE d == [lfd_files |-> [e \in 0 .. LF_NUM_DIR_ENT-1 |-> NoEntry],
                   lfd_nfiles |-> 0, lfd_ifree |-> 0, lfd_dfree |-> 0]
  <2>1. DirOK(d)
    BY <1>1 DEF DirOK, NoEntry
  <2>2. "dir" \in DOMAIN Formatted /\ Formatted.dir = d
    BY DEF Formatted
  <2>3. lfs = [dir |-> Formatted.dir, dirpresent |-> FALSE, dirdirty |-> FALSE, disk |-> Formatted]
    BY DEF Init
  <2> HIDE DEF d
  <2> QED  BY <2>1, <2>2, <2>3 DEF LfsOK
<1>3. TabOK(lfltab) /\ OpenSlots = {}
  BY DEF Init, TabOK, OpenSlots, Closed
<1>4. (\A p \in Proc : call[p] = Idle /\ fds[p] = {}) /\ DOMAIN call = Proc
      /\ fds \in [Proc -> SUBSET Slot]
  BY DEF Init
<1>5. StateOK
  BY <1>2, <1>3, <1>4, IdleOK DEF StateOK
<1>6. LineInv
  <2>1. DOMAIN lockq = Mutex /\ lockq[DIR] = <<>>
    BY DEF Init, Mutex
  <2> QED  BY <1>4, <2>1, IdleOK, EmptyQueue DEF LineInv
<1>7. FilesInv
  BY <1>2, <1>3, <1>4, IdleOK DEF FilesInv, OpenFilesApart, SlotOwner, EntryIsOwn
<1> QED  BY <1>5, <1>6, <1>7 DEF IInv

\* Every step keeps the invariant.
LEMMA NextIInv ==
  ASSUME IInv, [Next]_vars, {"open_twice", "open_race", "remove_open"} \cap Careless = {}
  PROVE  IInv'
<1>1. CASE UNCHANGED vars
  BY <1>1, Stutters DEF vars
<1>2. ASSUME NEW p \in Proc, Enter(p)  PROVE IInv'
  <2>1. CASE \E name \in Names, mode \in {"", "o", "n"} : Lfsopen(p, name, mode)
    BY <2>1, LfsopenKept
  <2>2. ASSUME NEW i \in Slot, NEW n,
               Lflread(p, i, n) \/ (\E bytes : Lflwrite(p, i, bytes)) \/ (\E b : Lflputc(p, i, b))
               \/ Lflgetc(p, i)
        PROVE  IInv'
    <3>1. CASE Lflread(p, i, n)
      <4> DEFINE c == [Idle EXCEPT !.op = "read", !.pc = "byte", !.slot = i, !.n = n]
      <4>1. call[p].pc = "idle" /\ Transfer(p, c)
        BY <3>1 DEF Lflread, Start, At
      <4>2. DOMAIN c = DOMAIN Idle /\ c.op = "read" /\ c.pc = "byte" /\ c.slot \in Slot
        BY DEF Idle
      <4> HIDE DEF c
      <4> QED  BY <4>1, <4>2, TransferKept
    <3>2. CASE \E bytes : Lflwrite(p, i, bytes)
      <4>0. PICK bytes : Lflwrite(p, i, bytes)
        BY <3>2
      <4> DEFINE c == [Idle EXCEPT !.op = "write", !.pc = "byte", !.slot = i, !.bytes = bytes, !.n = Len(bytes)]
      <4>1. call[p].pc = "idle" /\ Transfer(p, c)
        BY <4>0 DEF Lflwrite, Start, At
      <4>2. DOMAIN c = DOMAIN Idle /\ c.op = "write" /\ c.pc = "byte" /\ c.slot \in Slot
        BY DEF Idle
      <4> HIDE DEF c
      <4> QED  BY <4>1, <4>2, TransferKept
    <3>3. CASE \E b : Lflputc(p, i, b)
      <4>0. PICK b : Lflputc(p, i, b)
        BY <3>3
      <4> DEFINE c == [Idle EXCEPT !.op = "putc", !.pc = "byte", !.slot = i, !.bytes = <<b>>, !.n = 1]
      <4>1. call[p].pc = "idle" /\ Transfer(p, c)
        BY <4>0 DEF Lflputc, Start, At
      <4>2. DOMAIN c = DOMAIN Idle /\ c.op = "putc" /\ c.pc = "byte" /\ c.slot \in Slot
        BY DEF Idle
      <4> HIDE DEF c
      <4> QED  BY <4>1, <4>2, TransferKept
    <3>4. CASE Lflgetc(p, i)
      <4> DEFINE c == [Idle EXCEPT !.op = "getc", !.pc = "byte", !.slot = i, !.n = 1]
      <4>1. call[p].pc = "idle" /\ Transfer(p, c)
        BY <3>4 DEF Lflgetc, Start, At
      <4>2. DOMAIN c = DOMAIN Idle /\ c.op = "getc" /\ c.pc = "byte" /\ c.slot \in Slot
        BY DEF Idle
      <4> HIDE DEF c
      <4> QED  BY <4>1, <4>2, TransferKept
    <3> QED  BY <2>2, <3>1, <3>2, <3>3, <3>4
  <2>3. ASSUME NEW i \in Slot,
               Locked(p, "close", i, 0) \/ Lflcontrol(p, i) \/ \E n \in 0 .. MaxSize : Locked(p, "seek", i, n)
        PROVE  IInv'
    BY <2>3, LockedKept, LflcontrolKept
  <2>4. CASE \/ \E name \in Names : Lfscontrol(p, "remove", name, name)
             \/ \E old, new \in Names : Lfscontrol(p, "rename", old, new)
    BY <2>4, LfscontrolKept
  <2> QED  BY <1>2, <2>1, <2>2, <2>3, <2>4 DEF Enter
<1>3. ASSUME NEW p \in Proc, Step(p)  PROVE IInv'
  BY <1>3, LfsopenSearchKept, ByteKept, AgainKept, AfterSetupKept, SetupFirstKept, SetupWalkKept,
     SetupBlockKept, LflseekKept, LflcloseKept, LflcontrolLockedKept, LftruncateKept, FreeKept,
     LfscontrolDelKept, RemoveKept, LfscontrolRenameKept DEF Step
<1> QED  BY <1>1, <1>2, <1>3 DEF Next

\* Open files are kept apart in every system whose processes open a file once
\* at a time, do not call open while another waits in it, and remove a file
\* when nobody uses the entries that remove changes (what the code does not
\* check); they may share descriptors, close while a remove is under way,
\* rename at any time and lock as xinu-main or as xinu-baseline does.
THEOREM LocalFilesApart ==
  ASSUME {"open_twice", "open_race", "remove_open"} \cap Careless = {}
  PROVE  Spec => []OpenFilesApart
<1>1. Init => IInv
  BY InitIInv
<1>2. IInv /\ [Next]_vars => IInv'
  BY NextIInv
<1>3. IInv => OpenFilesApart
  BY DEF IInv, FilesInv
<1> QED  BY <1>1, <1>2, <1>3, PTL DEF Spec

-----------------------------------------------------------------------------
\* What a step has to keep.

\* The descriptors of a process are those it was given.
OwnFds == "share_fds" \notin Careless

\* Where p is now, as call' has it.
LEMMA CallNow ==
  ASSUME IInv, NEW p \in Proc, NEW c, call' = [call EXCEPT ![p] = c]
  PROVE  call'[p] = c /\ \A q \in Proc \ {p} : call'[q] = call[q]
<1>1. DOMAIN call = Proc
  BY DEF IInv, StateOK
<1> QED  BY <1>1

\* The step of p keeps the invariant if it keeps what is claimed of p, of the
\* directory and of control blocks.
LEMMA StepClean ==
  ASSUME IInv, CleanInv, NEW p \in Proc, NEW c, call' = [call EXCEPT ![p] = c],
         \A q \in Proc \ {p} : fds'[q] = fds[q],
         c.op \in UseOps => c.slot \in fds'[p],
         \A i \in OpenSlots : lfltab'[i].lfdirptr = lfltab[i].lfdirptr,
         c.pc \in {"setup", "walk", "place"} => c.ent = lfltab'[c.slot].lfdirptr,
         c.pc = "walk" => lfs'.dir.lfd_files[lfltab'[c.slot].lfdirptr].ld_ilist # LF_INULL,
         Holds(p, DIR) \/ SameLists(lfs, lfs'),
         DirsOK(lfs'), LoadedInv',
         \/ c.pc = "clear" \/ Good(lfs')
         \/ call[p].pc # "clear" /\ (Good(lfs) => Good(lfs'))
  PROVE  CleanInv'
<1>1. call'[p] = c /\ \A q \in Proc \ {p} : call'[q] = call[q]
  BY CallNow
<1>2. UseInv(p)'
  BY <1>1 DEF UseInv, File, Ilist
<1>3. ASSUME NEW q \in Proc \ {p}  PROVE UseInv(q)'
  <2>1. call'[q] = call[q] /\ fds'[q] = fds[q] /\ UseInv(q)
    BY <1>1 DEF CleanInv
  <2>2. call[q].pc \in {"setup", "walk", "place"} =>
            /\ call[q].slot \in OpenSlots
            /\ lfltab'[call[q].slot].lfdirptr = lfltab[call[q].slot].lfdirptr
    <3>1. CallOK(call[q]) /\ fds[q] \subseteq OpenSlots
      BY SamesHold DEF IInv, FilesInv
    <3>2. call[q].pc \in {"setup", "walk", "place"} => call[q].op \in UseOps
      BY <3>1 DEF CallOK, UseOps
    <3> QED  BY <2>1, <3>1, <3>2 DEF UseInv
  <2>3. CASE call[q].pc = "walk"
    <3>1. Holds(q, DIR)
      BY <2>3 DEF IInv, LineInv, OwnPcs
    <3>2. SameLists(lfs, lfs')
      BY <3>1 DEF Holds
    <3>3. Ilist(lfltab[call[q].slot].lfdirptr) # LF_INULL
          /\ lfltab[call[q].slot].lfdirptr \in 0 .. LF_NUM_DIR_ENT-1
      BY <2>1, <2>2, <2>3, OpenEntries DEF UseInv, File, EntryOf
    <3>4. lfs'.dir.lfd_files[lfltab[call[q].slot].lfdirptr].ld_ilist # LF_INULL
      BY <3>2, <3>3 DEF SameLists, Ilist
    <3>5. /\ lfltab'[call[q].slot].lfdirptr = lfltab[call[q].slot].lfdirptr
          /\ call[q].ent = lfltab[call[q].slot].lfdirptr /\ (call[q].slot \in fds[q] \/ call[q].op \notin UseOps)
      BY <2>1, <2>2, <2>3 DEF UseInv, File
    <3> QED  BY <2>1, <2>2, <2>3, <3>4, <3>5 DEF UseInv, File, Ilist
  <2>4. CASE call[q].pc # "walk"
    BY <2>1, <2>2, <2>4 DEF UseInv, File
  <2> QED  BY <2>3, <2>4
<1>4. (\A q \in Proc : call'[q].pc # "clear") => Good(lfs')
  BY <1>1 DEF CleanInv
<1> QED  BY <1>2, <1>3, <1>4 DEF CleanInv

\* Control blocks: one is rewritten, and it gets no block if its file has none.
LEMMA LoadedKept ==
  ASSUME IInv, CleanInv, SameLists(lfs, lfs'), NEW i \in Slot, NEW g,
         lfltab' = [lfltab EXCEPT ![i] = g],
         {"lfinum", "lfbyte"} \subseteq DOMAIN g, g.lfdirptr = lfltab[i].lfdirptr,
         g.lfstate \in {lfltab[i].lfstate, "LF_FREE"},
         Loaded(g) => Loaded(lfltab[i]) \/ Ilist(EntryOf(i)) # LF_INULL
  PROVE  /\ LoadedInv'
         /\ \A j \in OpenSlots : lfltab'[j].lfdirptr = lfltab[j].lfdirptr
<1>1. TabOK(lfltab) /\ lfltab'[i] = g /\ \A j \in Slot \ {i} : lfltab'[j] = lfltab[j]
  BY SamesHold DEF TabOK
<1>2. OpenSlots' \subseteq OpenSlots /\ OpenSlots \subseteq Slot
  BY <1>1 DEF OpenSlots
<1>3. \A j \in OpenSlots : lfltab'[j].lfdirptr = lfltab[j].lfdirptr
  BY <1>1, <1>2
<1>4. \A j \in OpenSlots : Ilist(EntryOf(j))' = Ilist(EntryOf(j))
  BY <1>3, OpenEntries DEF SameLists, Ilist, EntryOf
<1>5. \A j \in Slot : {"lfinum", "lfbyte"} \subseteq DOMAIN lfltab'[j]
  BY <1>1 DEF CleanInv, LoadedInv
<1>6. ASSUME NEW j \in OpenSlots', Loaded(lfltab'[j])  PROVE Ilist(EntryOf(j))' # LF_INULL
  <2>1. j \in OpenSlots /\ Ilist(EntryOf(j))' = Ilist(EntryOf(j))
    BY <1>2, <1>4, <1>6
  <2>2. Loaded(lfltab[j]) => Ilist(EntryOf(j)) # LF_INULL
    BY <2>1 DEF CleanInv, LoadedInv
  <2> QED  BY <1>1, <1>2, <1>6, <2>1, <2>2
<1>7. LoadedInv'
  BY <1>5, <1>6 DEF LoadedInv
<1> QED  BY <1>3, <1>7

\* No control block changes.
LEMMA LoadedSame ==
  ASSUME IInv, CleanInv, SameLists(lfs, lfs'), lfltab' = lfltab
  PROVE  /\ LoadedInv'
         /\ \A j \in OpenSlots : lfltab'[j].lfdirptr = lfltab[j].lfdirptr
<1>1. OpenSlots' = OpenSlots /\ \A j \in OpenSlots : Ilist(EntryOf(j))' = Ilist(EntryOf(j))
  BY OpenEntries DEF OpenSlots, SameLists, Ilist, EntryOf
<1> QED  BY <1>1 DEF CleanInv, LoadedInv, Loaded

\* What holds of the directory before a step.
LEMMA CleanNow ==
  ASSUME IInv, CleanInv
  PROVE  /\ LfsOK(lfs) /\ DirsOK(lfs) /\ Calm(lfs, lfs) /\ SameLists(lfs, lfs)
         /\ \A i \in Slot : {"lfstate", "lfdirptr", "lfinum", "lfbyte"} \subseteq DOMAIN lfltab[i]
         /\ \A p \in Proc : /\ UseInv(p) /\ CallOK(call[p]) /\ call[p].slot \in Slot
                            /\ call[p].op \in UseOps => call[p].slot \in OpenSlots
<1>1. LfsOK(lfs) /\ TabOK(lfltab) /\ DirsOK(lfs) /\ \A p \in Proc : CallOK(call[p]) /\ call[p].slot \in Slot
  BY SamesHold DEF CleanInv
<1>2. Calm(lfs, lfs) /\ SameLists(lfs, lfs)
  BY <1>1, WriteDirCalm DEF Calm
<1>3. \A i \in Slot : {"lfstate", "lfdirptr", "lfinum", "lfbyte"} \subseteq DOMAIN lfltab[i]
  BY <1>1 DEF TabOK, CleanInv, LoadedInv
<1>4. \A p \in Proc : UseInv(p) /\ fds[p] \subseteq OpenSlots
  BY DEF CleanInv, IInv, FilesInv
<1> QED  BY <1>1, <1>2, <1>3, <1>4 DEF UseInv

\* A step that changes no directory and no control block.
LEMMA WaitsClean ==
  ASSUME IInv, CleanInv, NEW p \in Proc, NEW c, call' = [call EXCEPT ![p] = c],
         UNCHANGED <<data, fds>>,
         c.op \in UseOps => c.slot \in fds[p],
         c.pc \in {"setup", "walk", "place"} => c.ent = lfltab[c.slot].lfdirptr,
         c.pc # "walk", call[p].pc # "clear"
  PROVE  CleanInv'
<1>1. lfs' = lfs /\ lfltab' = lfltab /\ fds' = fds
  BY DEF data
<1>2. SameLists(lfs, lfs') /\ DirsOK(lfs')
  BY <1>1, CleanNow
<1>3. LoadedInv'
  BY <1>1, <1>2, LoadedSame
<1>4. \A i \in OpenSlots : lfltab'[i].lfdirptr = lfltab[i].lfdirptr
  BY <1>1
<1>5. c.pc = "walk" => lfs'.dir.lfd_files[lfltab'[c.slot].lfdirptr].ld_ilist # LF_INULL
  OBVIOUS
<1>6. c.pc = "clear" \/ Good(lfs') \/ (call[p].pc # "clear" /\ (Good(lfs) => Good(lfs')))
  BY <1>1
<1> QED  BY <1>1, <1>2, <1>3, <1>4, <1>5, <1>6, StepClean

\* A step that changes neither.
LEMMA StuttersClean ==
  ASSUME IInv, CleanInv, UNCHANGED <<lfs, lfltab, lockq, call, fds>>
  PROVE  CleanInv'
<1>1. LoadedInv'
  BY LoadedSame, CleanNow
<1>2. \A p \in Proc : UseInv(p)'
  BY DEF CleanInv, UseInv, File, Ilist
<1> QED  BY <1>1, <1>2 DEF CleanInv

\* A calm step that rewrites one control block.
LEMMA CalmClean ==
  ASSUME IInv, CleanInv, NEW p \in Proc, NEW c, call' = [call EXCEPT ![p] = c], fds' = fds,
         Calm(lfs, lfs'), NEW i \in Slot, NEW g, lfltab' = [lfltab EXCEPT ![i] = g],
         {"lfinum", "lfbyte"} \subseteq DOMAIN g,
         g.lfdirptr = lfltab[i].lfdirptr, g.lfstate = lfltab[i].lfstate,
         Loaded(g) => Loaded(lfltab[i]) \/ Ilist(EntryOf(i)) # LF_INULL,
         c.slot \in Slot, c.op \in UseOps => c.slot \in fds[p],
         c.pc \in {"setup", "walk", "place"} => c.ent = lfltab[c.slot].lfdirptr,
         c.pc = "walk" => c.slot \in OpenSlots /\ Ilist(EntryOf(c.slot)) # LF_INULL,
         call[p].pc # "clear"
  PROVE  CleanInv'
<1>1. SameLists(lfs, lfs') /\ DirsOK(lfs') /\ (Good(lfs) => Good(lfs'))
  BY DEF Calm
<1>2. LoadedInv' /\ \A j \in OpenSlots : lfltab'[j].lfdirptr = lfltab[j].lfdirptr
  BY <1>1, LoadedKept
<1>3. \A j \in Slot : lfltab'[j].lfdirptr = lfltab[j].lfdirptr
  BY SamesHold DEF TabOK
<1>4. c.pc \in {"setup", "walk", "place"} => c.ent = lfltab'[c.slot].lfdirptr
  BY <1>3
<1>5. c.pc = "walk" => lfs'.dir.lfd_files[lfltab'[c.slot].lfdirptr].ld_ilist # LF_INULL
  BY <1>1, <1>3, OpenEntries DEF SameLists, Ilist, EntryOf
<1> QED  BY <1>1, <1>2, <1>4, <1>5, StepClean

\* A calm step that rewrites none.
LEMMA CalmSame ==
  ASSUME IInv, CleanInv, NEW p \in Proc, NEW c, call' = [call EXCEPT ![p] = c], fds' = fds,
         Calm(lfs, lfs'), lfltab' = lfltab,
         c.op \in UseOps => c.slot \in fds[p],
         c.pc \notin {"setup", "walk", "place"}, call[p].pc # "clear"
  PROVE  CleanInv'
<1>1. SameLists(lfs, lfs') /\ DirsOK(lfs') /\ (Good(lfs) => Good(lfs'))
  BY DEF Calm
<1>2. LoadedInv' /\ \A j \in OpenSlots : lfltab'[j].lfdirptr = lfltab[j].lfdirptr
  BY <1>1, LoadedSame
<1> QED  BY <1>1, <1>2, StepClean

-----------------------------------------------------------------------------
\* The calls on a descriptor.

\* A call begins on one of the descriptors of the process, or on a name.
LEMMA EnterClean ==
  ASSUME IInv, CleanInv, OwnFds, NEW p \in Proc, Enter(p)
  PROVE  CleanInv'
<1>1. Fds(p) = fds[p]
  BY DEF OwnFds, Fds
<1>2. call[p].pc # "clear"
  BY DEF Enter, Lfsopen, Lflread, Lflwrite, Lflputc, Lflgetc, Locked, Lflcontrol, Lfscontrol, Start, At
<1>3. ASSUME NEW c, UNCHANGED <<data, fds>>, call' = [call EXCEPT ![p] = c],
             c.op \in UseOps => c.slot \in fds[p],
             c.pc \notin {"setup", "walk", "place"}
      PROVE  CleanInv'
  BY <1>2, <1>3, WaitsClean
<1>4. ASSUME NEW name, NEW mode, Lfsopen(p, name, mode)  PROVE CleanInv'
  <2>1. \E s : /\ call' = [call EXCEPT ![p] = [Idle EXCEPT !.op = "open", !.pc = "search", !.name = name,
                                                        !.to = mode, !.slot = s]]
               /\ UNCHANGED <<lfs, lfltab, fds>>
    BY <1>4 DEF Lfsopen, WaitFor
  <2> QED  BY <1>3, <2>1 DEF Idle, UseOps, data
<1>5. ASSUME NEW i \in fds[p], NEW c, Transfer(p, c), c.slot = i, c.pc = "byte"  PROVE CleanInv'
  <2>1. UNCHANGED <<data, fds>> /\ call' = [call EXCEPT ![p] = c]
    BY <1>5 DEF Transfer, Goto, WaitFor
  <2> QED  BY <1>3, <1>5, <2>1
<1>6. ASSUME NEW i, NEW n, Lflread(p, i, n)  PROVE CleanInv'
  <2> DEFINE c == [Idle EXCEPT !.op = "read", !.pc = "byte", !.slot = i, !.n = n]
  <2>1. i \in fds[p] /\ Transfer(p, c)
    BY <1>1, <1>6 DEF Lflread
  <2>2. c.slot = i /\ c.pc = "byte"
    BY DEF Idle
  <2> HIDE DEF c
  <2> QED  BY <1>5, <2>1, <2>2
<1>7. ASSUME NEW i, NEW b, Lflwrite(p, i, b)  PROVE CleanInv'
  <2> DEFINE c == [Idle EXCEPT !.op = "write", !.pc = "byte", !.slot = i, !.bytes = b, !.n = Len(b)]
  <2>1. i \in fds[p] /\ Transfer(p, c)
    BY <1>1, <1>7 DEF Lflwrite
  <2>2. c.slot = i /\ c.pc = "byte"
    BY DEF Idle
  <2> HIDE DEF c
  <2> QED  BY <1>5, <2>1, <2>2
<1>8. ASSUME NEW i, NEW b, Lflputc(p, i, b)  PROVE CleanInv'
  <2> DEFINE c == [Idle EXCEPT !.op = "putc", !.pc = "byte", !.slot = i, !.bytes = <<b>>, !.n = 1]
  <2>1. i \in fds[p] /\ Transfer(p, c)
    BY <1>1, <1>8 DEF Lflputc
  <2>2. c.slot = i /\ c.pc = "byte"
    BY DEF Idle
  <2> HIDE DEF c
  <2> QED  BY <1>5, <2>1, <2>2
<1>9. ASSUME NEW i, Lflgetc(p, i)  PROVE CleanInv'
  <2> DEFINE c == [Idle EXCEPT !.op = "getc", !.pc = "byte", !.slot = i, !.n = 1]
  <2>1. i \in fds[p] /\ Transfer(p, c)
    BY <1>1, <1>9 DEF Lflgetc
  <2>2. c.slot = i /\ c.pc = "byte"
    BY DEF Idle
  <2> HIDE DEF c
  <2> QED  BY <1>5, <2>1, <2>2
<1>10. ASSUME NEW i, NEW op \in {"close", "seek"}, NEW n, Locked(p, op, i, n)  PROVE CleanInv'
  <2> DEFINE c == [Idle EXCEPT !.op = op, !.pc = op, !.slot = i, !.n = n]
  <2>1. i \in fds[p] /\ UNCHANGED <<data, fds>> /\ call' = [call EXCEPT ![p] = c]
    BY <1>1, <1>10 DEF Locked, WaitFor
  <2>2. c.slot = i /\ c.pc = op
    BY DEF Idle
  <2> HIDE DEF c
  <2> QED  BY <1>3, <2>1, <2>2
<1>11. ASSUME NEW i, Lflcontrol(p, i)  PROVE CleanInv'
  <2> DEFINE c(pc) == [[Idle EXCEPT !.op = "trunc", !.slot = i] EXCEPT !.pc = pc]
  <2>1. /\ i \in fds[p] /\ UNCHANGED <<data, fds>>
        /\ call' = [call EXCEPT ![p] = c("trunc")] \/ call' = [call EXCEPT ![p] = c("control")]
    BY <1>1, <1>11 DEF Lflcontrol, WaitFor
  <2>2. \A pc : c(pc).slot = i /\ c(pc).pc = pc
    BY DEF Idle
  <2> HIDE DEF c
  <2> QED  BY <1>3, <2>1, <2>2
<1>12. ASSUME NEW op \in {"remove", "rename"}, NEW old, NEW new, Lfscontrol(p, op, old, new)
       PROVE  CleanInv'
  <2> DEFINE c == [Idle EXCEPT !.op = op, !.pc = op, !.name = old, !.to = new]
  <2>1. UNCHANGED <<data, fds>> /\ call' = [call EXCEPT ![p] = c]
    BY <1>12 DEF Lfscontrol, WaitFor
  <2>2. c.op = op /\ c.pc = op
    BY DEF Idle
  <2> HIDE DEF c
  <2> QED  BY <1>3, <2>1, <2>2 DEF UseOps
<1> QED  BY <1>4, <1>6, <1>7, <1>8, <1>9, <1>10, <1>11, <1>12 DEF Enter

\* Where a transfer goes after a byte.
LEMMA NextByteGoes ==
  ASSUME IInv, CleanInv, NEW p \in Proc, call[p].pc \in {"byte", "place"}, NextByte(p) \/ Finish(p)
  PROVE  \E c : /\ call' = [call EXCEPT ![p] = c] /\ c.slot \in Slot
                /\ c.op \in UseOps => c.slot \in fds[p]
                /\ c.pc \notin {"setup", "walk", "place", "clear"}
<1>1. CASE Finish(p)
  <2>1. call' = [call EXCEPT ![p] = Idle]
    BY <1>1 DEF Finish, Signal, Goto
  <2> QED  BY <2>1, IdleOK DEF CallOK, UseOps
<1>2. CASE NextByte(p) /\ ~Finish(p)
  <2> DEFINE c == [call[p] EXCEPT !.n = @ - 1, !.bytes = IF @ = <<>> THEN @ ELSE Tail(@)]
             on(pc) == [c EXCEPT !.pc = pc]
  <2>1. call' = [call EXCEPT ![p] = on("byte")] \/ call' = [call EXCEPT ![p] = on("again")]
    BY <1>2 DEF NextByte, Goto, Signal
  <2>2. CallOK(call[p]) /\ UseInv(p) /\ call[p].slot \in Slot
    BY CleanNow
  <2>3. \A pc : on(pc).op = call[p].op /\ on(pc).slot = call[p].slot /\ on(pc).pc = pc
    BY <2>2 DEF CallOK
  <2> HIDE DEF c, on
  <2> QED  BY <2>1, <2>2, <2>3 DEF UseInv
<1> QED  BY <1>1, <1>2

\* A byte is stored: the file may become longer, and then the directory is dirty.
LEMMA ByteStoredClean ==
  ASSUME IInv, CleanInv, NEW p \in Proc, call[p].pc \in {"byte", "place"}, ~AtEnd(File(p)),
         NEW e, e = File(p).lfdirptr, PutByte(p, e)
  PROVE  CleanInv'
<1> DEFINE i == call[p].slot
           f == lfltab[i]
           g == [f EXCEPT !.lfdblock[f.lfbyte + 1] = Head(call[p].bytes),
                          !.lfbyte = @ + 1, !.lfpos = @ + 1, !.lfdbdirty = TRUE]
           s == [lfs EXCEPT !.dir.lfd_files[e].ld_size = @ + 1, !.dirdirty = TRUE]
<1>1. /\ CallOK(call[p]) /\ i \in Slot /\ (call[p].op \in UseOps => i \in OpenSlots)
      /\ {"lfstate", "lfdirptr", "lfinum", "lfbyte"} \subseteq DOMAIN f
      /\ LfsOK(lfs) /\ DirsOK(lfs) /\ Calm(lfs, lfs)
  BY CleanNow
<1>2. i \in OpenSlots
  BY <1>1 DEF CallOK, UseOps
<1>3. Loaded(f) /\ e = EntryOf(i) /\ e \in 0 .. LF_NUM_DIR_ENT-1
  BY <1>2, OpenEntries DEF Loaded, File, EntryOf
<1>4. lfs.dir.lfd_files[e].ld_ilist # LF_INULL
  BY <1>2, <1>3 DEF CleanInv, LoadedInv, Ilist
<1>5. Calm(lfs, s)
  <2> DEFINE r == [lfs.dir.lfd_files[e] EXCEPT !.ld_size = @ + 1]
  <2>1. /\ s.dir = Changed(lfs.dir, e, r) /\ s.disk = lfs.disk /\ s.dirdirty = TRUE
    BY <1>1 DEF LfsOK, DirOK, Changed
  <2>2. DOMAIN r = DOMAIN lfs.dir.lfd_files[e] /\ r.ld_ilist = lfs.dir.lfd_files[e].ld_ilist
    BY <1>1, <1>3 DEF DirsOK, DirFields
  <2> HIDE DEF r, s
  <2>4. /\ DOMAIN s.dir = DOMAIN lfs.dir /\ s.dir.lfd_nfiles = lfs.dir.lfd_nfiles
        /\ DOMAIN s.dir.lfd_files = 0 .. LF_NUM_DIR_ENT-1 /\ s.dir.lfd_files[e] = r
        /\ \A x \in 0 .. LF_NUM_DIR_ENT-1 : x # e => s.dir.lfd_files[x] = lfs.dir.lfd_files[x]
        /\ 0 .. lfs.dir.lfd_nfiles-1 \subseteq 0 .. LF_NUM_DIR_ENT-1
    <3>1. DirOK(lfs.dir)
      BY <1>1 DEF LfsOK
    <3> QED  BY <1>3, <2>1, <3>1, EntryDir
  <2>3. DirsOK(s)
    BY <1>1, <1>4, <2>1, <2>2, <2>4 DEF DirsOK, DirFields, SizesOK
  <2> QED  BY <2>1, <2>2, <2>3, <2>4 DEF Calm, SameLists, Good
<1>6. /\ lfltab' = [lfltab EXCEPT ![i] = g] /\ lfs' \in {s, lfs} /\ NextByte(p) /\ fds' = fds
  BY DEF PutByte
<1>7. {"lfinum", "lfbyte"} \subseteq DOMAIN g /\ g.lfdirptr = f.lfdirptr /\ g.lfstate = f.lfstate
  BY <1>1
<1>8. Calm(lfs, lfs')
  BY <1>1, <1>5, <1>6
<1>9. PICK c : /\ call' = [call EXCEPT ![p] = c] /\ c.slot \in Slot
               /\ c.op \in UseOps => c.slot \in fds[p]
               /\ c.pc \notin {"setup", "walk", "place", "clear"}
  BY <1>6, NextByteGoes
<1> HIDE DEF g, s
<1> QED  BY <1>1, <1>3, <1>6, <1>7, <1>8, <1>9, CalmClean, ZenonT(60)

\* A byte is fetched.
LEMMA TakeByteClean ==
  ASSUME IInv, CleanInv, NEW p \in Proc, call[p].pc \in {"byte", "place"}, ~AtEnd(File(p)),
         TakeByte(p)
  PROVE  CleanInv'
<1> DEFINE i == call[p].slot
           f == lfltab[i]
           g == [f EXCEPT !.lfbyte = @ + 1, !.lfpos = @ + 1]
<1>1. /\ i \in Slot /\ {"lfstate", "lfdirptr", "lfinum", "lfbyte"} \subseteq DOMAIN f /\ Calm(lfs, lfs)
  BY CleanNow
<1>2. lfltab' = [lfltab EXCEPT ![i] = g] /\ lfs' = lfs /\ NextByte(p) /\ fds' = fds
  BY SamesHold DEF TakeByte
<1>3. {"lfinum", "lfbyte"} \subseteq DOMAIN g /\ g.lfdirptr = f.lfdirptr /\ g.lfstate = f.lfstate
  BY <1>1
<1>4. Loaded(f)
  BY DEF Loaded, File
<1>5. PICK c : /\ call' = [call EXCEPT ![p] = c] /\ c.slot \in Slot
               /\ c.op \in UseOps => c.slot \in fds[p]
               /\ c.pc \notin {"setup", "walk", "place", "clear"}
  BY <1>2, NextByteGoes
<1> HIDE DEF g
<1> QED  BY <1>1, <1>2, <1>3, <1>4, <1>5, CalmClean, ZenonT(60)

\* A transfer stores or fetches its byte, ends, or goes to lfsetup.
LEMMA ByteClean ==
  ASSUME IInv, CleanInv, NEW p \in Proc, Byte(p) \/ Again(p) \/ AfterSetup(p)
  PROVE  CleanInv'
<1>1. UseInv(p) /\ CallOK(call[p]) /\ call[p].slot \in Slot /\ (call[p].op \in UseOps => call[p].slot \in OpenSlots)
  BY CleanNow
<1> DEFINE e == File(p).lfdirptr
           c == [call[p] EXCEPT !.pc = "setup", !.ent = e]
           d == [call[p] EXCEPT !.pc = "byte"]
<1>2. CASE Byte(p)
  <2>1. \/ Finish(p) /\ UNCHANGED <<data, fds>>
        \/ ~AtEnd(File(p)) /\ (PutByte(p, e) \/ TakeByte(p))
        \/ WaitFor(p, DIR, c) /\ UNCHANGED <<data, fds>>
    BY <1>2 DEF Byte
  <2>2. call[p].pc = "byte"
    BY <1>2 DEF Byte, At
  <2>3. CASE Finish(p) /\ UNCHANGED <<data, fds>>
    BY <2>2, <2>3, NextByteGoes, WaitsClean
  <2>4. CASE ~AtEnd(File(p)) /\ (PutByte(p, e) \/ TakeByte(p))
    BY <2>2, <2>4, ByteStoredClean, TakeByteClean
  <2>5. CASE WaitFor(p, DIR, c) /\ UNCHANGED <<data, fds>>
    <3>1. c.op = call[p].op /\ c.slot = call[p].slot /\ c.pc = "setup" /\ c.ent = lfltab[c.slot].lfdirptr
      BY <1>1 DEF CallOK, File
    <3>2. call' = [call EXCEPT ![p] = c]
      BY <2>5 DEF WaitFor
    <3> HIDE DEF c
    <3> QED  BY <1>1, <2>2, <2>5, <3>1, <3>2, WaitsClean DEF UseInv
  <2> QED  BY <2>1, <2>3, <2>4, <2>5
<1>3. CASE Again(p)
  <2>1. /\ call' = [call EXCEPT ![p] = d] /\ UNCHANGED <<data, fds>> /\ call[p].pc = "again"
    BY <1>3 DEF Again, At, WaitFor
  <2>2. d.op = call[p].op /\ d.slot = call[p].slot /\ d.pc = "byte"
    BY <1>1 DEF CallOK
  <2> HIDE DEF d
  <2> QED  BY <1>1, <2>1, <2>2, WaitsClean DEF UseInv
<1>4. CASE AfterSetup(p)
  <2>1. call[p].pc = "place" /\ call[p].ent = e
    BY <1>1, <1>4 DEF AfterSetup, At, UseInv
  <2>2. CASE Halt("undefined")
    BY <2>2, StuttersClean DEF Halt
  <2>3. CASE ~AtEnd(File(p)) /\ (PutByte(p, e) \/ TakeByte(p))
    BY <2>1, <2>3, ByteStoredClean, TakeByteClean
  <2> QED  BY <1>4, <2>1, <2>2, <2>3 DEF AfterSetup
<1> QED  BY <1>2, <1>3, <1>4

-----------------------------------------------------------------------------
\* lfsetup.

\* What lfflush leaves of a control block.
LEMMA FlushedLoads ==
  ASSUME NEW f, {"lfstate", "lfdirptr", "lfinum", "lfbyte"} \subseteq DOMAIN f
  PROVE  /\ {"lfstate", "lfdirptr", "lfinum", "lfbyte"} \subseteq DOMAIN Flushed(f)
         /\ Flushed(f).lfstate = f.lfstate /\ Flushed(f).lfdirptr = f.lfdirptr
         /\ Flushed(f).lfinum = f.lfinum /\ Flushed(f).lfbyte = f.lfbyte
BY DEF Flushed

\* The list of a file begins at x.
WithList(s, e, x) == [s EXCEPT !.dir.lfd_files[e].ld_ilist = x]

\* The first i-block of an empty file: the directory has been written with the
\* new free list and without the list of the file, which still has no bytes.
\* That is good for it.
LEMMA NewListGood ==
  ASSUME NEW s, LfsOK(s), DirsOK(s), s.disk.dir = s.dir, NEW e \in 0 .. LF_NUM_DIR_ENT-1,
         s.dir.lfd_files[e].ld_ilist = LF_INULL, NEW new, new # LF_INULL,
         NEW t, t = WithList(s, e, new)
  PROVE  /\ DirsOK(t) /\ Good(t)
         /\ t.dir.lfd_files[e].ld_ilist = new
         /\ \A x \in 0 .. LF_NUM_DIR_ENT-1 :
               x # e => t.dir.lfd_files[x].ld_ilist = s.dir.lfd_files[x].ld_ilist
<1> DEFINE r == [s.dir.lfd_files[e] EXCEPT !.ld_ilist = new]
<1>1. t.dir = Changed(s.dir, e, r) /\ t.disk = s.disk
  BY DEF LfsOK, DirOK, Changed, WithList
<1>2. DOMAIN r = DOMAIN s.dir.lfd_files[e] /\ r.ld_ilist = new /\ r.ld_size = s.dir.lfd_files[e].ld_size
      /\ r.ld_name = s.dir.lfd_files[e].ld_name
  BY DEF DirsOK, DirFields
<1> HIDE DEF r
<1>3. /\ DOMAIN t.dir = DOMAIN s.dir /\ t.dir.lfd_nfiles = s.dir.lfd_nfiles
      /\ t.dir.lfd_ifree = s.dir.lfd_ifree /\ t.dir.lfd_dfree = s.dir.lfd_dfree
      /\ DOMAIN t.dir.lfd_files = 0 .. LF_NUM_DIR_ENT-1 /\ t.dir.lfd_files[e] = r
      /\ \A x \in 0 .. LF_NUM_DIR_ENT-1 : x # e => t.dir.lfd_files[x] = s.dir.lfd_files[x]
      /\ s.dir.lfd_nfiles \in Nat /\ 0 .. s.dir.lfd_nfiles-1 \subseteq 0 .. LF_NUM_DIR_ENT-1
  <2>1. DirOK(s.dir)
    BY DEF LfsOK
  <2> QED  BY <1>1, <2>1, EntryDir
<1>4. DirFields(t.dir)
  BY <1>2, <1>3 DEF DirsOK, DirFields
<1>5. SizesOK(t.dir)
  BY <1>2, <1>3 DEF DirsOK, SizesOK
<1>6. DirsOK(t)
  BY <1>1, <1>4, <1>5 DEF DirsOK
<1>7. GoodFor(t.disk.dir, t.dir)
  <2>1. \A x \in 0 .. s.dir.lfd_nfiles-1 : x < s.dir.lfd_nfiles
    BY <1>3
  <2>2. \A x \in 0 .. s.dir.lfd_nfiles-1 : x = e => ~(r.ld_size > 0)
    BY <1>2 DEF DirsOK, SizesOK
  <2>3. \A x \in 0 .. s.dir.lfd_nfiles-1 : t.dir.lfd_files[x].ld_name = s.dir.lfd_files[x].ld_name
    BY <1>2, <1>3
  <2> DEFINE n == s.dir.lfd_nfiles
  <2>4. t.disk.dir = s.dir /\ t.dir.lfd_nfiles = n
    BY <1>1, <1>3
  <2>5. s.dir.lfd_ifree = t.dir.lfd_ifree /\ s.dir.lfd_dfree = t.dir.lfd_dfree
    BY <1>3
  <2>6. \A x \in 0 .. n-1 : t.dir.lfd_files[x].ld_size > 0 => s.dir.lfd_files[x] = t.dir.lfd_files[x]
    BY <1>3, <2>2
  <2>7. \A x \in 0 .. n-1 : s.dir.lfd_files[x].ld_name = t.dir.lfd_files[x].ld_name
    BY <2>3
  <2> QED  BY <2>1, <2>4, <2>5, <2>6, <2>7 DEF GoodFor
<1> QED  BY <1>2, <1>3, <1>6, <1>7 DEF Good

\* The first i-block of the file is read or made.
LEMMA SetupFirstClean ==
  ASSUME IInv, CleanInv, NEW p \in Proc, SetupFirst(p)
  PROVE  CleanInv'
<1> DEFINE i == call[p].slot
           dirty == lfltab[i].lfibdirty \/ lfltab[i].lfdbdirty
           s == IF dirty THEN Flush(lfs, lfltab[i]) ELSE lfs
           f == IF dirty THEN Flushed(lfltab[i]) ELSE lfltab[i]
           e == f.lfdirptr
           first == s.dir.lfd_files[e].ld_ilist
           new   == s.dir.lfd_ifree
           t == [Iballoc(s) EXCEPT !.dir.lfd_files[e].ld_ilist = new]
           f2 == [f EXCEPT !.lfinum = first, !.lfiblock = s.disk.ib[first]]
           f3 == [f EXCEPT !.lfinum = new, !.lfiblock = Iblock(0), !.lfibdirty = TRUE]
           c == [call[p] EXCEPT !.pc = "walk"]
           go(u, g) == /\ lfs' = u
                       /\ lfltab' = [lfltab EXCEPT ![i] = g]
                       /\ Goto(p, c)
                       /\ UNCHANGED <<fds, got, halted>>
<1>1. call[p].pc = "setup" /\ Holds(p, DIR)
  BY ZenonT(60) DEF SetupFirst, At
<1>2. \/ f.lfinum # LF_INULL /\ go(s, f)
      \/ first # LF_INULL /\ go(s, f2)
      \/ first = LF_INULL /\ new # LF_INULL /\ go(t, f3)
      \/ Halt("undefined") \/ Halt("panic")
  BY DEF SetupFirst, Restart
<1>3. /\ i \in Slot /\ LfsOK(lfs) /\ DirsOK(lfs) /\ Calm(lfs, lfs) /\ CallOK(call[p]) /\ UseInv(p)
      /\ {"lfstate", "lfdirptr", "lfinum", "lfbyte"} \subseteq DOMAIN lfltab[i]
      /\ call[p].op \in UseOps => i \in OpenSlots
  BY CleanNow
<1>4. i \in OpenSlots /\ i \in fds[p]
  BY <1>1, <1>3 DEF CallOK, UseOps, UseInv
<1>5. c.slot = i /\ c.op = call[p].op /\ c.pc = "walk" /\ c.ent = lfltab[i].lfdirptr
  BY <1>1, <1>3 DEF CallOK, UseInv, File
<1>6. Calm(lfs, s) /\ s.dir = lfs.dir /\ LfsOK(s) /\ DirsOK(s)
  BY <1>3, FlushCalm, FlushSame DEF SameDir, Calm
<1>7. /\ {"lfstate", "lfdirptr", "lfinum", "lfbyte"} \subseteq DOMAIN f
      /\ f.lfstate = lfltab[i].lfstate /\ f.lfdirptr = lfltab[i].lfdirptr
      /\ f.lfinum = lfltab[i].lfinum /\ f.lfbyte = lfltab[i].lfbyte
  BY <1>3, FlushedLoads
<1>8. e = EntryOf(i) /\ e \in 0 .. LF_NUM_DIR_ENT-1 /\ first = Ilist(EntryOf(i))
  BY <1>4, <1>6, <1>7, OpenEntries, ZenonT(60) DEF EntryOf, Ilist
<1>9. \A g \in {f, f2, f3} : /\ {"lfinum", "lfbyte"} \subseteq DOMAIN g
                             /\ g.lfdirptr = lfltab[i].lfdirptr /\ g.lfstate = lfltab[i].lfstate
  <2> HIDE DEF f, s
  <2> QED  BY <1>7
<1>10. t = WithList(Iballoc(s), e, new)
  BY DEF WithList
<1> HIDE DEF s, t, f, f2, f3, c
<1>16. ASSUME NEW g \in {f, f2}, go(s, g), Ilist(EntryOf(i)) # LF_INULL  PROVE CleanInv'
  <2> HIDE DEF i
  <2>1. call' = [call EXCEPT ![p] = c] /\ lfs' = s /\ lfltab' = [lfltab EXCEPT ![i] = g] /\ fds' = fds
    BY <1>16 DEF Goto
  <2>2. Calm(lfs, lfs')
    BY <1>6, <2>1
  <2>3. {"lfinum", "lfbyte"} \subseteq DOMAIN g /\ g.lfdirptr = lfltab[i].lfdirptr /\ g.lfstate = lfltab[i].lfstate
    BY <1>9, <1>16
  <2>4. /\ c.slot \in Slot /\ (c.op \in UseOps => c.slot \in fds[p]) /\ c.ent = lfltab[c.slot].lfdirptr
        /\ c.slot \in OpenSlots /\ Ilist(EntryOf(c.slot)) # LF_INULL /\ call[p].pc # "clear"
    BY <1>1, <1>3, <1>4, <1>5, <1>16
  <2> QED  BY <1>3, <1>16, <2>1, <2>2, <2>3, <2>4, CalmClean
<1>11. CASE f.lfinum # LF_INULL /\ go(s, f)
  <2>1. Loaded(lfltab[i]) /\ Ilist(EntryOf(i)) # LF_INULL
    BY <1>4, <1>7, <1>11 DEF Loaded, CleanInv, LoadedInv
  <2> QED  BY <1>11, <1>16, <2>1
<1>12. CASE first # LF_INULL /\ go(s, f2)
  BY <1>8, <1>12, <1>16
<1>13. CASE first = LF_INULL /\ new # LF_INULL /\ go(t, f3)
  <2>1. call' = [call EXCEPT ![p] = c] /\ lfs' = t /\ lfltab' = [lfltab EXCEPT ![i] = f3] /\ fds' = fds
    BY <1>13 DEF Goto
  <2> DEFINE u == Iballoc(s)
  <2>2. /\ Calm(s, u) /\ u.dir.lfd_files = s.dir.lfd_files /\ u.disk.dir = u.dir /\ LfsOK(u) /\ DirsOK(u)
    BY <1>6, AllocCalm, AllocSame DEF Calm, SameDir
  <2>3. t = WithList(u, e, new)
    BY <1>10
  <2> HIDE DEF u
  <2>4. /\ DirsOK(t) /\ Good(t) /\ t.dir.lfd_files[e].ld_ilist = new
        /\ \A x \in 0 .. LF_NUM_DIR_ENT-1 :
               x # e => t.dir.lfd_files[x].ld_ilist = lfs.dir.lfd_files[x].ld_ilist
    <3>1. u.dir.lfd_files = lfs.dir.lfd_files /\ u.dir.lfd_files[e].ld_ilist = LF_INULL
      BY <1>6, <1>13, <2>2
    <3> QED  BY <1>8, <1>13, <2>2, <2>3, <3>1, NewListGood, SMTT(60)
  <2>5. /\ lfltab'[i] = f3 /\ \A j \in Slot \ {i} : lfltab'[j] = lfltab[j]
    BY <1>3, <2>1, SamesHold DEF TabOK
  <2>6. OpenSlots' = OpenSlots /\ \A j \in Slot : lfltab'[j].lfdirptr = lfltab[j].lfdirptr
    BY <1>9, <2>5 DEF OpenSlots
  <2>7. \A j \in Slot : {"lfinum", "lfbyte"} \subseteq DOMAIN lfltab'[j]
    BY <1>9, <2>5, CleanNow
  <2>8. ASSUME NEW j \in OpenSlots, Loaded(lfltab'[j])  PROVE Ilist(EntryOf(j))' # LF_INULL
    <3>1. EntryOf(j) \in 0 .. LF_NUM_DIR_ENT-1 /\ EntryOf(j)' = EntryOf(j) /\ j \in Slot
      BY <2>6, OpenEntries DEF EntryOf
    <3>2. CASE EntryOf(j) = e
      BY <1>13, <2>1, <2>4, <3>1, <3>2 DEF Ilist
    <3>3. CASE EntryOf(j) # e
      <4>1. lfltab'[j] = lfltab[j]
        BY <1>8, <2>5, <3>1, <3>3
      <4>2. Ilist(EntryOf(j)) # LF_INULL
        BY <2>8, <4>1 DEF CleanInv, LoadedInv
      <4>3. lfs'.dir.lfd_files[EntryOf(j)].ld_ilist = lfs.dir.lfd_files[EntryOf(j)].ld_ilist
        BY <2>1, <2>4, <3>1, <3>3
      <4> QED  BY <3>1, <4>2, <4>3 DEF Ilist
    <3> QED  BY <3>2, <3>3
  <2>9. LoadedInv'
    BY <2>6, <2>7, <2>8 DEF LoadedInv
  <2>10. lfs'.dir.lfd_files[lfltab'[c.slot].lfdirptr].ld_ilist # LF_INULL
    BY <1>3, <1>5, <1>7, <1>13, <2>1, <2>4, <2>6
  <2>11. \A j \in OpenSlots : lfltab'[j].lfdirptr = lfltab[j].lfdirptr
    BY <2>6, OpenEntries
  <2>12. c.ent = lfltab'[c.slot].lfdirptr
    BY <1>3, <1>5, <2>6
  <2> QED  BY <1>1, <1>4, <1>5, <2>1, <2>4, <2>9, <2>10, <2>11, <2>12, StepClean
<1>14. CASE Halt("undefined") \/ Halt("panic")
  BY <1>14, StuttersClean DEF Halt
<1> QED  BY <1>2, <1>11, <1>12, <1>13, <1>14

\* The walk along the i-blocks, and its end at a d-block.
LEMMA SetupOnClean ==
  ASSUME IInv, CleanInv, NEW p \in Proc, SetupWalk(p) \/ SetupBlock(p)
  PROVE  CleanInv'
<1> DEFINE i    == call[p].slot
           f    == lfltab[i]
           next == f.lfiblock.ib_next
           new  == lfs.dir.lfd_ifree
           free == lfs.dir.lfd_dfree
           dnum == f.lfiblock.ib_dba[DIndex(f)]
           out  == [call[p] EXCEPT !.pc = "place"]
           t  == [Iballoc(lfs) EXCEPT !.disk.ib[f.lfinum] = [f.lfiblock EXCEPT !.ib_next = new]]
           w2 == [f EXCEPT !.lfinum = next, !.lfiblock = lfs.disk.ib[next]]
           w3 == [f EXCEPT !.lfinum = new, !.lfibdirty = TRUE,
                           !.lfiblock = Iblock(f.lfiblock.ib_offset + LF_IDATA)]
           b2 == [f EXCEPT !.lfdnum = dnum, !.lfdbdirty = FALSE,
                           !.lfdblock = lfs.disk.db[dnum].data]
           b3 == [f EXCEPT !.lfdnum = free, !.lfdblock = Filled, !.lfibdirty = TRUE,
                           !.lfiblock.ib_dba[DIndex(f)] = free]
           walked(g) == [g EXCEPT !.lfdnum = LF_DNULL]
           placed(g) == [g EXCEPT !.lfbyte = Offset(f)]
<1>1. call[p].pc = "walk"
  BY DEF SetupWalk, SetupBlock, At
<1>2. /\ i \in Slot /\ LfsOK(lfs) /\ DirsOK(lfs) /\ Calm(lfs, lfs) /\ CallOK(call[p]) /\ UseInv(p)
      /\ {"lfstate", "lfdirptr", "lfinum", "lfbyte"} \subseteq DOMAIN f
      /\ call[p].op \in UseOps => i \in OpenSlots
  BY CleanNow
<1>3. i \in OpenSlots /\ i \in fds[p] /\ call[p].ent = f.lfdirptr /\ Ilist(EntryOf(i)) # LF_INULL
  BY <1>1, <1>2 DEF CallOK, UseOps, UseInv, File, EntryOf
<1>4. out.slot = i /\ out.op = call[p].op /\ out.pc = "place" /\ out.ent = call[p].ent
  BY <1>2 DEF CallOK
<1>5. ASSUME NEW g \in {walked(w2), walked(w3), placed(f), placed(b2), placed(b3)}
      PROVE  /\ {"lfinum", "lfbyte"} \subseteq DOMAIN g
             /\ g.lfdirptr = f.lfdirptr /\ g.lfstate = f.lfstate
  <2> HIDE DEF f
  <2> QED  BY <1>2, <1>5, ZenonT(60)
<1>6. Calm(lfs, t)
  <2> DEFINE u == Iballoc(lfs)
  <2>1. Calm(lfs, u) /\ LfsOK(u)
    BY <1>2, AllocCalm, AllocSame DEF SameDir
  <2> HIDE DEF u
  <2>2. /\ t.dir = u.dir /\ t.disk.dir = u.disk.dir /\ t.dirpresent = u.dirpresent /\ t.dirdirty = u.dirdirty
    BY <2>1 DEF LfsOK, u
  <2> HIDE DEF t
  <2> QED  BY <2>1, <2>2 DEF Calm, DirsOK, Good, SameLists
<1>7. \A x : Calm(lfs, Dballoc(lfs, x))
  BY <1>2, AllocCalm
<1>8. ASSUME NEW g \in {walked(w2), walked(w3), placed(f), placed(b2), placed(b3)},
             NEW c \in {call[p], out}, call' = [call EXCEPT ![p] = c], fds' = fds,
             Calm(lfs, lfs'), lfltab' = [lfltab EXCEPT ![i] = g]
      PROVE  CleanInv'
  <2>1. c.slot = i /\ (c.op \in UseOps => c.slot \in fds[p]) /\ c.ent = lfltab[i].lfdirptr
    BY <1>3, <1>4, <1>8
  <2> HIDE DEF i, f, w2, w3, b2, b3, walked, placed, out
  <2>2. {"lfinum", "lfbyte"} \subseteq DOMAIN g /\ g.lfdirptr = lfltab[i].lfdirptr /\ g.lfstate = lfltab[i].lfstate
    BY <1>5 DEF f
  <2>3. /\ Loaded(g) => Loaded(lfltab[i]) \/ Ilist(EntryOf(i)) # LF_INULL
        /\ c.slot \in Slot /\ (c.op \in UseOps => c.slot \in fds[p]) /\ c.ent = lfltab[c.slot].lfdirptr
        /\ c.slot \in OpenSlots /\ Ilist(EntryOf(c.slot)) # LF_INULL /\ call[p].pc # "clear"
    BY <1>1, <1>2, <1>3, <2>1
  <2> QED  BY <1>2, <1>8, <2>2, <2>3, CalmClean
<1>9. CASE SetupWalk(p)
  <2>1. \/ /\ lfs' \in {lfs, t} /\ Goto(p, call[p]) /\ fds' = fds
           /\ lfltab' = [lfltab EXCEPT ![i] = walked(w2)] \/ lfltab' = [lfltab EXCEPT ![i] = walked(w3)]
        \/ Halt("panic")
    BY <1>9 DEF SetupWalk
  <2>2. CASE Halt("panic")
    BY <2>2, StuttersClean DEF Halt
  <2>3. CASE /\ lfs' \in {lfs, t} /\ Goto(p, call[p]) /\ fds' = fds
             /\ lfltab' = [lfltab EXCEPT ![i] = walked(w2)] \/ lfltab' = [lfltab EXCEPT ![i] = walked(w3)]
    <3>1. Calm(lfs, lfs') /\ call' = [call EXCEPT ![p] = call[p]]
      BY <1>2, <1>6, <2>3 DEF Goto
    <3> HIDE DEF walked, w2, w3
    <3> QED  BY <1>8, <2>3, <3>1, ZenonT(60)
  <2> QED  BY <2>1, <2>2, <2>3, ZenonT(60)
<1>10. CASE SetupBlock(p)
  <2>1. \/ /\ lfs' = lfs \/ \E x : lfs' = Dballoc(lfs, x)
           /\ Signal(p, DIR, out) /\ fds' = fds
           /\ \/ lfltab' = [lfltab EXCEPT ![i] = placed(f)]
              \/ lfltab' = [lfltab EXCEPT ![i] = placed(b2)]
              \/ lfltab' = [lfltab EXCEPT ![i] = placed(b3)]
        \/ Halt("panic")
    BY <1>10 DEF SetupBlock
  <2>2. CASE Halt("panic")
    BY <2>2, StuttersClean DEF Halt
  <2>3. CASE ~Halt("panic")
    <3> HIDE DEF out
    <3>1. call' = [call EXCEPT ![p] = out]
      BY <2>1, <2>3, ZenonT(60) DEF Signal
    <3>2. lfs' = lfs \/ \E x : lfs' = Dballoc(lfs, x)
      BY <2>1, <2>3
    <3>3. Calm(lfs, lfs')
      BY <1>2, <1>7, <3>2
    <3> HIDE DEF placed, b2, b3, out
    <3> QED  BY <1>8, <2>1, <2>3, <3>1, <3>3
  <2> QED  BY <2>2, <2>3
<1> QED  BY <1>9, <1>10

-----------------------------------------------------------------------------
\* lflseek, lflclose and lflcontrol.

\* A seek lets the d-block go.
LEMMA LflseekClean ==
  ASSUME IInv, CleanInv, NEW p \in Proc, Lflseek(p)
  PROVE  CleanInv'
<1> DEFINE i == call[p].slot
           f == lfltab[i]
           g == [f EXCEPT !.lfpos = call[p].n, !.lfbyte = LF_BLKSIZ]
<1>1. /\ call[p].pc = "seek" /\ call' = [call EXCEPT ![p] = Idle] /\ lfs' = lfs /\ fds' = fds
      /\ lfltab' = [lfltab EXCEPT ![i] = g] \/ lfltab' = lfltab
  BY SamesHold DEF Lflseek, At, Signal, TabOK
<1>2. /\ i \in Slot /\ {"lfstate", "lfdirptr", "lfinum", "lfbyte"} \subseteq DOMAIN f /\ Calm(lfs, lfs)
  BY CleanNow
<1>3. /\ {"lfinum", "lfbyte"} \subseteq DOMAIN g /\ g.lfdirptr = f.lfdirptr /\ g.lfstate = f.lfstate
      /\ g.lfinum = f.lfinum /\ g.lfbyte = LF_BLKSIZ
  BY <1>2
<1>4. Loaded(g) => Loaded(f)
  BY <1>3, DiskAssumption DEF Loaded, AtEnd
<1>5. Idle.op \notin UseOps /\ Idle.pc = "idle" /\ Idle.slot \in Slot
  BY IdleOK DEF UseOps, CallOK
<1> HIDE DEF g
<1>6. CASE lfltab' = [lfltab EXCEPT ![i] = g]
  BY <1>1, <1>2, <1>3, <1>4, <1>5, <1>6, CalmClean, ZenonT(60)
<1>7. CASE lfltab' = lfltab
  BY <1>1, <1>2, <1>5, <1>7, CalmSame
<1> QED  BY <1>1, <1>6, <1>7

\* lflclose writes what is not written and lets the descriptor go.
LEMMA LflcloseClean ==
  ASSUME IInv, CleanInv, NEW p \in Proc, Lflclose(p)
  PROVE  CleanInv'
<1> DEFINE i == call[p].slot
           f == lfltab[i]
           dirty == lfs.dirdirty \/ f.lfdbdirty \/ f.lfibdirty
           f1 == IF dirty THEN Flushed(f) ELSE f
           g == [f1 EXCEPT !.lfstate = "LF_FREE"]
<1>1. /\ call[p].pc = "close" /\ call' = [call EXCEPT ![p] = Idle]
      /\ lfs' \in {Flush(lfs, f), lfs}
      /\ lfltab' = [lfltab EXCEPT ![i] = g]
      /\ fds' = [q \in Proc |-> fds[q] \ {i}]
  BY DEF Lflclose, At, Signal
<1>2. /\ i \in Slot /\ {"lfstate", "lfdirptr", "lfinum", "lfbyte"} \subseteq DOMAIN f /\ Calm(lfs, lfs)
      /\ LfsOK(lfs) /\ DirsOK(lfs) /\ CallOK(call[p]) /\ UseInv(p)
  BY CleanNow
<1>3. i \in fds[p]
  BY <1>1, <1>2 DEF CallOK, UseOps, UseInv
<1>4. \A q \in Proc \ {p} : fds'[q] = fds[q]
  <2>1. SlotOwner
    BY DEF IInv, FilesInv, OpenFilesApart
  <2> QED  BY <1>1, <1>3, <2>1 DEF SlotOwner
<1>5. Calm(lfs, lfs')
  BY <1>1, <1>2, FlushCalm
<1>6. /\ {"lfstate", "lfdirptr", "lfinum", "lfbyte"} \subseteq DOMAIN f1
      /\ f1.lfdirptr = f.lfdirptr /\ f1.lfinum = f.lfinum /\ f1.lfbyte = f.lfbyte
  BY <1>2, FlushedLoads
<1> HIDE DEF f1
<1>7. /\ {"lfinum", "lfbyte"} \subseteq DOMAIN g /\ g.lfdirptr = f.lfdirptr /\ g.lfstate = "LF_FREE"
      /\ Loaded(g) => Loaded(f)
  BY <1>6 DEF Loaded, AtEnd
<1>8. Idle.op \notin UseOps /\ Idle.pc = "idle"
  BY IdleOK DEF UseOps
<1> HIDE DEF g
<1>9. SameLists(lfs, lfs') /\ DirsOK(lfs') /\ (Good(lfs) => Good(lfs'))
  BY <1>5 DEF Calm
<1>10. LoadedInv' /\ \A j \in OpenSlots : lfltab'[j].lfdirptr = lfltab[j].lfdirptr
  BY <1>1, <1>2, <1>7, <1>9, LoadedKept
<1> QED  BY <1>1, <1>4, <1>8, <1>9, <1>10, StepClean

\* lflcontrol waits for a mutex, and signals one.
LEMMA LflcontrolClean ==
  ASSUME IInv, CleanInv, NEW p \in Proc, LflcontrolLocked(p) \/ LflcontrolUnlock(p)
  PROVE  CleanInv'
<1> DEFINE c == [call[p] EXCEPT !.pc = "trunc"]
<1>1. /\ call[p].pc \in {"control", "unlock"} /\ UNCHANGED <<data, fds>>
      /\ call' = [call EXCEPT ![p] = c] \/ call' = [call EXCEPT ![p] = Idle]
  BY DEF LflcontrolLocked, LflcontrolUnlock, At, WaitFor, Signal
<1>2. CallOK(call[p]) /\ UseInv(p)
  BY CleanNow
<1>3. c.op = call[p].op /\ c.slot = call[p].slot /\ c.pc = "trunc"
  BY <1>2 DEF CallOK
<1>4. Idle.op \notin UseOps /\ Idle.pc = "idle"
  BY IdleOK DEF UseOps
<1> HIDE DEF c
<1>5. ASSUME NEW b \in {c, Idle}, call' = [call EXCEPT ![p] = b]  PROVE CleanInv'
  <2>1. /\ b.op \in UseOps => b.slot \in fds[p]
        /\ b.pc \notin {"setup", "walk", "place"} /\ call[p].pc # "clear"
    BY <1>1, <1>2, <1>3, <1>4, <1>5 DEF UseInv
  <2> QED  BY <1>1, <1>5, <2>1, WaitsClean
<1> QED  BY <1>1, <1>5

-----------------------------------------------------------------------------
\* Truncation, and freeing the blocks of a file.

\* The file has no bytes and no blocks.
Emptied(s, e) == [s EXCEPT !.dir.lfd_files[e].ld_ilist = LF_INULL,
                           !.dir.lfd_files[e].ld_size = 0, !.dirdirty = TRUE]

\* The directory is dirty then.
LEMMA EmptiedGood ==
  ASSUME NEW s, LfsOK(s), DirsOK(s), NEW e \in 0 .. LF_NUM_DIR_ENT-1, NEW t, t = Emptied(s, e)
  PROVE  /\ DirsOK(t) /\ Good(t)
         /\ \A x \in 0 .. LF_NUM_DIR_ENT-1 :
               x # e => t.dir.lfd_files[x].ld_ilist = s.dir.lfd_files[x].ld_ilist
<1> DEFINE r == [s.dir.lfd_files[e] EXCEPT !.ld_ilist = LF_INULL, !.ld_size = 0]
<1>1. t.dir = Changed(s.dir, e, r) /\ t.disk = s.disk /\ t.dirdirty = TRUE
  BY DEF LfsOK, DirOK, Changed, Emptied
<1>2. DOMAIN r = DOMAIN s.dir.lfd_files[e] /\ r.ld_size = 0
  BY DEF DirsOK, DirFields
<1> HIDE DEF r
<1>3. /\ DOMAIN t.dir = DOMAIN s.dir /\ t.dir.lfd_nfiles = s.dir.lfd_nfiles
      /\ DOMAIN t.dir.lfd_files = 0 .. LF_NUM_DIR_ENT-1 /\ t.dir.lfd_files[e] = r
      /\ \A x \in 0 .. LF_NUM_DIR_ENT-1 : x # e => t.dir.lfd_files[x] = s.dir.lfd_files[x]
      /\ s.dir.lfd_nfiles \in Nat /\ 0 .. s.dir.lfd_nfiles-1 \subseteq 0 .. LF_NUM_DIR_ENT-1
  <2>1. DirOK(s.dir)
    BY DEF LfsOK
  <2> QED  BY <1>1, <2>1, EntryDir
<1>4. DirFields(t.dir)
  BY <1>2, <1>3 DEF DirsOK, DirFields
<1>5. SizesOK(t.dir)
  BY <1>2, <1>3 DEF DirsOK, SizesOK
<1> QED  BY <1>1, <1>3, <1>4, <1>5 DEF DirsOK, Good

\* Where a truncation goes at its end.
LEMMA EndGoes ==
  ASSUME IInv, CleanInv, NEW p \in Proc, call[p].op = "trunc", LflcontrolEnd(p)
  PROVE  \E c : /\ call' = [call EXCEPT ![p] = c]
                /\ c.op \in UseOps => c.slot \in fds[p]
                /\ c.pc \notin {"setup", "walk", "place"}
<1> DEFINE c == [call[p] EXCEPT !.pc = "unlock"]
<1>1. call' = [call EXCEPT ![p] = c] \/ call' = [call EXCEPT ![p] = Idle]
  BY DEF LflcontrolEnd, Signal
<1>2. c.op = call[p].op /\ c.slot = call[p].slot /\ c.pc = "unlock" /\ UseInv(p)
  <2>1. CallOK(call[p]) /\ UseInv(p)
    BY CleanNow
  <2> QED  BY <2>1 DEF CallOK
<1>3. Idle.op \notin UseOps /\ Idle.pc = "idle"
  BY IdleOK DEF UseOps
<1> HIDE DEF c
<1> QED  BY <1>1, <1>2, <1>3 DEF UseInv

\* lftruncate takes the blocks from the entry, and the control block lets go
\* of those it has.
LEMMA LftruncateClean ==
  ASSUME IInv, CleanInv, NEW p \in Proc, Lftruncate(p)
  PROVE  CleanInv'
<1> DEFINE i == call[p].slot
           f == lfltab[i]
           e == f.lfdirptr
           dirty == f.lfibdirty \/ f.lfdbdirty
           s == IF dirty THEN Flush(lfs, f) ELSE lfs
           t == Emptied(s, e)
           f1 == IF dirty THEN Flushed(f) ELSE f
           g == [f1 EXCEPT !.lfpos = 0, !.lfinum = LF_INULL, !.lfdnum = LF_DNULL,
                           !.lfbyte = LF_BLKSIZ]
           first == s.dir.lfd_files[e].ld_ilist
           c == [call[p] EXCEPT !.pc = "free", !.first = first, !.next = first,
                                !.ifree = s.dir.lfd_ifree]
<1>1. /\ call[p].pc = "trunc" /\ Holds(p, DIR) /\ fds' = fds
      /\ \/ LflcontrolEnd(p) /\ UNCHANGED data
         \/ lfs' = t /\ lfltab' = [lfltab EXCEPT ![i] = g] /\ Goto(p, c)
  BY DEF Lftruncate, At, Emptied
<1>2. /\ i \in Slot /\ LfsOK(lfs) /\ DirsOK(lfs) /\ Calm(lfs, lfs) /\ CallOK(call[p]) /\ UseInv(p)
      /\ {"lfstate", "lfdirptr", "lfinum", "lfbyte"} \subseteq DOMAIN f
      /\ call[p].op \in UseOps => i \in OpenSlots
  BY CleanNow
<1>3. call[p].op = "trunc" /\ i \in OpenSlots /\ i \in fds[p]
  BY <1>1, <1>2 DEF CallOK, UseOps, UseInv
<1>4. c.slot = i /\ c.op = "trunc" /\ c.pc = "free"
  BY <1>2, <1>3 DEF CallOK
<1>5. Calm(lfs, s) /\ s.dir = lfs.dir /\ LfsOK(s) /\ DirsOK(s)
  BY <1>2, FlushCalm, FlushSame, SamesHold DEF SameDir, Calm
<1>6. /\ {"lfstate", "lfdirptr", "lfinum", "lfbyte"} \subseteq DOMAIN f1
      /\ f1.lfdirptr = f.lfdirptr /\ f1.lfstate = f.lfstate
  BY <1>2, FlushedLoads
<1>7. e = EntryOf(i) /\ e \in 0 .. LF_NUM_DIR_ENT-1
  BY <1>3, OpenEntries DEF EntryOf
<1> HIDE DEF f1
<1>8. /\ {"lfinum", "lfbyte"} \subseteq DOMAIN g /\ g.lfdirptr = f.lfdirptr /\ g.lfstate = f.lfstate
      /\ ~Loaded(g)
  BY <1>6, DiskAssumption DEF Loaded, AtEnd
<1> HIDE DEF s, t, g, c
<1>9. CASE LflcontrolEnd(p) /\ UNCHANGED data
  <2>1. PICK b : /\ call' = [call EXCEPT ![p] = b]
                 /\ b.op \in UseOps => b.slot \in fds[p]
                 /\ b.pc \notin {"setup", "walk", "place"}
    BY <1>3, <1>9, EndGoes
  <2> QED  BY <1>1, <1>9, <2>1, WaitsClean
<1>10. CASE lfs' = t /\ lfltab' = [lfltab EXCEPT ![i] = g] /\ Goto(p, c)
  <2>1. call' = [call EXCEPT ![p] = c]
    BY <1>10 DEF Goto
  <2>2. /\ DirsOK(lfs') /\ Good(lfs')
        /\ \A x \in 0 .. LF_NUM_DIR_ENT-1 :
              x # e => lfs'.dir.lfd_files[x].ld_ilist = lfs.dir.lfd_files[x].ld_ilist
    <3>1. t = Emptied(s, e)
      BY DEF t
    <3>2. /\ DirsOK(t) /\ Good(t)
          /\ \A x \in 0 .. LF_NUM_DIR_ENT-1 :
                x # e => t.dir.lfd_files[x].ld_ilist = s.dir.lfd_files[x].ld_ilist
      BY <1>5, <1>7, <3>1, EmptiedGood
    <3> QED  BY <1>5, <1>10, <3>2
  <2>3. /\ lfltab'[i] = g /\ \A j \in Slot \ {i} : lfltab'[j] = lfltab[j]
    BY <1>2, <1>10, SamesHold DEF TabOK
  <2>4. OpenSlots' = OpenSlots /\ \A j \in Slot : lfltab'[j].lfdirptr = lfltab[j].lfdirptr
    BY <1>8, <2>3 DEF OpenSlots
  <2>5. \A j \in Slot : {"lfinum", "lfbyte"} \subseteq DOMAIN lfltab'[j]
    BY <1>8, <2>3, CleanNow
  <2>6. ASSUME NEW j \in OpenSlots, Loaded(lfltab'[j])  PROVE Ilist(EntryOf(j))' # LF_INULL
    <3>1. EntryOf(j) \in 0 .. LF_NUM_DIR_ENT-1 /\ EntryOf(j)' = EntryOf(j) /\ j \in Slot
      BY <2>4, OpenEntries DEF EntryOf
    <3>2. j # i
      BY <1>8, <2>3, <2>6
    <3>3. EntryOf(j) # e
      BY <1>3, <1>7, <3>2 DEF EntryOf, IInv, FilesInv, OpenFilesApart, EntryIsOwn
    <3>4. Ilist(EntryOf(j)) # LF_INULL
      <4>1. lfltab'[j] = lfltab[j]
        BY <2>3, <3>1, <3>2
      <4> QED  BY <2>6, <4>1 DEF CleanInv, LoadedInv
    <3>5. lfs'.dir.lfd_files[EntryOf(j)].ld_ilist = lfs.dir.lfd_files[EntryOf(j)].ld_ilist
      BY <2>2, <3>1, <3>3
    <3> QED  BY <3>1, <3>4, <3>5 DEF Ilist
  <2>7. LoadedInv'
    BY <2>4, <2>5, <2>6 DEF LoadedInv
  <2>8. \A j \in OpenSlots : lfltab'[j].lfdirptr = lfltab[j].lfdirptr
    BY <2>4, OpenEntries
  <2>9. \A q \in Proc \ {p} : fds'[q] = fds[q]
    BY <1>1
  <2>10. c.op \in UseOps => c.slot \in fds'[p]
    BY <1>1, <1>3, <1>4
  <2>11. c.pc \notin {"setup", "walk", "place"}
    BY <1>4
  <2> QED  BY <1>1, <2>1, <2>2, <2>7, <2>8, <2>9, <2>10, <2>11, StepClean
<1> QED  BY <1>1, <1>9, <1>10

\* A round of the loop over the i-blocks, and its end.
LEMMA FreeClean ==
  ASSUME IInv, CleanInv, NEW p \in Proc, FreeLoop(p) \/ FreePut(p) \/ FreeEnd(p)
  PROVE  CleanInv'
<1>1. /\ LfsOK(lfs) /\ DirsOK(lfs) /\ CallOK(call[p]) /\ UseInv(p) /\ call[p].pc \in {"free", "put"}
  BY CleanNow DEF FreeLoop, FreePut, FreeEnd, At
<1>2. call[p].op \in {"trunc", "remove"}
  BY <1>1 DEF CallOK
<1>3. ASSUME NEW c, call' = [call EXCEPT ![p] = c], UNCHANGED <<lfltab, fds>>, Calm(lfs, lfs'),
             c.op = call[p].op /\ c.slot = call[p].slot, c.pc \in {"free", "put", "move"}
      PROVE  CleanInv'
  BY <1>1, <1>3, CalmSame DEF UseInv
<1>4. CASE FreeLoop(p)
  <2> DEFINE s == FreeDblocks(lfs, lfs.disk.ib[call[p].next])
             sector == [ReadSector(s, call[p].next) EXCEPT
                            ![call[p].next] = Cleared(@, call[p].ifree)]
             c == [call[p] EXCEPT !.pc = "put", !.sector = sector]
  <2>1. Halt("undefined") \/ (lfs' = s /\ call' = [call EXCEPT ![p] = c] /\ UNCHANGED <<lfltab, fds>>)
    BY <1>4 DEF FreeLoop, Goto
  <2>2. CASE Halt("undefined")
    BY <2>2, StuttersClean DEF Halt
  <2>3. CASE lfs' = s /\ call' = [call EXCEPT ![p] = c] /\ UNCHANGED <<lfltab, fds>>
    <3>1. Calm(lfs, s)
      BY <1>1, FreeDblocksCalm
    <3> HIDE DEF s, sector
    <3>2. c.op = call[p].op /\ c.slot = call[p].slot /\ c.pc = "put"
      BY <1>1 DEF CallOK
    <3> HIDE DEF c
    <3> QED  BY <1>3, <2>3, <3>1, <3>2
  <2> QED  BY <2>1, <2>2, <2>3
<1>5. CASE FreePut(p)
  <2> DEFINE sector == call[p].sector
             c == [call[p] EXCEPT !.pc = "free", !.next = sector[@].ib_next, !.sector = <<>>]
  <2>1. lfs' = WriteSector(lfs, sector) /\ call' = [call EXCEPT ![p] = c] /\ UNCHANGED <<lfltab, fds>>
    BY <1>5 DEF FreePut, Goto
  <2>2. Calm(lfs, lfs')
    BY <1>1, <2>1, WriteSectorCalm
  <2>3. c.op = call[p].op /\ c.slot = call[p].slot /\ c.pc = "free"
    BY <1>1 DEF CallOK
  <2> HIDE DEF c
  <2> QED  BY <1>3, <2>1, <2>2, <2>3
<1>6. CASE FreeEnd(p)
  <2> DEFINE c == [call[p] EXCEPT !.pc = "move"]
  <2>1. /\ lfs' = [lfs EXCEPT !.dir.lfd_ifree = call[p].first, !.dirdirty = TRUE]
        /\ IF call[p].op = "trunc" THEN LflcontrolEnd(p) ELSE call' = [call EXCEPT ![p] = c]
        /\ UNCHANGED <<lfltab, fds>>
    BY <1>6 DEF FreeEnd, Goto
  <2>2. Calm(lfs, lfs')
    <3>1. /\ lfs'.dir.lfd_files = lfs.dir.lfd_files /\ lfs'.dir.lfd_nfiles = lfs.dir.lfd_nfiles
          /\ DOMAIN lfs'.dir = DOMAIN lfs.dir /\ lfs'.disk = lfs.disk /\ lfs'.dirdirty = TRUE
      BY <1>1, <2>1 DEF LfsOK, DirOK
    <3> QED  BY <1>1, <3>1 DEF Calm, SameLists, DirsOK, DirFields, SizesOK, Good
  <2>3. CASE call[p].op = "trunc"
    <3>1. PICK b : /\ call' = [call EXCEPT ![p] = b]
                   /\ b.op \in UseOps => b.slot \in fds[p]
                   /\ b.pc \notin {"setup", "walk", "place"}
      BY <2>1, <2>3, EndGoes
    <3> QED  BY <1>1, <2>1, <2>2, <3>1, CalmSame
  <2>4. CASE call[p].op = "remove"
    <3>1. c.op = call[p].op /\ c.slot = call[p].slot /\ c.pc = "move"
      BY <1>1 DEF CallOK
    <3>2. call' = [call EXCEPT ![p] = c]
      BY <2>1, <2>4
    <3> HIDE DEF c
    <3> QED  BY <1>3, <2>1, <2>2, <3>1, <3>2
  <2> QED  BY <1>2, <2>3, <2>4
<1> QED  BY <1>4, <1>5, <1>6

-----------------------------------------------------------------------------
\* Open, remove and rename, which read the directory when it is not present.

\* What is read is what is on the disk.
LEMMA PresentClean ==
  ASSUME IInv, CleanInv
  PROVE  /\ LfsOK(Present(lfs)) /\ DirsOK(Present(lfs)) /\ (Good(lfs) => Good(Present(lfs)))
         /\ \A j \in OpenSlots : Present(lfs) = lfs
         /\ Present(lfs).dirpresent
<1>1. LfsOK(lfs) /\ DirsOK(lfs)
  BY CleanNow
<1> DEFINE s == Present(lfs)
<1>2. LfsOK(s) /\ s.dirpresent /\ (s = lfs \/ OpenSlots = {})
  BY PresentKept
<1>3. s = lfs \/ (s.dir = lfs.disk.dir /\ s.disk = lfs.disk)
  BY <1>1 DEF Present, LfsOK
<1> HIDE DEF s
<1>4. DirsOK(s)
  BY <1>1, <1>3 DEF DirsOK
<1>5. CASE s = lfs
  BY <1>2, <1>4, <1>5 DEF s
<1>6. CASE s.dir = lfs.disk.dir /\ s.disk = lfs.disk
  <2>1. Good(s)
    BY <1>2, <1>6, GoodSelf DEF Good, LfsOK, DirOK
  <2> QED  BY <1>2, <1>4, <2>1 DEF s
<1> QED  BY <1>3, <1>5, <1>6

\* A step of who has lf_mutex, that changes no control block and no list of an
\* open file.
LEMMA EntriesClean ==
  ASSUME IInv, CleanInv, NEW p \in Proc, NEW c, call' = [call EXCEPT ![p] = c],
         UNCHANGED <<lfltab, fds>>, Holds(p, DIR), DirsOK(lfs'),
         \A j \in OpenSlots : lfs'.dir.lfd_files[EntryOf(j)].ld_ilist
                              = lfs.dir.lfd_files[EntryOf(j)].ld_ilist,
         c.op \notin UseOps, c.pc \notin {"setup", "walk", "place"},
         \/ c.pc = "clear" \/ Good(lfs')
         \/ call[p].pc # "clear" /\ (Good(lfs) => Good(lfs'))
  PROVE  CleanInv'
<1>1. OpenSlots' = OpenSlots /\ \A j \in OpenSlots : Ilist(EntryOf(j))' = Ilist(EntryOf(j))
  BY DEF OpenSlots, Ilist, EntryOf
<1>2. LoadedInv'
  BY <1>1 DEF CleanInv, LoadedInv, Loaded
<1>3. \A j \in OpenSlots : lfltab'[j].lfdirptr = lfltab[j].lfdirptr
  OBVIOUS
<1> QED  BY <1>2, <1>3, StepClean

\* What is in memory after a new entry, and after the last one is cleared.
Entered(s, n, r) == [s EXCEPT !.dir.lfd_nfiles = n + 1, !.dir.lfd_files[n] = r]
Less(s, n)       == [s EXCEPT !.dir.lfd_files[n] = NoEntry, !.dir.lfd_nfiles = n,
                              !.dirdirty = TRUE]

\* A new file has no bytes, and may be missing on the disk.
LEMMA EnteredGood ==
  ASSUME NEW s, LfsOK(s), DirsOK(s), NEW n, n = s.dir.lfd_nfiles, n < LF_NUM_DIR_ENT, NEW r,
         {"ld_size", "ld_ilist", "ld_name"} \subseteq DOMAIN r, r.ld_size = 0,
         NEW t, t = Entered(s, n, r)
  PROVE  /\ DirsOK(t) /\ (Good(s) => Good(t))
         /\ \A x \in 0 .. LF_NUM_DIR_ENT-1 :
               x # n => t.dir.lfd_files[x] = s.dir.lfd_files[x]
<1>1. n \in Nat /\ n \in 0 .. LF_NUM_DIR_ENT-1 /\ LF_NUM_DIR_ENT \in Nat
  BY DiskAssumption DEF LfsOK, DirOK
<1>2. /\ DOMAIN t.dir = DOMAIN s.dir /\ t.disk = s.disk /\ t.dirdirty = s.dirdirty
      /\ t.dirpresent = s.dirpresent
      /\ t.dir.lfd_nfiles = n + 1 /\ t.dir.lfd_files[n] = r
      /\ t.dir.lfd_ifree = s.dir.lfd_ifree /\ t.dir.lfd_dfree = s.dir.lfd_dfree
      /\ \A x \in 0 .. LF_NUM_DIR_ENT-1 : x # n => t.dir.lfd_files[x] = s.dir.lfd_files[x]
  <2> DEFINE D == [s.dir EXCEPT !.lfd_nfiles = n + 1, !.lfd_files = [s.dir.lfd_files EXCEPT ![n] = r]]
  <2>1. t = [s EXCEPT !.dir = D]
    BY DEF Entered
  <2>2. /\ DOMAIN D = DOMAIN s.dir /\ D.lfd_nfiles = n + 1
        /\ D.lfd_ifree = s.dir.lfd_ifree /\ D.lfd_dfree = s.dir.lfd_dfree
        /\ D.lfd_files = [s.dir.lfd_files EXCEPT ![n] = r]
    BY DEF LfsOK, DirOK, DirsOK, DirFields
  <2> HIDE DEF D
  <2>3. t.dir = D /\ t.disk = s.disk /\ t.dirdirty = s.dirdirty /\ t.dirpresent = s.dirpresent
    BY <2>1 DEF LfsOK
  <2> QED  BY <1>1, <2>2, <2>3 DEF LfsOK, DirOK
<1>3. DirFields(t.dir)
  BY <1>1, <1>2 DEF DirsOK, DirFields
<1>4. SizesOK(t.dir)
  BY <1>1, <1>2 DEF DirsOK, SizesOK
<1>5. ASSUME Good(s)  PROVE Good(t)
  <2> SUFFICES ASSUME s.dirpresent, ~s.dirdirty  PROVE GoodFor(s.disk.dir, t.dir)
    BY <1>2 DEF Good
  <2> DEFINE d == s.disk.dir
  <2>1. GoodFor(d, s.dir) /\ d.lfd_nfiles \in Nat
    BY <1>5, DiskAssumption DEF Good, LfsOK, DirOK
  <2> HIDE DEF d
  <2>2. d.lfd_ifree = t.dir.lfd_ifree /\ d.lfd_dfree = t.dir.lfd_dfree
    BY <1>2, <2>1 DEF GoodFor
  <2>3. ASSUME NEW e \in 0 .. t.dir.lfd_nfiles-1, t.dir.lfd_files[e].ld_size > 0
        PROVE  e < d.lfd_nfiles /\ d.lfd_files[e] = t.dir.lfd_files[e]
    <3>1. e # n
      BY <1>2, <2>3
    <3>2. e \in 0 .. n-1 /\ e \in 0 .. LF_NUM_DIR_ENT-1 /\ t.dir.lfd_files[e] = s.dir.lfd_files[e]
      BY <1>1, <1>2, <2>3, <3>1
    <3> QED  BY <2>1, <2>3, <3>2 DEF GoodFor
  <2>4. ASSUME NEW e \in 0 .. d.lfd_nfiles-1
        PROVE  e \in 0 .. t.dir.lfd_nfiles-1 /\ d.lfd_files[e].ld_name = t.dir.lfd_files[e].ld_name
    <3>1. e \in 0 .. n-1 /\ d.lfd_files[e].ld_name = s.dir.lfd_files[e].ld_name
      BY <2>1, <2>4 DEF GoodFor
    <3>2. e \in 0 .. t.dir.lfd_nfiles-1 /\ e \in 0 .. LF_NUM_DIR_ENT-1 /\ e # n
      BY <1>1, <1>2, <3>1
    <3> QED  BY <1>2, <3>1, <3>2
  <2> QED  BY <2>2, <2>3, <2>4 DEF GoodFor, d
<1> QED  BY <1>2, <1>3, <1>4, <1>5 DEF DirsOK

\* The directory is dirty once the last entry is cleared.
LEMMA LessGood ==
  ASSUME NEW s, LfsOK(s), DirsOK(s), NEW n \in Nat, s.dir.lfd_nfiles = n + 1, NEW t, t = Less(s, n)
  PROVE  /\ DirsOK(t) /\ Good(t)
         /\ \A x \in 0 .. LF_NUM_DIR_ENT-1 :
               x # n => t.dir.lfd_files[x] = s.dir.lfd_files[x]
<1>1. n \in 0 .. LF_NUM_DIR_ENT-1 /\ LF_NUM_DIR_ENT \in Nat
  BY DiskAssumption DEF LfsOK, DirOK
<1>2. /\ DOMAIN t.dir = DOMAIN s.dir /\ t.disk = s.disk /\ t.dirdirty = TRUE
      /\ t.dir.lfd_nfiles = n /\ t.dir.lfd_files[n] = NoEntry
      /\ \A x \in 0 .. LF_NUM_DIR_ENT-1 : x # n => t.dir.lfd_files[x] = s.dir.lfd_files[x]
  BY <1>1 DEF LfsOK, DirOK, Less
<1>3. DirFields(t.dir)
  <2>1. {"ld_size", "ld_ilist", "ld_name"} \subseteq DOMAIN NoEntry
    BY DEF NoEntry
  <2> QED  BY <1>1, <1>2, <2>1 DEF DirsOK, DirFields
<1>4. SizesOK(t.dir)
  BY <1>1, <1>2 DEF DirsOK, SizesOK
<1> QED  BY <1>2, <1>3, <1>4 DEF DirsOK, Good

\* A pseudo-device is given: its control block has no blocks yet.
LEMMA GivenClean ==
  ASSUME IInv, CleanInv, NEW p \in Proc, call' = [call EXCEPT ![p] = Idle], Holds(p, DIR),
         call[p].pc # "clear", NEW i \in Slot \ OpenSlots, NEW e,
         lfltab' = [lfltab EXCEPT ![i] = Opened(@, e)],
         fds' = [fds EXCEPT ![p] = @ \cup {i}],
         DirsOK(lfs'), Good(lfs) => Good(lfs'),
         \A j \in OpenSlots : lfs'.dir.lfd_files[EntryOf(j)].ld_ilist
                              = lfs.dir.lfd_files[EntryOf(j)].ld_ilist
  PROVE  CleanInv'
<1> DEFINE g == Opened(lfltab[i], e)
<1>1. /\ {"lfstate", "lfdirptr", "lfinum", "lfbyte"} \subseteq DOMAIN lfltab[i]
      /\ \A j \in Slot : {"lfinum", "lfbyte"} \subseteq DOMAIN lfltab[j]
  BY CleanNow
<1>2. {"lfinum", "lfbyte"} \subseteq DOMAIN g /\ ~Loaded(g)
  <2>1. {"lfinum", "lfbyte"} \subseteq DOMAIN g /\ g.lfinum = LF_INULL /\ g.lfbyte = LF_BLKSIZ
    BY <1>1 DEF Opened
  <2> HIDE DEF g
  <2> QED  BY <2>1, DiskAssumption DEF Loaded, AtEnd
<1> HIDE DEF g
<1>3. lfltab'[i] = g /\ \A j \in Slot \ {i} : lfltab'[j] = lfltab[j]
  BY SamesHold DEF TabOK, g
<1>4. OpenSlots' \subseteq OpenSlots \cup {i} /\ OpenSlots \subseteq Slot
  BY <1>3 DEF OpenSlots
<1>5. \A j \in Slot : {"lfinum", "lfbyte"} \subseteq DOMAIN lfltab'[j]
  BY <1>1, <1>2, <1>3
<1>6. ASSUME NEW j \in OpenSlots', Loaded(lfltab'[j])  PROVE Ilist(EntryOf(j))' # LF_INULL
  <2>1. j \in OpenSlots /\ lfltab'[j] = lfltab[j]
    BY <1>2, <1>3, <1>4, <1>6
  <2>2. Ilist(EntryOf(j)) # LF_INULL
    BY <1>6, <2>1 DEF CleanInv, LoadedInv
  <2> QED  BY <2>1, <2>2 DEF Ilist, EntryOf
<1>7. LoadedInv'
  BY <1>5, <1>6 DEF LoadedInv
<1>8. \A j \in OpenSlots : lfltab'[j].lfdirptr = lfltab[j].lfdirptr
  BY <1>3, <1>4
<1>9. Idle.op \notin UseOps /\ Idle.pc = "idle"
  BY IdleOK DEF UseOps
<1>10. \A q \in Proc \ {p} : fds'[q] = fds[q]
  BY DEF IInv, StateOK
<1> QED  BY <1>7, <1>8, <1>9, <1>10, StepClean

\* lfsopen finds the entry or makes one.
LEMMA LfsopenSearchClean ==
  ASSUME IInv, CleanInv, NEW p \in Proc, LfsopenSearch(p)
  PROVE  CleanInv'
<1> DEFINE s == Present(lfs)
           c == call[p]
           n == s.dir.lfd_nfiles
           old == Entries(s, c.name)
           r == [ld_size |-> 0, ld_ilist |-> LF_INULL, ld_name |-> c.name]
           give(e) == /\ lfltab' = [lfltab EXCEPT ![c.slot] = Opened(@, e)]
                      /\ fds'    = [fds EXCEPT ![p] = @ \cup {c.slot}]
<1>1. c.pc = "search" /\ Holds(p, DIR) /\ call' = [call EXCEPT ![p] = Idle]
  BY DEF LfsopenSearch, At, Signal
<1>2. \/ lfs' = s /\ give(Min(old))
      \/ n < LF_NUM_DIR_ENT /\ lfs' = Entered(s, n, r) /\ give(n)
      \/ lfs' = s /\ UNCHANGED <<lfltab, fds>>
  BY DEF LfsopenSearch, Entered
<1>3. c.slot \in Slot \ OpenSlots
  <2>1. CallOK(c) /\ c.slot \in Slot
    BY CleanNow
  <2>2. c.op = "open"
    BY <1>1, <2>1 DEF CallOK
  <2> QED  BY <2>1, <2>2 DEF IInv, FilesInv, OpenInv
<1>4. /\ LfsOK(s) /\ DirsOK(s) /\ (Good(lfs) => Good(s)) /\ \A j \in OpenSlots : s = lfs
  BY PresentClean
<1> HIDE DEF s
<1>5. \A j \in OpenSlots : s.dir.lfd_files[EntryOf(j)].ld_ilist = lfs.dir.lfd_files[EntryOf(j)].ld_ilist
  BY <1>4
<1> HIDE DEF c, n, old, r
<1>6. CASE lfs' = s /\ give(Min(old))
  BY <1>1, <1>3, <1>4, <1>5, <1>6, GivenClean DEF c
<1>7. CASE n < LF_NUM_DIR_ENT /\ lfs' = Entered(s, n, r) /\ give(n)
  <2>1. {"ld_size", "ld_ilist", "ld_name"} \subseteq DOMAIN r /\ r.ld_size = 0
    BY DEF r
  <2>2. /\ DirsOK(lfs') /\ (Good(s) => Good(lfs'))
        /\ \A x \in 0 .. LF_NUM_DIR_ENT-1 : x # n => lfs'.dir.lfd_files[x] = s.dir.lfd_files[x]
    BY <1>4, <1>7, <2>1, EnteredGood DEF n
  <2>3. ASSUME NEW j \in OpenSlots
        PROVE  lfs'.dir.lfd_files[EntryOf(j)].ld_ilist = lfs.dir.lfd_files[EntryOf(j)].ld_ilist
    <3>1. EntryOf(j) \in 0 .. LF_NUM_DIR_ENT-1 /\ EntryOf(j) # n
      <4>1. n = lfs.dir.lfd_nfiles
        BY <1>4 DEF n
      <4> QED  BY <4>1, OpenEntries
    <3> QED  BY <1>5, <2>2, <3>1
  <2>4. Good(lfs) => Good(lfs')
    BY <1>4, <2>2
  <2> QED  BY <1>1, <1>3, <1>7, <2>2, <2>3, <2>4, GivenClean DEF c
<1>8. CASE lfs' = s /\ UNCHANGED <<lfltab, fds>>
  <2>1. Idle.op \notin UseOps /\ Idle.pc = "idle"
    BY IdleOK DEF UseOps
  <2> QED  BY <1>1, <1>4, <1>5, <1>8, <2>1, EntriesClean DEF c
<1> QED  BY <1>2, <1>6, <1>7, <1>8

\* A remove finds its entry.
LEMMA LfscontrolDelClean ==
  ASSUME IInv, CleanInv, NEW p \in Proc, LfscontrolDel(p)
  PROVE  CleanInv'
<1> DEFINE s   == Present(lfs)
           e   == Min(Entries(s, call[p].name))
           first == s.dir.lfd_files[e].ld_ilist
           c1  == [[call[p] EXCEPT !.ent = e] EXCEPT !.pc = "move"]
           c2  == [[call[p] EXCEPT !.ent = e] EXCEPT !.pc = "free", !.first = first, !.next = first,
                                                     !.ifree = s.dir.lfd_ifree]
<1>1. /\ call[p].pc = "remove" /\ Holds(p, DIR) /\ lfs' = s /\ UNCHANGED <<lfltab, fds>>
      /\ \/ call' = [call EXCEPT ![p] = Idle]
         \/ call' = [call EXCEPT ![p] = c1] \/ call' = [call EXCEPT ![p] = c2]
  BY DEF LfscontrolDel, At, Goto, Signal
<1>2. call[p].op = "remove" /\ CallOK(call[p])
  BY <1>1, SamesHold DEF CallOK
<1>3. /\ DirsOK(s) /\ (Good(lfs) => Good(s)) /\ \A j \in OpenSlots : s = lfs
  BY PresentClean
<1> HIDE DEF s, e, first
<1>4. c1.op = "remove" /\ c1.pc = "move" /\ c2.op = "remove" /\ c2.pc = "free"
  BY <1>2 DEF CallOK
<1>5. Idle.op \notin UseOps /\ Idle.pc = "idle" /\ "remove" \notin UseOps
  BY IdleOK DEF UseOps
<1> HIDE DEF c1, c2
<1>6. \A j \in OpenSlots : lfs'.dir.lfd_files[EntryOf(j)].ld_ilist = lfs.dir.lfd_files[EntryOf(j)].ld_ilist
  BY <1>1, <1>3
<1>7. ASSUME NEW c \in {c1, c2, Idle}, call' = [call EXCEPT ![p] = c]  PROVE CleanInv'
  <2>1. c.op \notin UseOps /\ c.pc \notin {"setup", "walk", "place"}
    BY <1>4, <1>5, <1>7
  <2>2. DirsOK(lfs') /\ (Good(lfs) => Good(lfs')) /\ call[p].pc # "clear"
    BY <1>1, <1>3
  <2> QED  BY <1>1, <1>6, <1>7, <2>1, <2>2, EntriesClean
<1> QED  BY <1>1, <1>7

\* It moves the last entry, and clears it.
LEMMA RemoveClean ==
  ASSUME IInv, CleanInv, NEW p \in Proc, RemoveMove(p) \/ RemoveClear(p)
  PROVE  CleanInv'
<1> DEFINE n == lfs.dir.lfd_nfiles
           k == n-1
           e == call[p].ent
           moved == [lfs EXCEPT !.dir.lfd_files[e] = lfs.dir.lfd_files[k]]
           c == [call[p] EXCEPT !.pc = "clear"]
<1>1. /\ UNCHANGED <<lfltab, fds>> /\ call[p].pc \in {"move", "clear"}
      /\ \/ lfs' = moved /\ call' = [call EXCEPT ![p] = c]
         \/ lfs' = Less(lfs, k) /\ call' = [call EXCEPT ![p] = Idle]
  BY DEF RemoveMove, RemoveClear, At, Goto, Signal, Less
<1>2. /\ call[p].op = "remove" /\ CallOK(call[p]) /\ Holds(p, DIR) /\ LfsOK(lfs) /\ DirsOK(lfs)
  BY <1>1, CleanNow DEF CallOK, IInv, LineInv, OwnPcs
<1>3. /\ RemoveInv(p) /\ n > 0 /\ n \in Nat /\ k \in Nat /\ n = k + 1 /\ k \in 0 .. LF_NUM_DIR_ENT-1
  <2>1. RemoveInv(p) /\ n > 0
    BY <1>1, <1>2 DEF IInv, FilesInv, RemoveInv
  <2>2. n \in 0 .. LF_NUM_DIR_ENT /\ LF_NUM_DIR_ENT \in Nat
    BY <1>2, DiskAssumption DEF LfsOK, DirOK
  <2> QED  BY <2>1, <2>2
<1>4. \A j \in OpenSlots : EntryOf(j) \in 0 .. LF_NUM_DIR_ENT-1 /\ EntryOf(j) # k /\ EntryOf(j) # e
  BY <1>1, <1>3, OpenEntries DEF RemoveInv, LastEntry
<1>5. CASE lfs' = moved /\ call' = [call EXCEPT ![p] = c]
  <2>1. /\ moved.dir = Changed(lfs.dir, e, lfs.dir.lfd_files[k]) /\ moved.disk = lfs.disk
    BY <1>2 DEF LfsOK, DirOK, Changed
  <2>2. c.op = "remove" /\ c.pc = "clear" /\ c.op \notin UseOps
    BY <1>2 DEF CallOK, UseOps
  <2> HIDE DEF moved, c, k, n
  <2>3. /\ DOMAIN moved.dir = DOMAIN lfs.dir /\ moved.dir.lfd_nfiles = n
        /\ \A x \in 0 .. LF_NUM_DIR_ENT-1 :
               moved.dir.lfd_files[x] = (IF x = e THEN lfs.dir.lfd_files[k] ELSE lfs.dir.lfd_files[x])
    BY <1>2, <2>1 DEF LfsOK, DirOK, Changed, n
  <2>4. DirsOK(moved)
    <3>1. DirFields(moved.dir)
      BY <1>2, <1>3, <2>3 DEF DirsOK, DirFields
    <3>2. 0 .. n-1 \subseteq 0 .. LF_NUM_DIR_ENT-1 /\ k \in 0 .. n-1
      BY <1>2, <1>3, DiskAssumption DEF LfsOK, DirOK, n
    <3>3. SizesOK(moved.dir)
      BY <1>2, <2>3, <3>2 DEF DirsOK, SizesOK, n
    <3> QED  BY <1>2, <2>1, <3>1, <3>3 DEF DirsOK
  <2>5. \A j \in OpenSlots : lfs'.dir.lfd_files[EntryOf(j)].ld_ilist = lfs.dir.lfd_files[EntryOf(j)].ld_ilist
    BY <1>4, <1>5, <2>3
  <2>6. c.pc \notin {"setup", "walk", "place"} /\ DirsOK(lfs')
    BY <1>5, <2>2, <2>4
  <2> QED  BY <1>1, <1>2, <1>5, <2>2, <2>5, <2>6, EntriesClean
<1>6. CASE lfs' = Less(lfs, k) /\ call' = [call EXCEPT ![p] = Idle]
  <2> HIDE DEF k
  <2>1. /\ DirsOK(lfs') /\ Good(lfs')
        /\ \A x \in 0 .. LF_NUM_DIR_ENT-1 : x # k => lfs'.dir.lfd_files[x] = lfs.dir.lfd_files[x]
    BY <1>2, <1>3, <1>6, LessGood
  <2>2. \A j \in OpenSlots : lfs'.dir.lfd_files[EntryOf(j)].ld_ilist = lfs.dir.lfd_files[EntryOf(j)].ld_ilist
    BY <1>4, <2>1
  <2>3. Idle.op \notin UseOps /\ Idle.pc = "idle"
    BY IdleOK DEF UseOps
  <2> QED  BY <1>1, <1>2, <1>6, <2>1, <2>2, <2>3, EntriesClean
<1> QED  BY <1>1, <1>5, <1>6

\* A rename changes a name, and the directory is dirty.
LEMMA LfscontrolRenameClean ==
  ASSUME IInv, CleanInv, NEW p \in Proc, LfscontrolRename(p)
  PROVE  CleanInv'
<1> DEFINE s   == Present(lfs)
           e   == Min(Entries(s, call[p].name))
           t   == [s EXCEPT !.dir.lfd_files[e].ld_name = call[p].to, !.dirdirty = TRUE]
<1>1. /\ call[p].pc = "rename" /\ Holds(p, DIR) /\ lfs' \in {s, t} /\ UNCHANGED <<lfltab, fds>>
      /\ call' = [call EXCEPT ![p] = Idle]
  BY DEF LfscontrolRename, At, Signal
<1>2. LfsOK(s) /\ DirsOK(s) /\ (Good(lfs) => Good(s)) /\ \A j \in OpenSlots : s = lfs
  BY PresentClean
<1> HIDE DEF s, e
<1>3. /\ DOMAIN t.dir = DOMAIN s.dir /\ t.disk = s.disk /\ t.dirdirty = TRUE
      /\ t.dir.lfd_nfiles = s.dir.lfd_nfiles
      /\ \A x \in 0 .. LF_NUM_DIR_ENT-1 :
            /\ DOMAIN t.dir.lfd_files[x] = DOMAIN s.dir.lfd_files[x]
            /\ t.dir.lfd_files[x].ld_ilist = s.dir.lfd_files[x].ld_ilist
            /\ t.dir.lfd_files[x].ld_size = s.dir.lfd_files[x].ld_size
  <2> DEFINE D == [s.dir EXCEPT !.lfd_files[e].ld_name = call[p].to]
  <2>1. /\ DOMAIN D = DOMAIN s.dir /\ D.lfd_nfiles = s.dir.lfd_nfiles
        /\ \A x \in 0 .. LF_NUM_DIR_ENT-1 :
              D.lfd_files[x] = IF x = e THEN [s.dir.lfd_files[x] EXCEPT !.ld_name = call[p].to]
                               ELSE s.dir.lfd_files[x]
    BY <1>2 DEF LfsOK, DirOK
  <2>2. t = [s EXCEPT !.dir = D, !.dirdirty = TRUE]
    OBVIOUS
  <2> HIDE DEF D
  <2>3. t.dir = D /\ t.disk = s.disk /\ t.dirdirty = TRUE
    BY <1>2, <2>2 DEF LfsOK
  <2>4. \A x \in 0 .. LF_NUM_DIR_ENT-1 :
            {"ld_size", "ld_ilist", "ld_name"} \subseteq DOMAIN s.dir.lfd_files[x]
    BY <1>2 DEF DirsOK, DirFields
  <2> HIDE DEF t
  <2> QED  BY <2>1, <2>3, <2>4
<1> HIDE DEF t
<1>4. DirsOK(t) /\ Good(t)
  <2>1. 0 .. s.dir.lfd_nfiles-1 \subseteq 0 .. LF_NUM_DIR_ENT-1
    BY <1>2, DiskAssumption DEF LfsOK, DirOK
  <2> QED  BY <1>2, <1>3, <2>1 DEF DirsOK, DirFields, SizesOK, Good
<1>5. \A j \in OpenSlots : lfs'.dir.lfd_files[EntryOf(j)].ld_ilist = lfs.dir.lfd_files[EntryOf(j)].ld_ilist
  BY <1>1, <1>2, <1>3, OpenEntries
<1>6. DirsOK(lfs') /\ (Good(lfs) => Good(lfs')) /\ call[p].pc # "clear"
  BY <1>1, <1>2, <1>4
<1>7. Idle.op \notin UseOps /\ Idle.pc = "idle"
  BY IdleOK DEF UseOps
<1> QED  BY <1>1, <1>5, <1>6, <1>7, EntriesClean

-----------------------------------------------------------------------------
\* The directory on the disk is good while it is not said to be dirty.

\* At the start the directory has not been read.
LEMMA InitClean == Init => CleanInv
<1> SUFFICES ASSUME Init  PROVE CleanInv
  OBVIOUS
<1> DEFINE d == [lfd_files |-> [e \in 0 .. LF_NUM_DIR_ENT-1 |-> NoEntry],
                 lfd_nfiles |-> 0, lfd_ifree |-> 0, lfd_dfree |-> 0]
<1>1. DirFields(d) /\ SizesOK(d)
  BY DEF DirFields, SizesOK, NoEntry
<1>2. Formatted.dir = d
  BY DEF Formatted
<1>3. lfs.dir = Formatted.dir /\ lfs.disk = Formatted /\ ~lfs.dirpresent
  BY DEF Init
<1> HIDE DEF d
<1>4. DirsOK(lfs) /\ Good(lfs)
  BY <1>1, <1>2, <1>3 DEF DirsOK, Good
<1>5. LoadedInv
  BY DEF Init, LoadedInv, OpenSlots, Closed
<1>6. \A p \in Proc : UseInv(p)
  BY IdleOK DEF Init, UseInv, UseOps
<1> QED  BY <1>4, <1>5, <1>6 DEF CleanInv

\* Every step keeps it.
LEMMA NextClean ==
  ASSUME IInv, CleanInv, [Next]_vars, OwnFds
  PROVE  CleanInv'
<1>1. CASE UNCHANGED vars
  BY <1>1, StuttersClean DEF vars
<1>2. ASSUME NEW p \in Proc, Enter(p)  PROVE CleanInv'
  BY <1>2, EnterClean
<1>3. ASSUME NEW p \in Proc, Step(p)  PROVE CleanInv'
  BY <1>3, LfsopenSearchClean, ByteClean, SetupFirstClean, SetupOnClean, LflseekClean,
     LflcloseClean, LflcontrolClean, LftruncateClean, FreeClean, LfscontrolDelClean, RemoveClean,
     LfscontrolRenameClean DEF Step
<1> QED  BY <1>1, <1>2, <1>3 DEF Next

\* A directory that is not dirty is on the disk as far as it matters, in every
\* system that keeps open files apart (LocalFilesApart) and whose processes do
\* not share descriptors.
THEOREM LocalFilesClean ==
  ASSUME {"open_twice", "open_race", "remove_open", "share_fds"} \cap Careless = {}
  PROVE  Spec => []CleanMeansWritten
<1>1. Init => IInv /\ CleanInv
  BY InitIInv, InitClean
<1>2. (IInv /\ CleanInv) /\ [Next]_vars => (IInv /\ CleanInv)'
  BY NextIInv, NextClean DEF OwnFds
<1>3. IInv /\ CleanInv => CleanMeansWritten
  BY DEF CleanInv, CleanMeansWritten, Quiet, Good, GoodFor, InDir, Size
<1> QED  BY <1>1, <1>2, <1>3, PTL DEF Spec
=============================================================================
