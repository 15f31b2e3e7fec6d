------------------------ MODULE LocalFilesRefinement ------------------------
(***************************************************************************)
(* The local file system implements Files: what is in the blocks of a file *)
(* and in the control block that has it open are its bytes.                *)
(***************************************************************************)
EXTENDS LocalFiles

\* The entries that name a file: remove has done with its own when it starts
\* to free the blocks, and with the last one when it has moved it.
Gone == {call[p].ent : p \in {q \in Proc : call[q].op = "remove"
                                 /\ call[q].pc \in {"free", "put", "move"}}}
        \cup {lfs.dir.lfd_nfiles - 1 : p \in {q \in Proc : call[q].pc = "clear"}}
Live == (0 .. lfs.dir.lfd_nfiles-1) \ Gone

NameOf(e) == lfs.dir.lfd_files[e].ld_name
ByteAt(e, pos) ==
    LET ib[k \in Nat] == IF k = 0 THEN lfs.dir.lfd_files[e].ld_ilist ELSE IbView(ib[k-1]).ib_next
        i == ib[pos \div LF_IDATA]
    IN  DbView(IbView(i).ib_dba[(pos % LF_IDATA) \div LF_BLKSIZ + 1])[(pos % LF_BLKSIZ) + 1]

content == [name \in {NameOf(e) : e \in Live} |->
               LET e == CHOOSE e \in Live : NameOf(e) = name
               IN  [k \in 1 .. Size(e) |-> ByteAt(e, k - 1)]]

desc == [i \in Slot |-> IF lfltab[i].lfstate = "LF_USED"
                        THEN [name |-> NameOf(lfltab[i].lfdirptr), pos |-> lfltab[i].lfpos]
                        ELSE [name |-> "", pos |-> 0]]

F == INSTANCE Files

\* A read returns what was last written at its place in the file, however
\* index blocks are walked, data blocks are cached, flushed, freed and
\* allocated again, and whatever processes do with other files meanwhile.
FilesRefined == F!Spec
=============================================================================
