---------------------------- MODULE MCLocalFiles ----------------------------
(* Instances of the local file system for TLC. *)
EXTENDS LocalFilesRefinement

\* Processes, names and bytes are interchangeable.
Interchange == Permutations(Proc) \cup Permutations(Names) \cup Permutations(Bytes)

\* Nobody reads what is left in a control block that is not in use: lfsopen
\* sets lfstate, lfdirptr, lfpos, lfinum, lfdnum and lfbyte.
InUse == <<lfs, [i \in OpenSlots |-> lfltab[i]], lockq, call, fds, got, cpu, halted>>
=============================================================================
